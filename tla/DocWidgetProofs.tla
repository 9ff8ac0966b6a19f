-------------------------- MODULE DocWidgetProofs ---------------------------
(***************************************************************************)
(* The parts of a documentation page that open and close, that are loaded  *)
(* late, or that are remembered, proved as in DocProofs for every order of *)
(* the events of the browser: the newsletter and the blog, sections,       *)
(* panels, panes, the video box and the side navigation, the inherited     *)
(* members of a class, what the site remembers between visits, in every    *)
(* window that is open, the trees of the navigation, and the links and     *)
(* lists that are made from it.                                            *)
(***************************************************************************)
EXTENDS DocPages, SequenceTheorems, FiniteSetTheorems, FunctionTheorems,
        WellFoundedInduction, DataProofs, TLAPS


-----------------------------------------------------------------------------
(* What is tried again: the newsletter and the posts of the blog.           *)

(* The first three parts of what opens and closes, and what is loaded.       *)
TogglesSteps ==
    [NavNext]_nav /\ [ContentNext]_content /\ [PanelNext]_panel /\ [InheritedNext]_inherited
    /\ [NewsNext]_news /\ [FoldNext]_fold /\ [makeTogglable]_toc

LEMMA PagesMoveToggles == [PagesNext]_pagesVars => TogglesSteps
<1> SUFFICES ASSUME [PagesNext]_pagesVars PROVE TogglesSteps
  OBVIOUS
<1>1. CASE TogglesStep
  BY Zenon, <1>1 DEF TogglesStep, TogglesSteps
<1>2. TogglesStep \/ UNCHANGED togglesVars
  BY Zenon DEF PagesNext, pagesVars, SlidesStep, ListsStep, LoadsStep, NavStep, CompleteStep, TreeStep,
        FrameStep, QueryStep, SiteStep, MatchStep, PanesStep
<1>3. CASE UNCHANGED togglesVars
  BY Zenon, <1>3 DEF togglesVars, TogglesSteps
<1>4. QED
  BY <1>1, <1>2, <1>3

LoadsSteps == [BlogNext]_blog /\ [VideoNext]_video /\ [TreesNext]_trees /\ [RefNext]_ref

LEMMA PagesMoveLoads == [PagesNext]_pagesVars => LoadsSteps
<1> SUFFICES ASSUME [PagesNext]_pagesVars PROVE LoadsSteps
  OBVIOUS
<1>1. CASE LoadsStep
  BY Zenon, <1>1 DEF LoadsStep, LoadsSteps
<1>2. LoadsStep \/ UNCHANGED loadsVars
  BY Zenon DEF PagesNext, pagesVars, SlidesStep, ListsStep, TogglesStep, NavStep, CompleteStep, TreeStep,
        FrameStep, QueryStep, SiteStep, MatchStep, PanesStep
<1>3. CASE UNCHANGED loadsVars
  BY Zenon, <1>3 DEF loadsVars, LoadsSteps
<1>4. QED
  BY <1>1, <1>2, <1>3
-----------------------------------------------------------------------------
NewsType ==
    [open : BOOLEAN, view : {"form", "thanks"}, swaps : Nat, onSwap : Nat, onClose : Nat,
     resets : Nat, clicks : Nat]

(* The thank-you is in view while one reset of the form is still to come: at *)
(* the end of an animation that is under way, at the next close, or from a   *)
(* timer.                                                                    *)
NewsGood(n) ==
    /\ n \in NewsType
    /\ n.onSwap + n.onClose + n.resets = IF n.view = "form" THEN 0 ELSE 1
    /\ n.onSwap <= n.swaps

LEMMA NewsKept == NewsGood(news) /\ NewsNext => NewsGood(news')
<1> SUFFICES ASSUME NewsGood(news), NewsNext PROVE NewsGood(news')
    OBVIOUS
<1>0. /\ news \in NewsType /\ news.onSwap <= news.swaps /\ news.view \in {"form", "thanks"}
      /\ news.onSwap \in Nat /\ news.onClose \in Nat /\ news.resets \in Nat /\ news.swaps \in Nat
      /\ news.clicks + 1 \in Nat /\ news.swaps + 1 \in Nat /\ news.onSwap + 1 \in Nat
      /\ news.onClose + news.onSwap \in Nat /\ news.resets + news.onClose \in Nat
      /\ news.onSwap + news.onClose + news.resets = IF news.view = "form" THEN 0 ELSE 1
  <2>1. /\ news \in NewsType /\ news.onSwap <= news.swaps /\ news.view \in {"form", "thanks"}
        /\ news.onSwap \in Nat /\ news.onClose \in Nat /\ news.resets \in Nat /\ news.swaps \in Nat
        /\ news.clicks \in Nat
    BY DEF NewsGood, NewsType
  <2>2. news.onSwap + news.onClose + news.resets = IF news.view = "form" THEN 0 ELSE 1
    BY DEF NewsGood
  <2>3. QED
    BY <2>1, <2>2
<1>1. CASE NewsOpen
  <2>1. news' \in NewsType
    BY <1>0, <1>1 DEF NewsOpen, NewsType
  <2>2. /\ news'.view = news.view
        /\ news'.swaps = news.swaps
        /\ news'.onSwap = news.onSwap
        /\ news'.onClose = news.onClose
        /\ news'.resets = news.resets
    BY <1>0, <1>1 DEF NewsOpen, NewsType
  <2>3. QED
    BY <1>0, <1>1, <2>1, <2>2 DEF NewsOpen, NewsGood
<1>2. CASE NewsSubmit
  <2>1. news' \in NewsType
    BY <1>0, <1>2 DEF NewsSubmit, OtherView, NewsType
  <2>2. /\ news'.view = "thanks"
        /\ news'.swaps = news.swaps + 1
        /\ news'.onSwap = news.onSwap + 1
        /\ news'.onClose = news.onClose
        /\ news'.resets = news.resets
    BY <1>0, <1>2 DEF NewsSubmit, OtherView, NewsType
  <2>3. news.view = "form" /\ "thanks" # "form"
    BY <1>2 DEF NewsSubmit
  <2>4. news.onSwap = 0 /\ news.onClose = 0 /\ news.resets = 0
    BY <1>0, <2>3
  <2>5. QED
    BY <1>0, <2>1, <2>2, <2>3, <2>4 DEF NewsGood
<1>3. CASE NewsSwapped
  <2>0. news.swaps - 1 \in Nat
    BY <1>0, <1>3 DEF NewsSwapped
  <2>1. news' \in NewsType
    BY <1>0, <1>3, <2>0 DEF NewsSwapped, NewsType
  <2>2. /\ news'.view = news.view
        /\ news'.swaps = news.swaps - 1
        /\ news'.onSwap = 0
        /\ news'.onClose = news.onClose + news.onSwap
        /\ news'.resets = news.resets
    BY <1>0, <1>3 DEF NewsSwapped, NewsType
  <2>3. QED
    BY <1>0, <1>3, <2>1, <2>2 DEF NewsSwapped, NewsGood
<1>4. CASE NewsClose
  <2>1. news' \in NewsType
    BY <1>0, <1>4 DEF NewsClose, NewsType
  <2>2. /\ news'.view = news.view
        /\ news'.swaps = news.swaps
        /\ news'.onSwap = news.onSwap
        /\ news'.onClose = 0
        /\ news'.resets = news.resets + news.onClose
    BY <1>0, <1>4 DEF NewsClose, NewsType
  <2>3. QED
    BY <1>0, <1>4, <2>1, <2>2 DEF NewsClose, NewsGood
<1>5. CASE NewsReset
  <2>0. news.resets - 1 \in Nat
    BY <1>0, <1>5 DEF NewsReset
  <2>1. news' \in NewsType
    BY <1>0, <1>5, <2>0 DEF NewsReset, OtherView, NewsType
  <2>2. /\ news'.view = OtherView(news.view)
        /\ news'.swaps = news.swaps
        /\ news'.onSwap = news.onSwap
        /\ news'.onClose = news.onClose
        /\ news'.resets = news.resets - 1
    BY <1>0, <1>5 DEF NewsReset, OtherView, NewsType
  <2>3. QED
    BY <1>0, <1>5, <2>1, <2>2 DEF NewsReset, OtherView, NewsGood
<1>6. QED
    BY <1>1, <1>2, <1>3, <1>4, <1>5 DEF NewsNext
-----------------------------------------------------------------------------
BlogRequests == [post : Posts, second : BOOLEAN]

BlogType ==
    [setup : BOOLEAN, flight : Seq(BlogRequests), shown : Posts \cup {Nothing}, open : BOOLEAN,
     left : BOOLEAN, clicks : Nat, requests : Nat]

(* The requests under way that would be made again.                          *)
FirstTries(flying) == {k \in 1 .. Len(flying) : ~flying[k].second}

(* Every click has made one request, and each that was a second try has used *)
(* up a first.                                                               *)
BlogGood(b) ==
    /\ b \in BlogType
    /\ b.requests + Cardinality(FirstTries(b.flight)) <= 2 * b.clicks
    /\ b.clicks > 0 /\ b.flight = <<>> => b.shown # Nothing \/ b.left

LEMMA FirstTriesFinite ==
    ASSUME NEW f \in Seq(BlogRequests)
    PROVE  IsFiniteSet(FirstTries(f)) /\ Cardinality(FirstTries(f)) \in Nat
<1>1. IsFiniteSet(1 .. Len(f))
    BY FS_Interval
<1>2. FirstTries(f) \in SUBSET (1 .. Len(f))
    BY DEF FirstTries
<1>3. IsFiniteSet(FirstTries(f))
    BY <1>1, <1>2, FS_Subset
<1>4. QED
    BY <1>3, FS_CardinalityType

LEMMA FirstTriesOfAppend ==
    ASSUME NEW f \in Seq(BlogRequests), NEW r \in BlogRequests
    PROVE  Cardinality(FirstTries(Append(f, r)))
               = Cardinality(FirstTries(f)) + IF r.second THEN 0 ELSE 1
<1> DEFINE g == Append(f, r)
<1>1. Len(g) = Len(f) + 1 /\ g[Len(f) + 1] = r /\ \A k \in 1 .. Len(f) : g[k] = f[k]
    OBVIOUS
<1>2. Len(f) \in Nat /\ r.second \in BOOLEAN
    BY DEF BlogRequests
<1> HIDE DEF g
<1>3. CASE r.second
  <2>1. FirstTries(g) = FirstTries(f)
    BY <1>1, <1>2, <1>3 DEF FirstTries
  <2>2. QED
    BY <1>3, <2>1, FirstTriesFinite DEF g
<1>4. CASE ~r.second
  <2>1. FirstTries(g) = FirstTries(f) \cup {Len(f) + 1} /\ Len(f) + 1 \notin FirstTries(f)
    BY <1>1, <1>2, <1>4 DEF FirstTries
  <2>2. Cardinality(FirstTries(g)) = Cardinality(FirstTries(f)) + 1
    BY <2>1, FirstTriesFinite, FS_AddElement
  <2>3. QED
    BY <1>4, <2>2 DEF g
<1>5. QED
    BY <1>2, <1>3, <1>4

LEMMA FirstTriesOfRemoved ==
    ASSUME NEW f \in Seq(BlogRequests), NEW i \in 1 .. Len(f)
    PROVE  Cardinality(FirstTries(RemoveAt(f, i)))
               <= Cardinality(FirstTries(f)) - IF f[i].second THEN 0 ELSE 1
<1> DEFINE g == RemoveAt(f, i)
           S == FirstTries(f) \ {i}
           T == FirstTries(g)
           move == [k \in T |-> IF k < i THEN k ELSE k + 1]
<1>1. g \in Seq(BlogRequests) /\ Len(g) = Len(f) - 1
      /\ \A k \in 1 .. Len(f) - 1 : g[k] = IF k < i THEN f[k] ELSE f[k + 1]
  <2>1. i \in DOMAIN f
    OBVIOUS
  <2>2. QED
    BY <2>1, Removed
<1>2. Len(f) \in Nat /\ i \in Nat
    OBVIOUS
<1> HIDE DEF g
<1>3. ASSUME NEW k \in T
      PROVE  move[k] \in S
  <2>1. k \in 1 .. Len(f) - 1 /\ ~g[k].second
    BY <1>1 DEF FirstTries
  <2>2. CASE k < i
    <3>1. move[k] = k /\ g[k] = f[k] /\ k # i /\ k \in 1 .. Len(f)
      BY <1>1, <1>2, <2>1, <2>2
    <3>2. QED
      BY <2>1, <3>1 DEF FirstTries
  <2>3. CASE ~(k < i)
    <3>1. move[k] = k + 1 /\ g[k] = f[k + 1] /\ k + 1 # i /\ k + 1 \in 1 .. Len(f)
      BY <1>1, <1>2, <2>1, <2>3
    <3>2. QED
      BY <2>1, <3>1 DEF FirstTries
  <2>4. QED
    BY <2>2, <2>3
<1>4. ASSUME NEW k \in T, NEW l \in T, move[k] = move[l]
      PROVE  k = l
  <2>1. k \in Nat /\ l \in Nat
    BY <1>1 DEF FirstTries
  <2>2. move[k] = (IF k < i THEN k ELSE k + 1) /\ move[l] = (IF l < i THEN l ELSE l + 1)
    OBVIOUS
  <2>3. (IF k < i THEN k ELSE k + 1) = (IF l < i THEN l ELSE l + 1)
    BY <1>4, <2>2
  <2> HIDE DEF move, T
  <2>4. QED
    BY <1>2, <2>1, <2>3
<1>5. move \in Injection(T, S)
  <2>1. move \in [T -> S]
    BY <1>3
  <2>2. QED
    BY <1>4, <2>1, Fun_IsInj
<1>6. IsFiniteSet(S) /\ Cardinality(S) = IF i \in FirstTries(f) THEN Cardinality(FirstTries(f)) - 1
                                        ELSE Cardinality(FirstTries(f))
    BY FirstTriesFinite, FS_RemoveElement
<1>7. Cardinality(T) <= Cardinality(S)
  <2>1. IsFiniteSet(S)
    BY <1>6
  <2> HIDE DEF move, S, T
  <2>2. QED
    BY <1>5, <2>1, FS_Injection
<1>8. f[i].second \in BOOLEAN /\ (i \in FirstTries(f) <=> ~f[i].second)
  <2>1. f[i] \in BlogRequests
    OBVIOUS
  <2>2. QED
    BY <2>1 DEF FirstTries, BlogRequests
<1>8a. Cardinality(FirstTries(f)) \in Nat
    BY FirstTriesFinite
<1>8b. Cardinality(FirstTries(g)) <= Cardinality(S)
    BY <1>7
<1> HIDE DEF S, T
<1>9. Cardinality(FirstTries(g)) <= Cardinality(FirstTries(f)) - IF f[i].second THEN 0 ELSE 1
  <2>1. CASE f[i].second
    BY <1>6, <1>8, <1>8a, <1>8b, <2>1
  <2>2. CASE ~f[i].second
    BY <1>6, <1>8, <1>8a, <1>8b, <2>2
  <2>3. QED
    BY <1>8, <2>1, <2>2
<1>10. QED
    BY <1>9 DEF g

LEMMA PostAsked ==
    ASSUME NEW b \in BlogType, NEW post \in Posts, NEW second \in BOOLEAN
    PROVE  LET n == showPost(b, post, second)
           IN  /\ n \in BlogType
               /\ n.flight = Append(b.flight, [post |-> post, second |-> second])
               /\ n.requests = b.requests + 1 /\ n.clicks = b.clicks
               /\ n.flight # <<>>
<1> DEFINE r == [post |-> post, second |-> second]
           flying == Append(b.flight, r)
           n == [b EXCEPT !.flight = flying, !.requests = @ + 1]
<1>1. n = showPost(b, post, second)
    BY Zenon DEF showPost
<1>2. r \in BlogRequests
    BY DEF BlogRequests
<1>3. b.flight \in Seq(BlogRequests) /\ b.requests + 1 \in Nat
    BY DEF BlogType
<1> HIDE DEF r
<1>4. flying \in Seq(BlogRequests) /\ flying # <<>>
    BY <1>2, <1>3, LastOfAppend
<1>5. flying = Append(b.flight, r)
    OBVIOUS
<1> HIDE DEF flying
<1>6. n \in BlogType
    BY <1>3, <1>4 DEF BlogType
<1>7. n.flight = flying /\ n.requests = b.requests + 1 /\ n.clicks = b.clicks
    BY DEF BlogType
<1> HIDE DEF n
<1>8. QED
    BY <1>1, <1>4, <1>5, <1>6, <1>7 DEF r

LEMMA BlogKept == BlogGood(blog) /\ BlogNext => BlogGood(blog')
<1> SUFFICES ASSUME BlogGood(blog), BlogNext PROVE BlogGood(blog')
    OBVIOUS
<1>0. /\ blog \in BlogType /\ blog.flight \in Seq(BlogRequests)
      /\ blog.clicks \in Nat /\ blog.requests \in Nat
      /\ Cardinality(FirstTries(blog.flight)) \in Nat
      /\ blog.requests + Cardinality(FirstTries(blog.flight)) <= 2 * blog.clicks
    BY FirstTriesFinite DEF BlogGood, BlogType
<1>1. CASE wrapLinkWithReader
  <2>1. PICK post \in Posts :
          blog' = showPost([blog EXCEPT !.setup = TRUE, !.clicks = @ + 1], post, FALSE)
    BY <1>1 DEF wrapLinkWithReader
  <2> DEFINE b == [blog EXCEPT !.setup = TRUE, !.clicks = @ + 1]
             r == [post |-> post, second |-> FALSE]
  <2>2. b \in BlogType
    <3>1. blog.clicks + 1 \in Nat
      BY <1>0
    <3>2. QED
      BY <1>0, <3>1 DEF BlogType
  <2>3. b.flight = blog.flight /\ b.requests = blog.requests /\ b.clicks = blog.clicks + 1
    BY <1>0 DEF BlogType
  <2>4. blog' = showPost(b, post, FALSE)
    BY <2>1
  <2> HIDE DEF b
  <2>5. /\ blog' \in BlogType /\ blog'.flight = Append(blog.flight, r)
        /\ blog'.requests = blog.requests + 1 /\ blog'.clicks = blog.clicks + 1 /\ blog'.flight # <<>>
    BY <2>2, <2>3, <2>4, PostAsked
  <2>6. r \in BlogRequests /\ ~r.second
    BY DEF BlogRequests
  <2> HIDE DEF r
  <2>7. Cardinality(FirstTries(blog'.flight)) = Cardinality(FirstTries(blog.flight)) + 1
    BY <1>0, <2>5, <2>6, FirstTriesOfAppend
  <2>8. blog'.requests + Cardinality(FirstTries(blog'.flight)) <= 2 * blog'.clicks
    BY <1>0, <2>5, <2>7
  <2>9. QED
    BY <2>5, <2>8 DEF BlogGood
<1>2. CASE BlogDone
  <2>1. PICK i \in DOMAIN blog.flight :
          blog' = [blog EXCEPT !.flight = RemoveAt(@, i), !.shown = blog.flight[i].post, !.open = TRUE]
    BY <1>2 DEF BlogDone
  <2> DEFINE rest == RemoveAt(blog.flight, i)
             post == blog.flight[i].post
  <2>2. blog' = [blog EXCEPT !.flight = rest, !.shown = post, !.open = TRUE]
    BY <1>0, <2>1 DEF BlogType
  <2>3. i \in 1 .. Len(blog.flight)
    BY <1>0, <2>1
  <2>4. rest \in Seq(BlogRequests)
    BY <1>0, <2>3, Removed
  <2>5. Cardinality(FirstTries(rest)) <= Cardinality(FirstTries(blog.flight))
    BY <1>0, <2>3, <2>4, FirstTriesOfRemoved, FirstTriesFinite
  <2>6. post \in Posts /\ post # Nothing
    <3>1. blog.flight[i] \in BlogRequests
      BY <1>0, <2>3
    <3>2. post \in Posts
      BY <3>1 DEF BlogRequests
    <3>3. QED
      BY <3>2, LoadsAssumption
  <2> HIDE DEF rest, post
  <2>7. blog' \in BlogType
    BY <1>0, <2>2, <2>4, <2>6 DEF BlogType
  <2>8. blog'.flight = rest /\ blog'.shown = post /\ blog'.requests = blog.requests /\ blog'.clicks = blog.clicks
    BY <1>0, <2>2 DEF BlogType
  <2>8a. Cardinality(FirstTries(rest)) \in Nat
    BY <2>4, FirstTriesFinite
  <2>9. blog'.requests + Cardinality(FirstTries(blog'.flight)) <= 2 * blog'.clicks
    BY <1>0, <2>5, <2>8, <2>8a
  <2>10. QED
    BY <2>6, <2>7, <2>8, <2>9 DEF BlogGood
<1>3. CASE BlogFail
  <2>1. PICK i \in DOMAIN blog.flight, serverError \in BOOLEAN :
          blog' = IF serverError /\ ~blog.flight[i].second
                  THEN showPost([blog EXCEPT !.flight = RemoveAt(@, i)], blog.flight[i].post, TRUE)
                  ELSE [[blog EXCEPT !.flight = RemoveAt(@, i)] EXCEPT !.left = TRUE]
    BY <1>3 DEF BlogFail
  <2> DEFINE rest == RemoveAt(blog.flight, i)
             post == blog.flight[i].post
             b == [blog EXCEPT !.flight = rest]
  <2>2. b = [blog EXCEPT !.flight = RemoveAt(@, i)]
    BY <1>0 DEF BlogType
  <2>3. i \in 1 .. Len(blog.flight)
    BY <1>0, <2>1
  <2>4. rest \in Seq(BlogRequests) /\ Cardinality(FirstTries(rest)) \in Nat
    BY <1>0, <2>3, Removed, FirstTriesFinite
  <2>5. Cardinality(FirstTries(rest))
            <= Cardinality(FirstTries(blog.flight)) - IF blog.flight[i].second THEN 0 ELSE 1
    BY <1>0, <2>3, FirstTriesOfRemoved
  <2>6. post \in Posts /\ blog.flight[i].second \in BOOLEAN
    <3>1. blog.flight[i] \in BlogRequests
      BY <1>0, <2>3
    <3>2. QED
      BY <3>1 DEF BlogRequests
  <2>6a. \/ serverError /\ ~blog.flight[i].second /\ blog' = showPost(b, post, TRUE)
         \/ blog' = [b EXCEPT !.left = TRUE]
    BY <2>1, <2>2
  <2> HIDE DEF rest, post
  <2>7. b \in BlogType
    BY <1>0, <2>4 DEF BlogType
  <2>8. b.flight = rest /\ b.requests = blog.requests /\ b.clicks = blog.clicks
    BY <1>0 DEF BlogType
  <2> HIDE DEF b
  <2>9. CASE serverError /\ ~blog.flight[i].second /\ blog' = showPost(b, post, TRUE)
    <3> DEFINE r == [post |-> post, second |-> TRUE]
    <3>0. blog' = showPost(b, post, TRUE) /\ post \in Posts
      BY <2>6, <2>9
    <3>1. /\ blog' \in BlogType /\ blog'.flight = Append(rest, r)
          /\ blog'.requests = blog.requests + 1 /\ blog'.clicks = blog.clicks /\ blog'.flight # <<>>
      BY <2>7, <2>8, <3>0, PostAsked
    <3>2. r \in BlogRequests /\ r.second
      BY <2>6 DEF BlogRequests
    <3> HIDE DEF r
    <3>3. Cardinality(FirstTries(blog'.flight)) = Cardinality(FirstTries(rest))
      BY <2>4, <3>1, <3>2, FirstTriesOfAppend
    <3>4. Cardinality(FirstTries(rest)) <= Cardinality(FirstTries(blog.flight)) - 1
      BY <2>5, <2>9
    <3>5. blog'.requests + Cardinality(FirstTries(blog'.flight)) <= 2 * blog'.clicks
      BY <1>0, <2>4, <3>1, <3>3, <3>4
    <3>6. QED
      BY <3>1, <3>5 DEF BlogGood
  <2>10. CASE blog' = [b EXCEPT !.left = TRUE]
    <3>1. blog' \in BlogType
      BY <2>7, <2>10 DEF BlogType
    <3>2. blog'.flight = rest /\ blog'.requests = blog.requests /\ blog'.clicks = blog.clicks
      BY <2>7, <2>8, <2>10 DEF BlogType
    <3>3. blog'.left
      BY <2>7, <2>10 DEF BlogType
    <3>4. Cardinality(FirstTries(rest)) <= Cardinality(FirstTries(blog.flight))
      BY <1>0, <2>4, <2>5
    <3>5. blog'.requests + Cardinality(FirstTries(blog'.flight)) <= 2 * blog'.clicks
      BY <1>0, <2>4, <3>2, <3>4
    <3>6. QED
      BY <3>1, <3>3, <3>5 DEF BlogGood
  <2>11. QED
    BY <2>6a, <2>9, <2>10
<1>4. CASE BlogClose
  <2>1. blog' = [blog EXCEPT !.open = FALSE]
    BY <1>4 DEF BlogClose
  <2>2. blog' \in BlogType
    BY <1>0, <2>1 DEF BlogType
  <2>3. /\ blog'.flight = blog.flight /\ blog'.requests = blog.requests /\ blog'.clicks = blog.clicks
        /\ blog'.shown = blog.shown
    BY <1>0, <2>1 DEF BlogType
  <2>4. blog'.left = blog.left
    BY <1>0, <2>1 DEF BlogType
  <2>5. QED
    BY <2>2, <2>3, <2>4 DEF BlogGood
<1>5. QED
  BY <1>1, <1>2, <1>3, <1>4 DEF BlogNext, BlogAnswer
-----------------------------------------------------------------------------
TriesInv == NewsGood(news) /\ BlogGood(blog)

LEMMA TriesStart == PagesInit => TriesInv
<1> SUFFICES ASSUME PagesInit PROVE TriesInv
    OBVIOUS
<1>1. NewsGood(news)
  <2>1. news = [open |-> FALSE, view |-> "form", swaps |-> 0, onSwap |-> 0, onClose |-> 0,
                resets |-> 0, clicks |-> 0]
    BY DEF PagesInit, NewsInit
  <2>2. news \in NewsType
    BY <2>1 DEF NewsType
  <2>3. QED
    BY <2>1, <2>2 DEF NewsGood
<1>2. BlogGood(blog)
  <2>1. FirstTries(<<>>) = {} /\ Cardinality({}) = 0 /\ <<>> \in Seq(BlogRequests)
    BY FS_EmptySet DEF FirstTries
  <2>2. blog = [setup |-> FALSE, flight |-> <<>>, shown |-> Nothing, open |-> FALSE,
                left |-> FALSE, clicks |-> 0, requests |-> 0]
    BY DEF PagesInit, BlogInit
  <2>3. blog \in BlogType
    BY <2>1, <2>2 DEF BlogType
  <2>4. blog.flight = <<>> /\ blog.requests = 0 /\ blog.clicks = 0
    BY <2>2
  <2>5. blog.requests + Cardinality(FirstTries(blog.flight)) <= 2 * blog.clicks
    <3>1. Cardinality(FirstTries(blog.flight)) = 0
      BY <2>1, <2>4
    <3>2. QED
      BY <2>4, <3>1
  <2>6. QED
    BY <2>3, <2>4, <2>5 DEF BlogGood
<1>3. QED
    BY <1>1, <1>2 DEF TriesInv

LEMMA TriesKept == TriesInv /\ [PagesNext]_pagesVars => TriesInv'
<1> SUFFICES ASSUME TriesInv, [PagesNext]_pagesVars PROVE TriesInv'
    OBVIOUS
<1>1. NewsGood(news')
    BY Zenon, PagesMoveToggles, NewsKept DEF TriesInv, TogglesSteps
<1>2. BlogGood(blog')
    BY Zenon, PagesMoveLoads, BlogKept DEF TriesInv, LoadsSteps
<1>3. QED
    BY <1>1, <1>2 DEF TriesInv

LEMMA TriesInvEnds == TriesInv => TriesEnd
<1> SUFFICES ASSUME TriesInv PROVE TriesEnd
    OBVIOUS
<1>1. FormComesBack
    BY DEF TriesInv, NewsGood, NewsType, FormComesBack
<1>2. TwoTries
    BY FirstTriesFinite DEF TriesInv, BlogGood, BlogType, TwoTries
<1>3. QED
    BY <1>1, <1>2 DEF TriesEnd

(* For every number of posts and whatever happens to the requests: a post is *)
(* asked for at most twice for a click, a reader who clicked is shown a post *)
(* or sent to the blog when all is answered, and the newsletter has its form *)
(* back after the close that follows a submission.                           *)
THEOREM TriesAlwaysEnd == PagesSpec => []TriesEnd
<1>1. PagesSpec => []TriesInv
    BY TriesStart, TriesKept, PTL DEF PagesSpec
<1>2. QED
    BY <1>1, TriesInvEnds, PTL

-----------------------------------------------------------------------------
(* What opens and closes: sections and panels.                              *)

FoldGood(f) ==
    /\ f \in [expanded : BOOLEAN, inline : Int, scrollHeight : Nat \ {0}, timers : Nat, clicks : Nat]
    /\ ~f.expanded => f.inline \in {NoLimit, 0}
    /\ f.timers = 0 => f.inline = NoLimit

LEMMA FoldKept == FoldGood(fold) /\ FoldNext => FoldGood(fold')
<1> SUFFICES ASSUME FoldGood(fold), FoldNext PROVE FoldGood(fold')
    OBVIOUS
<1>0. /\ fold.scrollHeight \in Nat \ {0} /\ fold.scrollHeight + 1 \in Nat \ {0}
      /\ fold.timers \in Nat /\ fold.timers + 1 \in Nat \ {0} /\ fold.clicks + 1 \in Nat
      /\ 0 \in Int /\ NoLimit \in Int
    BY DEF FoldGood, NoLimit
<1>1. CASE FoldClick
  <2>1. CASE fold.expanded
    <3>1. fold' = [fold EXCEPT !.inline = 0, !.timers = @ + 1, !.expanded = FALSE, !.clicks = @ + 1]
      BY <1>1, <2>1 DEF FoldClick, transitionMaxHeight
    <3>2. QED
      BY <1>0, <3>1 DEF FoldGood
  <2>2. CASE ~fold.expanded
    <3>1. fold' = [fold EXCEPT !.inline = fold.scrollHeight, !.timers = @ + 1, !.expanded = TRUE, !.clicks = @ + 1]
      BY <1>1, <2>2 DEF FoldClick, transitionMaxHeight
    <3>2. fold.scrollHeight \in Int
      BY <1>0
    <3>3. QED
      BY <1>0, <3>1, <3>2 DEF FoldGood
  <2>3. QED
    BY <2>1, <2>2
<1>2. CASE FoldTimer
  <2>1. fold.timers - 1 \in Nat
    BY <1>0, <1>2 DEF FoldTimer
  <2>2. QED
    BY <1>0, <1>2, <2>1 DEF FoldTimer, FoldGood
<1>3. CASE FoldGrows
  BY <1>0, <1>3 DEF FoldGrows, FoldGood
<1>4. QED
  BY <1>1, <1>2, <1>3 DEF FoldNext

LEMMA FoldStarts == FoldInit => FoldGood(fold)
BY DEF FoldInit, FoldGood, NoLimit
-----------------------------------------------------------------------------
Even(n) == \E k \in Nat : n = 2 * k

LEMMA EvenNext ==
    ASSUME NEW n \in Nat
    PROVE  Even(0) /\ (Even(n + 1) <=> ~Even(n))
<1>1. n = 2 * (n \div 2) + (n % 2) /\ n % 2 \in {0, 1} /\ n \div 2 \in Nat
    OBVIOUS
<1>2. PICK k \in Nat : n = 2 * k \/ n = 2 * k + 1
    BY <1>1
<1>3. Even(0)
    BY DEF Even
<1>4. CASE n = 2 * k
  <2>1. Even(n)
    BY <1>4 DEF Even
  <2>2. ~Even(n + 1)
    BY <1>4 DEF Even
  <2>3. QED
    BY <1>3, <2>1, <2>2
<1>5. CASE n = 2 * k + 1
  <2>1. ~Even(n)
    BY <1>5 DEF Even
  <2>2. n + 1 = 2 * (k + 1) /\ k + 1 \in Nat
    BY <1>5
  <2>3. Even(n + 1)
    BY <2>2 DEF Even
  <2>4. QED
    BY <1>3, <2>1, <2>3
<1>6. QED
    BY <1>2, <1>4, <1>5

Anims == {"down", "up", "flip"}

PanelType ==
    [kind : Kinds, marked : BOOLEAN, shown : BOOLEAN, queue : Seq(Anims), clicks : Nat]

(* The class of a panel says what the animations lead to.                    *)
PanelGood(p) ==
    /\ p \in PanelType
    /\ p.kind # "slideToggle" =>
         /\ \A i \in 1 .. Len(p.queue) : p.queue[i] # "flip"
         /\ p.queue = <<>> => p.marked = p.shown
         /\ p.queue # <<>> => p.marked = (p.queue[Len(p.queue)] = "down")
    /\ p.kind = "slideToggle" =>
         /\ \A i \in 1 .. Len(p.queue) : p.queue[i] = "flip"
         /\ (p.marked = p.shown) = Even(Len(p.queue))

LEMMA PanelToGood ==
    ASSUME PanelGood(panel), panel.kind # "slideToggle", NEW marked \in BOOLEAN,
           NEW anim \in {"down", "up"}, marked = (anim = "down"), PanelTo(marked, anim)
    PROVE  PanelGood(panel')
<1> DEFINE queue == Append(panel.queue, anim)
<1>0. panel \in PanelType /\ panel.queue \in Seq(Anims) /\ panel.clicks + 1 \in Nat
      /\ \A i \in 1 .. Len(panel.queue) : panel.queue[i] # "flip"
    BY DEF PanelGood, PanelType
<1>1. panel' = [panel EXCEPT !.marked = marked, !.queue = queue, !.clicks = @ + 1]
    BY <1>0 DEF PanelTo, PanelType
<1>2. queue \in Seq(Anims) /\ queue # <<>> /\ queue[Len(queue)] = anim
    BY <1>0, LastOfAppend DEF Anims
<1>3. \A i \in 1 .. Len(queue) : queue[i] # "flip"
    BY <1>0
<1> HIDE DEF queue
<1>4. panel' \in PanelType
    BY <1>0, <1>1, <1>2 DEF PanelType
<1>5. panel'.queue = queue /\ panel'.kind = panel.kind
    BY <1>0, <1>1 DEF PanelType
<1>6. panel'.marked = marked
    BY <1>0, <1>1 DEF PanelType
<1>7. QED
    BY <1>2, <1>3, <1>4, <1>5, <1>6 DEF PanelGood

LEMMA PanelFlipGood ==
    ASSUME PanelGood(panel), slideToggle
    PROVE  PanelGood(panel')
<1> DEFINE queue == Append(panel.queue, "flip")
<1>0. panel \in PanelType /\ panel.queue \in Seq(Anims) /\ panel.clicks + 1 \in Nat
      /\ panel.kind = "slideToggle" /\ \A i \in 1 .. Len(panel.queue) : panel.queue[i] = "flip"
    BY DEF PanelGood, PanelType, slideToggle
<1>1. panel' = [panel EXCEPT !.marked = ~panel.marked, !.queue = queue, !.clicks = @ + 1]
    BY <1>0 DEF slideToggle, PanelTo, PanelType
<1>2. queue \in Seq(Anims) /\ Len(queue) = Len(panel.queue) + 1
    BY <1>0 DEF Anims
<1>3. \A i \in 1 .. Len(queue) : queue[i] = "flip"
    BY <1>0
<1>3a. Even(Len(queue)) <=> ~Even(Len(panel.queue))
  <2>1. Len(panel.queue) \in Nat
    BY <1>0
  <2>2. QED
    BY <1>2, <2>1, EvenNext
<1> HIDE DEF queue
<1>4. panel' \in PanelType
    BY <1>0, <1>1, <1>2 DEF PanelType
<1>5. panel'.queue = queue /\ panel'.kind = panel.kind
    BY <1>0, <1>1 DEF PanelType
<1>6. panel'.marked = ~panel.marked
    BY <1>0, <1>1 DEF PanelType
<1>7. panel'.shown = panel.shown
    BY <1>0, <1>1 DEF PanelType
<1>8. panel.marked \in BOOLEAN /\ panel.shown \in BOOLEAN
    BY <1>0 DEF PanelType
<1>9. (panel.marked = panel.shown) = Even(Len(panel.queue))
    BY <1>0 DEF PanelGood
<1>10. (panel'.marked = panel'.shown) = Even(Len(queue))
    BY <1>3a, <1>6, <1>7, <1>8, <1>9 DEF Even
<1>11. QED
    BY <1>0, <1>3, <1>4, <1>5, <1>10 DEF PanelGood

LEMMA PanelKept == PanelGood(panel) /\ PanelNext => PanelGood(panel')
<1> SUFFICES ASSUME PanelGood(panel), PanelNext PROVE PanelGood(panel')
    OBVIOUS
<1>0. panel \in PanelType /\ panel.queue \in Seq(Anims) /\ panel.marked \in BOOLEAN /\ panel.shown \in BOOLEAN
    BY DEF PanelGood, PanelType
<1>1. CASE toggle
  <2>1. panel.kind # "slideToggle"
    BY <1>1 DEF toggle
  <2>2. CASE panel.marked
    <3>1. PanelTo(FALSE, "up")
      BY <1>1, <2>2 DEF toggle
    <3>2. QED
      BY <2>1, <3>1, PanelToGood
  <2>3. CASE ~panel.marked
    <3>1. PanelTo(TRUE, "down")
      BY <1>1, <2>3 DEF toggle
    <3>2. QED
      BY <2>1, <3>1, PanelToGood
  <2>4. QED
    BY <2>2, <2>3
<1>2. CASE toggleExpandable
  <2>1. panel.kind # "slideToggle"
    BY <1>2 DEF toggleExpandable
  <2>2. PanelTo(FALSE, "up") \/ PanelTo(TRUE, "down")
    BY <1>2 DEF toggleExpandable
  <2>3. QED
    BY <2>1, <2>2, PanelToGood
<1>3. CASE hideExpandable
  BY <1>3, PanelToGood DEF hideExpandable
<1>4. CASE slideToggle
  BY <1>4, PanelFlipGood
<1>5. CASE PanelSettle
  <2> DEFINE q == panel.queue
             seen == IF Head(q) = "flip" THEN ~panel.shown ELSE Head(q) = "down"
  <2>1. panel' = [panel EXCEPT !.queue = Tail(q), !.shown = seen] /\ q # <<>> /\ q \in Seq(Anims)
    <3>1. panel' = [panel EXCEPT !.queue = Tail(@),
                   !.shown = IF Head(panel.queue) = "flip" THEN ~@ ELSE Head(panel.queue) = "down"]
      BY <1>5 DEF PanelSettle
    <3>2. QED
      BY <1>0, <1>5, <3>1 DEF PanelSettle, PanelType
  <2>2. /\ Tail(q) \in Seq(Anims) /\ Head(q) \in Anims
        /\ Tail(q) = <<>> => q[Len(q)] = Head(q)
        /\ Tail(q) # <<>> => Tail(q)[Len(Tail(q))] = q[Len(q)]
    BY <2>1, LastOfTail
  <2>3. Len(q) \in Nat \ {0} /\ Len(Tail(q)) = Len(q) - 1 /\ Head(q) = q[1]
        /\ \A i \in 1 .. Len(q) - 1 : Tail(q)[i] = q[i + 1]
    BY <2>1, HeadTailProperties, EmptySeq
  <2>4. seen \in BOOLEAN
    BY <1>0
  <2> HIDE DEF q, seen
  <2>5. panel' \in PanelType
    BY <1>0, <2>1, <2>2, <2>4 DEF PanelType
  <2>6. panel'.queue = Tail(q) /\ panel'.kind = panel.kind
    BY <1>0, <2>1 DEF PanelType
  <2>7. panel'.marked = panel.marked
    BY <1>0, <2>1 DEF PanelType
  <2>8. panel'.shown = seen
    BY <1>0, <2>1 DEF PanelType
  <2>9. CASE panel.kind # "slideToggle"
    <3>1. (\A i \in 1 .. Len(q) : q[i] # "flip") /\ panel.marked = (q[Len(q)] = "down")
      BY <2>1, <2>9 DEF PanelGood, q
    <3>2. seen = (Head(q) = "down")
      BY <2>3, <3>1 DEF seen, q
    <3>3. \A i \in 1 .. Len(Tail(q)) : Tail(q)[i] # "flip"
      BY <2>3, <3>1
    <3>4. QED
      BY <2>2, <2>5, <2>6, <2>7, <2>8, <2>9, <3>1, <3>2, <3>3 DEF PanelGood
  <2>10. CASE panel.kind = "slideToggle"
    <3>1. (\A i \in 1 .. Len(q) : q[i] = "flip") /\ (panel.marked = panel.shown) = Even(Len(q))
      BY <2>10 DEF PanelGood, q
    <3>2. seen = ~panel.shown
      BY <2>3, <3>1 DEF seen, q
    <3>3. \A i \in 1 .. Len(Tail(q)) : Tail(q)[i] = "flip"
      BY <2>3, <3>1
    <3>4. Even(Len(q)) <=> ~Even(Len(Tail(q)))
      <4>1. Len(q) - 1 \in Nat /\ Len(q) = (Len(q) - 1) + 1
        BY <2>3
      <4>2. QED
        BY <2>3, <4>1, EvenNext
    <3>5. (panel'.marked = panel'.shown) = Even(Len(Tail(q)))
      BY <1>0, <2>7, <2>8, <3>1, <3>2, <3>4 DEF Even
    <3>6. QED
      BY <2>5, <2>6, <2>10, <3>3, <3>5 DEF PanelGood
  <2>11. QED
    BY <2>9, <2>10
<1>6. QED
  BY <1>1, <1>2, <1>3, <1>4, <1>5 DEF PanelNext, PanelClick

LEMMA PanelStarts == ASSUME NEW kind \in Kinds PROVE PanelGood(PanelOf(kind))
<1> DEFINE p == PanelOf(kind)
<1>1. p = [kind |-> kind, marked |-> FALSE, shown |-> FALSE, queue |-> <<>>, clicks |-> 0]
    BY DEF PanelOf
<1>2. <<>> \in Seq(Anims) /\ Len(<<>>) = 0
    OBVIOUS
<1>3. Even(0)
    BY EvenNext
<1> HIDE DEF p
<1>4. p \in PanelType
    BY <1>1, <1>2 DEF PanelType
<1>5. p.queue = <<>> /\ p.marked = p.shown
    BY <1>1
<1>5a. Len(p.queue) = 0
    BY <1>2, <1>5
<1>5b. (p.marked = p.shown) = Even(Len(p.queue))
    BY <1>3, <1>5, <1>5a DEF Even
<1>6. PanelGood(p)
    BY <1>4, <1>5, <1>5a, <1>5b DEF PanelGood
<1>7. QED
    BY <1>6 DEF p

-----------------------------------------------------------------------------
(* Supplemental content and namespaces.                                     *)

ContentType ==
    [open : BOOLEAN, shown : BOOLEAN, text : BOOLEAN, queue : Seq({"down", "up"}),
     hasty : BOOLEAN, clicks : Nat]

(* Closed content rests.  Without a hasty click one closing at most is       *)
(* waiting, and the label says whether the content is open.                  *)
ContentGood(c) ==
    /\ c \in ContentType
    /\ ~c.open => c.queue = <<>> /\ ~c.shown
    /\ c.open /\ c.queue = <<>> => c.shown
    /\ ~c.hasty => c.text = c.open
    /\ ~c.hasty => \A i, j \in 1 .. Len(c.queue) : c.queue[i] = "up" /\ c.queue[j] = "up" => i = j

LEMMA ContentKept == ContentGood(content) /\ ContentNext => ContentGood(content')
<1> SUFFICES ASSUME ContentGood(content), ContentNext PROVE ContentGood(content')
    OBVIOUS
<1> DEFINE q == content.queue
<1>0. /\ content \in ContentType /\ q \in Seq({"down", "up"}) /\ content.clicks + 1 \in Nat
      /\ content.text \in BOOLEAN /\ content.hasty \in BOOLEAN
    BY DEF ContentGood, ContentType
<1>a. DOMAIN q = 1 .. Len(q) /\ Len(q) \in Nat
    BY <1>0
<1>1. CASE toggleContent /\ ~content.open
  <2> DEFINE r == Append(q, "down")
  <2>1. content' = [content EXCEPT !.open = TRUE, !.text = ~content.text, !.clicks = @ + 1, !.queue = r]
    BY <1>0, <1>1 DEF toggleContent, ContentType
  <2>2. q = <<>>
    BY <1>1 DEF ContentGood
  <2>3. r \in Seq({"down", "up"}) /\ r # <<>> /\ \A i \in 1 .. Len(r) : r[i] = "down"
    BY <2>2
  <2> HIDE DEF r
  <2>4. content' \in ContentType
    BY <1>0, <2>1, <2>3 DEF ContentType
  <2>5. content'.queue = r
    BY <1>0, <2>1 DEF ContentType
  <2>6. content'.open
    BY <1>0, <2>1 DEF ContentType
  <2>7. content'.text = ~content.text
    BY <1>0, <2>1 DEF ContentType
  <2>8. content'.hasty = content.hasty
    BY <1>0, <2>1 DEF ContentType
  <2>9. ~content'.hasty => content'.text = content'.open
    BY <1>0, <1>1, <2>4, <2>6, <2>7, <2>8 DEF ContentGood, ContentType
  <2>10. QED
    BY <2>3, <2>4, <2>5, <2>6, <2>9 DEF ContentGood
<1>2. CASE toggleContent /\ content.open
  <2> DEFINE r == Append(q, "up")
             waits == \E i \in 1 .. Len(q) : q[i] = "up"
             hasty == content.hasty \/ waits
  <2>1. content' = [content EXCEPT !.queue = r, !.clicks = @ + 1, !.hasty = hasty]
    BY <1>0, <1>a, <1>2 DEF toggleContent, ContentType
  <2>2. r \in Seq({"down", "up"}) /\ r # <<>>
    BY <1>0, LastOfAppend
  <2>3. ~waits => \A i, j \in 1 .. Len(r) : r[i] = "up" /\ r[j] = "up" => i = j
    BY <1>0, <1>a
  <2>4. hasty \in BOOLEAN
    BY <1>0
  <2> HIDE DEF r, waits
  <2>5. hasty = (content.hasty \/ waits)
    OBVIOUS
  <2> HIDE DEF hasty
  <2>6. content' \in ContentType
    BY <1>0, <2>1, <2>2, <2>4 DEF ContentType
  <2>7. content'.queue = r
    BY <1>0, <2>1 DEF ContentType
  <2>8. content'.open = content.open
    BY <1>0, <2>1 DEF ContentType
  <2>9. content'.text = content.text
    BY <1>0, <2>1 DEF ContentType
  <2>10. content'.hasty = hasty
    BY <1>0, <2>1 DEF ContentType
  <2>11. ~content'.hasty => ~content.hasty /\ ~waits
    BY <2>5, <2>10
  <2>12. ~content'.hasty => content'.text = content'.open
    BY <2>8, <2>9, <2>11 DEF ContentGood
  <2>13. QED
    BY <1>2, <2>2, <2>3, <2>6, <2>7, <2>8, <2>11, <2>12 DEF ContentGood
<1>3. CASE ContentSettle
  <2> DEFINE ups == {i \in 1 .. Len(q) : q[i] = "up"}
             label == IF Cardinality(ups) % 2 = 1 THEN ~content.text ELSE content.text
  <2>0. q # <<>>
    BY <1>3 DEF ContentSettle
  <2>1. content.open
    BY <2>0 DEF ContentGood
  <2>2. /\ Tail(q) \in Seq({"down", "up"}) /\ Len(q) \in Nat \ {0} /\ Head(q) = q[1]
        /\ Len(Tail(q)) = Len(q) - 1 /\ \A i \in 1 .. Len(q) - 1 : Tail(q)[i] = q[i + 1]
    BY <1>0, <2>0, HeadTailProperties, EmptySeq
  <2>3. CASE Head(q) = "down"
    <3>1. content' = [content EXCEPT !.shown = TRUE, !.queue = Tail(q)]
      BY <1>0, <1>3, <2>3 DEF ContentSettle, ContentType
    <3>2. content' \in ContentType
      BY <1>0, <2>2, <3>1 DEF ContentType
    <3>3. content'.queue = Tail(q)
      BY <1>0, <3>1 DEF ContentType
    <3>4. content'.shown
      BY <1>0, <3>1 DEF ContentType
    <3>5. content'.open = content.open
      BY <1>0, <3>1 DEF ContentType
    <3>6. content'.text = content.text
      BY <1>0, <3>1 DEF ContentType
    <3>7. content'.hasty = content.hasty
      BY <1>0, <3>1 DEF ContentType
    <3>8. ~content.hasty => \A i, j \in 1 .. Len(Tail(q)) : Tail(q)[i] = "up" /\ Tail(q)[j] = "up" => i = j
      <4>1. SUFFICES ASSUME ~content.hasty, NEW i \in 1 .. Len(Tail(q)), NEW j \in 1 .. Len(Tail(q)),
                            Tail(q)[i] = "up", Tail(q)[j] = "up"
                     PROVE  i = j
        OBVIOUS
      <4>2. i + 1 \in 1 .. Len(q) /\ j + 1 \in 1 .. Len(q) /\ q[i + 1] = "up" /\ q[j + 1] = "up"
        BY <2>2, <4>1
      <4>3. i + 1 = j + 1
        BY <4>1, <4>2 DEF ContentGood
      <4>4. QED
        BY <4>3
    <3>9. QED
      BY <2>1, <3>2, <3>3, <3>4, <3>5, <3>6, <3>7, <3>8 DEF ContentGood
  <2>4. CASE Head(q) # "down"
    <3>1. content' = [content EXCEPT !.shown = FALSE, !.open = FALSE, !.queue = <<>>, !.text = label]
      <4>1. content' = [content EXCEPT !.shown = FALSE, !.open = FALSE, !.queue = <<>>,
                     !.text = IF Cardinality(ups) % 2 = 1 THEN ~@ ELSE @]
        BY <1>a, <1>3, <2>4 DEF ContentSettle
      <4> HIDE DEF ups
      <4>2. QED
        BY <1>0, <4>1 DEF ContentType
    <3>2. ~content.hasty => ~label
      <4>1. SUFFICES ASSUME ~content.hasty PROVE ~label
        OBVIOUS
      <4>2. 1 \in ups
        BY <1>0, <2>2, <2>4
      <4>3. \A i \in ups : i = 1
        BY <4>1, <4>2 DEF ContentGood
      <4>4. Cardinality(ups) = 1
        <5>1. ups = {1}
          BY <4>2, <4>3
        <5>2. QED
          BY <5>1, FS_Singleton
      <4>5. content.text
        BY <1>0, <2>1, <4>1 DEF ContentGood
      <4> HIDE DEF ups
      <4>6. QED
        BY <4>4, <4>5
    <3>3. label \in BOOLEAN
      BY <1>0
    <3> HIDE DEF label
    <3>4. <<>> \in Seq({"down", "up"})
      OBVIOUS
    <3>5. content' \in ContentType
      BY <1>0, <3>1, <3>3, <3>4 DEF ContentType
    <3>6. content'.queue = <<>>
      BY <1>0, <3>1 DEF ContentType
    <3>7. ~content'.shown
      BY <1>0, <3>1 DEF ContentType
    <3>8. ~content'.open
      BY <1>0, <3>1 DEF ContentType
    <3>9. content'.text = label
      BY <1>0, <3>1 DEF ContentType
    <3>10. content'.hasty = content.hasty
      BY <1>0, <3>1 DEF ContentType
    <3>11. ~content'.hasty => content'.text = content'.open
      BY <3>2, <3>3, <3>5, <3>8, <3>9, <3>10 DEF ContentType
    <3>12. QED
      BY <3>5, <3>6, <3>7, <3>8, <3>11 DEF ContentGood
  <2>5. QED
    BY <2>3, <2>4
<1>4. QED
  BY <1>1, <1>2, <1>3 DEF ContentNext

LEMMA ContentStarts == ContentInit => ContentGood(content)
<1> SUFFICES ASSUME ContentInit PROVE ContentGood(content)
    OBVIOUS
<1>1. content = [open |-> FALSE, shown |-> FALSE, text |-> FALSE, queue |-> <<>>, hasty |-> FALSE, clicks |-> 0]
    BY DEF ContentInit
<1>2. <<>> \in Seq({"down", "up"}) /\ Len(<<>>) = 0
    OBVIOUS
<1>3. content \in ContentType
    BY <1>1, <1>2 DEF ContentType
<1>4. QED
    BY <1>1, <1>2, <1>3 DEF ContentGood
-----------------------------------------------------------------------------
RefType ==
    [loaded : BOOLEAN, filled : [Namespaces -> {0, 1}], open : SUBSET Namespaces,
     shown : SUBSET Namespaces, flips : [Namespaces -> Nat], clicks : Nat]

(* What is open or moves is filled, and a namespace will be displayed, after *)
(* the slides that are still to come, if it is open.                         *)
RefGood(r) ==
    /\ r \in RefType
    /\ \A n \in Namespaces :
         /\ n \in r.open \cup r.shown \/ r.flips[n] > 0 => r.filled[n] = 1
         /\ (n \in r.open <=> n \in r.shown) <=> Even(r.flips[n])

Flipped(set, n) == IF n \in set THEN set \ {n} ELSE set \cup {n}

LEMMA FlippedFacts ==
    ASSUME NEW S, NEW set \in SUBSET S, NEW n \in S
    PROVE  /\ Flipped(set, n) \in SUBSET S
           /\ n \in Flipped(set, n) <=> n \notin set
           /\ \A m \in S \ {n} : m \in Flipped(set, n) <=> m \in set
BY DEF Flipped

LEMMA RefKept == RefGood(ref) /\ RefNext => RefGood(ref')
<1> SUFFICES ASSUME RefGood(ref), RefNext PROVE RefGood(ref')
    OBVIOUS
<1>0. /\ ref \in RefType /\ ref.clicks + 1 \in Nat /\ ref.open \in SUBSET Namespaces
      /\ ref.shown \in SUBSET Namespaces /\ ref.flips \in [Namespaces -> Nat]
      /\ ref.filled \in [Namespaces -> {0, 1}]
    BY DEF RefGood, RefType
<1>1. CASE RefLoaded
  <2>1. ref' = [ref EXCEPT !.loaded = TRUE]
    BY <1>1 DEF RefLoaded
  <2>2. ref' \in RefType
    BY <1>0, <2>1 DEF RefType
  <2>3. ref'.open = ref.open /\ ref'.shown = ref.shown /\ ref'.flips = ref.flips /\ ref'.filled = ref.filled
    BY <1>0, <2>1 DEF RefType
  <2>4. QED
    BY <2>2, <2>3 DEF RefGood
<1>2. CASE toggleResourcesHandler
  <2>1. PICK n \in Namespaces :
         ref' = [ref EXCEPT !.filled[n] = IF @ = 0 THEN 1 ELSE @,
                            !.open = IF n \in @ THEN @ \ {n} ELSE @ \union {n},
                            !.flips[n] = @ + 1, !.clicks = @ + 1]
    BY <1>2 DEF toggleResourcesHandler
  <2> DEFINE filled == [ref.filled EXCEPT ![n] = 1]
             open == Flipped(ref.open, n)
             flips == [ref.flips EXCEPT ![n] = @ + 1]
  <2>2. (IF ref.filled[n] = 0 THEN 1 ELSE ref.filled[n]) = 1
    BY <1>0, <2>1
  <2>3. ref' = [ref EXCEPT !.filled = filled, !.open = open, !.flips = flips, !.clicks = @ + 1]
    BY <1>0, <2>1, <2>2 DEF RefType, Flipped
  <2>4. filled \in [Namespaces -> {0, 1}] /\ filled[n] = 1 /\ \A m \in Namespaces \ {n} : filled[m] = ref.filled[m]
    BY <1>0, <2>1
  <2>5. open \in SUBSET Namespaces /\ (n \in open <=> n \notin ref.open)
        /\ \A m \in Namespaces \ {n} : m \in open <=> m \in ref.open
    BY <1>0, <2>1, FlippedFacts
  <2>6. flips \in [Namespaces -> Nat] /\ flips[n] = ref.flips[n] + 1
        /\ \A m \in Namespaces \ {n} : flips[m] = ref.flips[m]
    <3>1. ref.flips[n] + 1 \in Nat
      BY <1>0, <2>1
    <3>2. QED
      BY <1>0, <2>1, <3>1
  <2>7. Even(flips[n]) <=> ~Even(ref.flips[n])
    <3>1. ref.flips[n] \in Nat
      BY <1>0, <2>1
    <3>2. QED
      BY <2>6, <3>1, EvenNext
  <2> HIDE DEF filled, open, flips
  <2>8. ref' \in RefType
    BY <1>0, <2>3, <2>4, <2>5, <2>6 DEF RefType
  <2>9. ref'.open = open /\ ref'.shown = ref.shown /\ ref'.flips = flips /\ ref'.filled = filled
    BY <1>0, <2>3 DEF RefType
  <2>10. ASSUME NEW m \in Namespaces
         PROVE  /\ m \in open \cup ref.shown \/ flips[m] > 0 => filled[m] = 1
                /\ ((m \in open) <=> (m \in ref.shown)) <=> Even(flips[m])
    <3>1. /\ m \in ref.open \cup ref.shown \/ ref.flips[m] > 0 => ref.filled[m] = 1
          /\ ((m \in ref.open) <=> (m \in ref.shown)) <=> Even(ref.flips[m])
      BY DEF RefGood
    <3>2. CASE m = n
      <4>1. ((m \in open) <=> (m \in ref.shown)) <=> Even(flips[m])
        BY <2>5, <2>7, <3>1, <3>2 DEF Even
      <4>2. QED
        BY <2>4, <3>2, <4>1
    <3>3. CASE m # n
      BY <2>4, <2>5, <2>6, <3>1, <3>3
    <3>4. QED
      BY <3>2, <3>3
  <2>11. QED
    BY <2>8, <2>9, <2>10 DEF RefGood
<1>3. CASE RefSettle
  <2>1. PICK n \in Namespaces :
          /\ ref.flips[n] > 0
          /\ ref' = [ref EXCEPT !.flips[n] = @ - 1,
                                !.shown = IF n \in @ THEN @ \ {n} ELSE @ \union {n}]
    BY <1>3 DEF RefSettle
  <2> DEFINE seen == Flipped(ref.shown, n)
             flips == [ref.flips EXCEPT ![n] = @ - 1]
  <2>3. ref' = [ref EXCEPT !.flips = flips, !.shown = seen]
    BY <1>0, <2>1 DEF RefType, Flipped
  <2>5. seen \in SUBSET Namespaces /\ (n \in seen <=> n \notin ref.shown)
        /\ \A m \in Namespaces \ {n} : m \in seen <=> m \in ref.shown
    BY <1>0, <2>1, FlippedFacts
  <2>6. flips \in [Namespaces -> Nat] /\ flips[n] + 1 = ref.flips[n] /\ flips[n] \in Nat
        /\ \A m \in Namespaces \ {n} : flips[m] = ref.flips[m]
    <3>1. ref.flips[n] \in Nat /\ ref.flips[n] - 1 \in Nat
      BY <1>0, <2>1
    <3>2. QED
      BY <1>0, <2>1, <3>1
  <2>7. Even(ref.flips[n]) <=> ~Even(flips[n])
    BY <2>6, EvenNext
  <2> HIDE DEF seen, flips
  <2>8. ref' \in RefType
    BY <1>0, <2>3, <2>5, <2>6 DEF RefType
  <2>9. ref'.open = ref.open /\ ref'.shown = seen /\ ref'.flips = flips /\ ref'.filled = ref.filled
    BY <1>0, <2>3 DEF RefType
  <2>10. ASSUME NEW m \in Namespaces
         PROVE  /\ m \in ref.open \cup seen \/ flips[m] > 0 => ref.filled[m] = 1
                /\ ((m \in ref.open) <=> (m \in seen)) <=> Even(flips[m])
    <3>1. /\ m \in ref.open \cup ref.shown \/ ref.flips[m] > 0 => ref.filled[m] = 1
          /\ ((m \in ref.open) <=> (m \in ref.shown)) <=> Even(ref.flips[m])
      BY DEF RefGood
    <3>2. CASE m = n
      <4>1. ((m \in ref.open) <=> (m \in seen)) <=> Even(flips[m])
        BY <2>5, <2>7, <3>1, <3>2 DEF Even
      <4>2. ref.filled[m] = 1
        BY <2>1, <3>1, <3>2
      <4>3. QED
        BY <4>1, <4>2
    <3>3. CASE m # n
      BY <2>5, <2>6, <3>1, <3>3
    <3>4. QED
      BY <3>2, <3>3
  <2>11. QED
    BY <2>8, <2>9, <2>10 DEF RefGood
<1>4. QED
  BY <1>1, <1>2, <1>3 DEF RefNext

LEMMA RefStarts ==
    ASSUME NEW open \in SUBSET Namespaces,
           ref = [loaded |-> FALSE, filled |-> [n \in Namespaces |-> IF n \in open THEN 1 ELSE 0],
                  open |-> open, shown |-> open, flips |-> [n \in Namespaces |-> 0], clicks |-> 0]
    PROVE  RefGood(ref)
<1> DEFINE filled == [n \in Namespaces |-> IF n \in open THEN 1 ELSE 0]
           flips == [n \in Namespaces |-> 0]
<1>1. filled \in [Namespaces -> {0, 1}] /\ \A n \in Namespaces : n \in open => filled[n] = 1
    OBVIOUS
<1>2. flips \in [Namespaces -> Nat] /\ \A n \in Namespaces : flips[n] = 0
    OBVIOUS
<1>3. Even(0)
    BY EvenNext
<1>4. ref = [loaded |-> FALSE, filled |-> filled, open |-> open, shown |-> open, flips |-> flips, clicks |-> 0]
    OBVIOUS
<1> HIDE DEF filled, flips
<1>5. ref \in RefType
    BY <1>1, <1>2, <1>4 DEF RefType
<1>6. ref.open = open /\ ref.shown = open /\ ref.flips = flips /\ ref.filled = filled
    BY <1>4
<1>7. \A n \in Namespaces : ((n \in open) <=> (n \in open)) <=> Even(flips[n])
    BY <1>2, <1>3 DEF Even
<1>8. QED
    BY <1>1, <1>2, <1>5, <1>6, <1>7 DEF RefGood

-----------------------------------------------------------------------------
(* The video box.                                                           *)

VideoType ==
    [mobile : BOOLEAN, setup : BOOLEAN, isLoaded : BOOLEAN, queue : Videos \cup {Nothing},
     box : BOOLEAN, fading : BOOLEAN, mini : BOOLEAN,
     player : {"none", "creating", "playing", "paused"}, of : Videos \cup {Nothing},
     mPlayerPaused : BOOLEAN, asked : Videos \cup {Nothing}, hasty : BOOLEAN, clicks : Nat]

(* Without a hasty click the player is of the video asked for last, and the  *)
(* box fades out only over a player that is paused.                          *)
VideoGood(v) ==
    /\ v \in VideoType
    /\ ~v.isLoaded => v.player = "none" /\ v.queue \in {Nothing, v.asked}
    /\ ~v.hasty /\ v.fading => v.player = "paused"
    /\ ~v.hasty /\ v.player \in {"creating", "playing"} => v.box
    /\ ~v.hasty /\ v.player # "none" => v.of = v.asked

(* The player begins with the video asked for, or as soon as it can.         *)
LEMMA PlayerStarts ==
    ASSUME NEW v \in VideoType, NEW id \in Videos, v.asked = id,
           ~v.isLoaded => v.player = "none",
           v.player = "creating" => v.hasty,
           v.fading => v.hasty
    PROVE  VideoGood(startYouTubePlayer(v, id))
<1> DEFINE r == startYouTubePlayer(v, id)
           box == [v EXCEPT !.box = TRUE]
<1>0. v.isLoaded \in BOOLEAN /\ v.player \in {"none", "creating", "playing", "paused"}
    BY DEF VideoType
<1>1. CASE ~v.isLoaded
  <2>e. r = [v EXCEPT !.box = TRUE, !.queue = id]
    BY <1>1 DEF startYouTubePlayer, VideoType
  <2> HIDE DEF r
  <2>1. r \in VideoType
      BY <2>e DEF VideoType
  <2>2. r.queue = id /\ r.player = v.player /\ r.of = v.of /\ r.asked = v.asked
      BY <2>e DEF VideoType
  <2>3. r.isLoaded = v.isLoaded
      BY <2>e DEF VideoType
  <2>4. r.box
      BY <2>e DEF VideoType
  <2>5. r.fading = v.fading
      BY <2>e DEF VideoType
  <2>6. r.hasty = v.hasty
      BY <2>e DEF VideoType
  <2>7. QED
    BY <1>1, <2>1, <2>2, <2>3, <2>4, <2>5, <2>6 DEF VideoGood, r
<1>2. CASE v.isLoaded /\ v.player = "none"
  <2>e. r = [v EXCEPT !.box = TRUE, !.player = "creating", !.of = id, !.mPlayerPaused = FALSE]
    BY <1>2 DEF startYouTubePlayer, VideoType
  <2> HIDE DEF r
  <2>1. r \in VideoType
      BY <2>e DEF VideoType
  <2>2. r.queue = v.queue /\ r.player = "creating" /\ r.of = id /\ r.asked = v.asked
      BY <2>e DEF VideoType
  <2>3. r.isLoaded = v.isLoaded
      BY <2>e DEF VideoType
  <2>4. r.box
      BY <2>e DEF VideoType
  <2>5. r.fading = v.fading
      BY <2>e DEF VideoType
  <2>6. r.hasty = v.hasty
      BY <2>e DEF VideoType
  <2>7. QED
    BY <1>2, <2>1, <2>2, <2>3, <2>4, <2>5, <2>6 DEF VideoGood, r
<1>3. CASE v.isLoaded /\ v.player = "creating"
  <2>e. r = [v EXCEPT !.box = TRUE, !.mPlayerPaused = FALSE]
    BY <1>3 DEF startYouTubePlayer, VideoType
  <2> HIDE DEF r
  <2>1. r \in VideoType
      BY <2>e DEF VideoType
  <2>2. r.queue = v.queue /\ r.player = v.player /\ r.of = v.of /\ r.asked = v.asked
      BY <2>e DEF VideoType
  <2>3. r.isLoaded = v.isLoaded
      BY <2>e DEF VideoType
  <2>4. r.box
      BY <2>e DEF VideoType
  <2>5. r.fading = v.fading
      BY <2>e DEF VideoType
  <2>6. r.hasty = v.hasty
      BY <2>e DEF VideoType
  <2>7. QED
    BY <1>3, <2>1, <2>2, <2>3, <2>4, <2>5, <2>6 DEF VideoGood, r
<1>4. CASE v.isLoaded /\ v.player \in {"playing", "paused"}
  <2>e. r = [v EXCEPT !.box = TRUE, !.player = "playing", !.of = id, !.mPlayerPaused = FALSE]
    BY <1>4 DEF startYouTubePlayer, VideoType
  <2> HIDE DEF r
  <2>1. r \in VideoType
      BY <2>e DEF VideoType
  <2>2. r.queue = v.queue /\ r.player = "playing" /\ r.of = id /\ r.asked = v.asked
      BY <2>e DEF VideoType
  <2>3. r.isLoaded = v.isLoaded
      BY <2>e DEF VideoType
  <2>4. r.box
      BY <2>e DEF VideoType
  <2>5. r.fading = v.fading
      BY <2>e DEF VideoType
  <2>6. r.hasty = v.hasty
      BY <2>e DEF VideoType
  <2>7. QED
    BY <1>4, <2>1, <2>2, <2>3, <2>4, <2>5, <2>6 DEF VideoGood, r
<1>5. QED
    BY <1>0, <1>1, <1>2, <1>3, <1>4

LEMMA VideoKept == VideoGood(video) /\ VideoNext => VideoGood(video')
<1> SUFFICES ASSUME VideoGood(video), VideoNext PROVE VideoGood(video')
    OBVIOUS
<1>0. /\ video \in VideoType /\ video.clicks + 1 \in Nat /\ video.isLoaded \in BOOLEAN
      /\ video.player \in {"none", "creating", "playing", "paused"}
      /\ video.hasty \in BOOLEAN /\ video.fading \in BOOLEAN /\ video.mPlayerPaused \in BOOLEAN
      /\ video.mobile \in BOOLEAN /\ video.mini \in BOOLEAN
    BY DEF VideoGood, VideoType
<1>a. /\ ~video.isLoaded => video.player = "none" /\ video.queue \in {Nothing, video.asked}
      /\ ~video.hasty /\ video.fading => video.player = "paused"
      /\ ~video.hasty /\ video.player \in {"creating", "playing"} => video.box
      /\ ~video.hasty /\ video.player # "none" => video.of = video.asked
    BY DEF VideoGood
<1>1. CASE wrapLinkInPlayer
  <2>a. PICK id \in Videos :
         video' = startYouTubePlayer(
                    [video EXCEPT !.setup = TRUE, !.asked = id, !.clicks = @ + 1,
                                  !.hasty = @ \/ video.fading \/ video.player = "creating"], id)
    BY <1>1 DEF wrapLinkInPlayer
  <2> DEFINE hasty == video.hasty \/ video.fading \/ video.player = "creating"
             v == [video EXCEPT !.setup = TRUE, !.asked = id, !.clicks = @ + 1, !.hasty = hasty]
  <2>b. video' = startYouTubePlayer(v, id)
    BY <1>0, <2>a DEF VideoType
  <2>c. hasty \in BOOLEAN /\ (video.player = "creating" => hasty) /\ (video.fading => hasty)
    BY <1>0
  <2> HIDE DEF hasty
  <2>1. v \in VideoType
      BY <1>0, <2>a, <2>c DEF VideoType
  <2>2. v.queue = video.queue /\ v.player = video.player /\ v.of = video.of /\ v.asked = id
      BY <1>0, <2>a, <2>c DEF VideoType
  <2>3. v.isLoaded = video.isLoaded
      BY <1>0, <2>a, <2>c DEF VideoType
  <2>4. v.box = video.box
      BY <1>0, <2>a, <2>c DEF VideoType
  <2>5. v.fading = video.fading
      BY <1>0, <2>a, <2>c DEF VideoType
  <2>6. v.hasty = hasty
      BY <1>0, <2>a, <2>c DEF VideoType
  <2> HIDE DEF v
  <2>9. QED
    BY <1>a, <2>b, <2>c, <2>1, <2>2, <2>3, <2>4, <2>5, <2>6, PlayerStarts
<1>2. CASE onYouTubeIframeAPIReady
  <2> DEFINE v == [video EXCEPT !.isLoaded = TRUE]
  <2>a. video' = IF video.queue = Nothing THEN v ELSE startYouTubePlayer(v, video.queue)
    BY <1>2 DEF onYouTubeIframeAPIReady
  <2>b. ~video.isLoaded /\ video.player = "none" /\ video.queue \in {Nothing, video.asked}
        /\ video.queue \in Videos \cup {Nothing}
    BY <1>0, <1>2, <1>a DEF onYouTubeIframeAPIReady, VideoType
  <2>1. v \in VideoType
      BY <1>0 DEF VideoType
  <2>2. v.queue = video.queue /\ v.player = video.player /\ v.of = video.of /\ v.asked = video.asked
      BY <1>0 DEF VideoType
  <2>3. v.isLoaded
      BY <1>0 DEF VideoType
  <2>4. v.box = video.box
      BY <1>0 DEF VideoType
  <2>5. v.fading = video.fading
      BY <1>0 DEF VideoType
  <2>6. v.hasty = video.hasty
      BY <1>0 DEF VideoType
  <2> HIDE DEF v
  <2>9. CASE video.queue = Nothing
    BY <1>a, <2>a, <2>b, <2>9, <2>1, <2>2, <2>3, <2>4, <2>5, <2>6 DEF VideoGood
  <2>10. CASE video.queue # Nothing
    <3>1. v.fading => v.hasty
      BY <1>0, <1>a, <2>b, <2>1, <2>2, <2>3, <2>4, <2>5, <2>6
    <3>2. VideoGood(startYouTubePlayer(v, video.queue))
      BY <2>b, <2>10, <3>1, <2>1, <2>2, <2>3, <2>4, <2>5, <2>6, PlayerStarts
    <3>3. QED
      BY <2>a, <2>10, <3>2
  <2>11. QED
    BY <2>9, <2>10
<1>3. CASE onPlayerReady
  <2> DEFINE player == IF video.mobile THEN "paused" ELSE "playing"
             halted == IF video.mobile THEN video.mPlayerPaused ELSE FALSE
  <2>a. video' = [video EXCEPT !.player = player, !.mPlayerPaused = halted] /\ video.player = "creating"
    BY <1>0, <1>3 DEF onPlayerReady, VideoType
  <2>b. player \in {"playing", "paused"} /\ halted \in BOOLEAN
    BY <1>0
  <2> HIDE DEF player, halted
  <2>1. video' \in VideoType
      BY <1>0, <2>a, <2>b DEF VideoType
  <2>2. video'.queue = video.queue /\ video'.player = player /\ video'.of = video.of /\ video'.asked = video.asked
      BY <1>0, <2>a, <2>b DEF VideoType
  <2>3. video'.isLoaded = video.isLoaded
      BY <1>0, <2>a, <2>b DEF VideoType
  <2>4. video'.box = video.box
      BY <1>0, <2>a, <2>b DEF VideoType
  <2>5. video'.fading = video.fading
      BY <1>0, <2>a, <2>b DEF VideoType
  <2>6. video'.hasty = video.hasty
      BY <1>0, <2>a, <2>b DEF VideoType
  <2>9. QED
    BY <1>a, <2>a, <2>b, <2>1, <2>2, <2>3, <2>4, <2>5, <2>6 DEF VideoGood
<1>4. CASE PlayerButton
  <2> DEFINE player == IF video.player = "playing" THEN "paused" ELSE "playing"
             halted == video.player = "playing"
  <2>a. video' = [video EXCEPT !.player = player, !.mPlayerPaused = halted, !.clicks = @ + 1]
        /\ video.player \in {"playing", "paused"} /\ video.box /\ ~video.fading
    <3>1. CASE video.player = "playing"
      BY <1>4, <3>1 DEF PlayerButton
    <3>2. CASE video.player = "paused"
      BY <1>4, <3>2 DEF PlayerButton
    <3>3. QED
      BY <1>4, <3>1, <3>2 DEF PlayerButton
  <2>b. player \in {"playing", "paused"} /\ halted \in BOOLEAN
    OBVIOUS
  <2> HIDE DEF player, halted
  <2>1. video' \in VideoType
      BY <1>0, <2>a, <2>b DEF VideoType
  <2>2. video'.queue = video.queue /\ video'.player = player /\ video'.of = video.of /\ video'.asked = video.asked
      BY <1>0, <2>a, <2>b DEF VideoType
  <2>3. video'.isLoaded = video.isLoaded
      BY <1>0, <2>a, <2>b DEF VideoType
  <2>4. video'.box = video.box
      BY <1>0, <2>a, <2>b DEF VideoType
  <2>5. video'.fading = video.fading
      BY <1>0, <2>a, <2>b DEF VideoType
  <2>6. video'.hasty = video.hasty
      BY <1>0, <2>a, <2>b DEF VideoType
  <2>9. QED
    BY <1>a, <2>a, <2>b, <2>1, <2>2, <2>3, <2>4, <2>5, <2>6 DEF VideoGood
<1>5. CASE toggleMinimizeVideo
  <2>a. video' = [video EXCEPT !.mini = ~video.mini, !.clicks = @ + 1]
    BY <1>0, <1>5 DEF toggleMinimizeVideo, VideoType
  <2>1. video' \in VideoType
      BY <1>0, <2>a DEF VideoType
  <2>2. video'.queue = video.queue /\ video'.player = video.player /\ video'.of = video.of /\ video'.asked = video.asked
      BY <1>0, <2>a DEF VideoType
  <2>3. video'.isLoaded = video.isLoaded
      BY <1>0, <2>a DEF VideoType
  <2>4. video'.box = video.box
      BY <1>0, <2>a DEF VideoType
  <2>5. video'.fading = video.fading
      BY <1>0, <2>a DEF VideoType
  <2>6. video'.hasty = video.hasty
      BY <1>0, <2>a DEF VideoType
  <2>9. QED
    BY <1>a, <2>a, <2>1, <2>2, <2>3, <2>4, <2>5, <2>6 DEF VideoGood
<1>6. CASE closeVideo
  <2> DEFINE player == IF video.player = "playing" THEN "paused" ELSE video.player
             halted == IF video.player = "playing" THEN TRUE ELSE video.mPlayerPaused
             hasty == video.hasty \/ video.player \in {"none", "creating"}
  <2>a. video' = [video EXCEPT !.fading = TRUE, !.player = player, !.mPlayerPaused = halted, !.hasty = hasty]
    BY <1>0, <1>6 DEF closeVideo, VideoType
  <2>b. player \in {"none", "creating", "paused"} /\ halted \in BOOLEAN /\ hasty \in BOOLEAN
        /\ (~hasty => player = "paused" /\ ~video.hasty)
        /\ (video.player = "none" <=> player = "none")
    BY <1>0
  <2> HIDE DEF player, halted, hasty
  <2>1. video' \in VideoType
      BY <1>0, <2>a, <2>b DEF VideoType
  <2>2. video'.queue = video.queue /\ video'.player = player /\ video'.of = video.of /\ video'.asked = video.asked
      BY <1>0, <2>a, <2>b DEF VideoType
  <2>3. video'.isLoaded = video.isLoaded
      BY <1>0, <2>a, <2>b DEF VideoType
  <2>4. video'.box = video.box
      BY <1>0, <2>a, <2>b DEF VideoType
  <2>5. video'.fading
      BY <1>0, <2>a, <2>b DEF VideoType
  <2>6. video'.hasty = hasty
      BY <1>0, <2>a, <2>b DEF VideoType
  <2>9. QED
    BY <1>a, <2>a, <2>b, <2>1, <2>2, <2>3, <2>4, <2>5, <2>6 DEF VideoGood
<1>7. CASE VideoFaded
  <2>a. video' = [video EXCEPT !.fading = FALSE, !.box = FALSE, !.mini = FALSE] /\ video.fading
    BY <1>7 DEF VideoFaded
  <2>1. video' \in VideoType
      BY <1>0, <2>a DEF VideoType
  <2>2. video'.queue = video.queue /\ video'.player = video.player /\ video'.of = video.of /\ video'.asked = video.asked
      BY <1>0, <2>a DEF VideoType
  <2>3. video'.isLoaded = video.isLoaded
      BY <1>0, <2>a DEF VideoType
  <2>4. ~video'.box
      BY <1>0, <2>a DEF VideoType
  <2>5. ~video'.fading
      BY <1>0, <2>a DEF VideoType
  <2>6. video'.hasty = video.hasty
      BY <1>0, <2>a DEF VideoType
  <2>9. QED
    BY <1>a, <2>a, <2>1, <2>2, <2>3, <2>4, <2>5, <2>6 DEF VideoGood
<1>8. QED
  BY <1>1, <1>2, <1>3, <1>4, <1>5, <1>6, <1>7 DEF VideoNext

LEMMA VideoStarts == ASSUME NEW mobile \in BOOLEAN PROVE VideoGood(VideoOf(mobile))
<1> DEFINE v == VideoOf(mobile)
<1>1. v = [mobile |-> mobile, setup |-> FALSE, isLoaded |-> FALSE, queue |-> Nothing, box |-> FALSE,
     fading |-> FALSE, mini |-> FALSE, player |-> "none", of |-> Nothing, mPlayerPaused |-> FALSE,
     asked |-> Nothing, hasty |-> FALSE, clicks |-> 0]
    BY DEF VideoOf
<1> HIDE DEF v
<1>2. v \in VideoType
    BY <1>1 DEF VideoType
<1>3. VideoGood(v)
    BY <1>1, <1>2 DEF VideoGood
<1>4. QED
    BY <1>3 DEF v

-----------------------------------------------------------------------------
(* The side navigation.                                                     *)

Foldings == [dir : {"down", "up"}, of : Sections \cup {NoSection}]

NavType ==
    [expanded : SUBSET Sections, shown : SUBSET Sections, queue : [Sections -> Seq(Foldings)], clicks : Nat]

(* An animation is to come whose end takes the class from section s.         *)
Waits(queue, s) ==
    \E t \in Sections : \E i \in 1 .. Len(queue[t]) :
        queue[t][i].of # NoSection /\ s \in Inside(queue[t][i].of)

(* The list of s is on display once its animations have ended.               *)
Stays(seen, queue, s) ==
    IF queue[s] = <<>> THEN s \in seen ELSE queue[s][Len(queue[s])].dir = "down"

(* An expanded section will show its list, or lose the class.                *)
NavGood(n) ==
    /\ n \in NavType
    /\ \A s \in n.expanded : Waits(n.queue, s) \/ Stays(n.shown, n.queue, s)
    /\ \A s, t \in n.expanded \ Sticky : NavParent[s] = NavParent[t] => s = t

LEMMA AppendedOne ==
    ASSUME NEW S, NEW q \in Seq(S), NEW x \in S
    PROVE  /\ q \o <<x>> \in Seq(S) /\ Len(q \o <<x>>) = Len(q) + 1 /\ q \o <<x>> # <<>>
           /\ (q \o <<x>>)[Len(q) + 1] = x
           /\ \A i \in 1 .. Len(q) : (q \o <<x>>)[i] = q[i]
OBVIOUS

LEMMA AppendedNone ==
    ASSUME NEW S, NEW q \in Seq(S)
    PROVE  q \o <<>> = q
OBVIOUS

LEMMA NavEndKept ==
    ASSUME NavGood(nav), NEW s \in Sections, nav.queue[s] # <<>>, NavEnd(s)
    PROVE  NavGood(nav')
<1> DEFINE q == nav.queue[s]
           x == Head(q).of
           queue == [nav.queue EXCEPT ![s] = Tail(q)]
           seen == IF Idle(s) THEN nav.shown
                   ELSE IF Head(q).dir = "down" THEN nav.shown \union {s} ELSE nav.shown \ {s}
           expanded == IF x = NoSection THEN nav.expanded ELSE nav.expanded \ Inside(x)
<1>0. nav \in NavType /\ nav.queue \in [Sections -> Seq(Foldings)] /\ nav.shown \in SUBSET Sections
      /\ nav.expanded \in SUBSET Sections /\ q \in Seq(Foldings) /\ q # <<>>
    BY DEF NavGood, NavType
<1>1. nav' = [nav EXCEPT !.queue = queue, !.shown = seen, !.expanded = expanded]
    BY <1>0 DEF NavEnd, NavType
<1>2. /\ Tail(q) \in Seq(Foldings) /\ Head(q) \in Foldings /\ Head(q) = q[1]
      /\ Len(q) \in Nat \ {0} /\ Len(Tail(q)) = Len(q) - 1
      /\ \A i \in 1 .. Len(q) - 1 : Tail(q)[i] = q[i + 1]
    BY <1>0, HeadTailProperties, EmptySeq
<1>3. /\ Tail(q) = <<>> => q[Len(q)] = Head(q)
      /\ Tail(q) # <<>> => Tail(q)[Len(Tail(q))] = q[Len(q)]
    BY <1>0, LastOfTail
<1>4. queue \in [Sections -> Seq(Foldings)] /\ queue[s] = Tail(q)
      /\ \A t \in Sections \ {s} : queue[t] = nav.queue[t]
    BY <1>0, <1>2
<1>5. seen \in SUBSET Sections /\ \A t \in Sections \ {s} : t \in seen <=> t \in nav.shown
    BY <1>0
<1>6. Head(q).dir = "down" => s \in seen
    BY <1>0 DEF Idle, Going, Hidden
<1>7. expanded \in SUBSET Sections /\ expanded \subseteq nav.expanded
      /\ (x # NoSection => \A u \in expanded : u \notin Inside(x))
    BY <1>0
<1> HIDE DEF queue, seen, expanded
<1>8. nav' \in NavType
    BY <1>0, <1>1, <1>4, <1>5, <1>7 DEF NavType
<1>9. nav'.queue = queue /\ nav'.shown = seen /\ nav'.expanded = expanded
    BY <1>0, <1>1 DEF NavType
<1>10. ASSUME NEW u \in expanded
       PROVE  Waits(queue, u) \/ Stays(seen, queue, u)
  <2>0. u \in nav.expanded /\ u \in Sections
    BY <1>0, <1>7
  <2>1. CASE Waits(nav.queue, u)
    <3>1. PICK t \in Sections : \E i \in 1 .. Len(nav.queue[t]) :
              nav.queue[t][i].of # NoSection /\ u \in Inside(nav.queue[t][i].of)
      BY <2>1 DEF Waits
    <3>2. CASE t # s
      BY <1>4, <3>1, <3>2 DEF Waits
    <3>3. CASE t = s
      <4>1. PICK i \in 1 .. Len(q) : q[i].of # NoSection /\ u \in Inside(q[i].of)
        BY <3>1, <3>3
      <4>2. i # 1
        BY <1>2, <1>7, <4>1
      <4>3. i - 1 \in 1 .. Len(Tail(q)) /\ Tail(q)[i - 1] = q[i]
        BY <1>2, <4>1, <4>2
      <4> HIDE DEF q
      <4>4. queue[s][i - 1].of # NoSection /\ u \in Inside(queue[s][i - 1].of) /\ i - 1 \in 1 .. Len(queue[s])
        BY <1>4, <4>1, <4>3
      <4>5. QED
        BY <4>4 DEF Waits
    <3>4. QED
      BY <3>2, <3>3
  <2>2. CASE Stays(nav.shown, nav.queue, u)
    <3>1. CASE u # s
      BY <1>4, <1>5, <2>0, <2>2, <3>1 DEF Stays
    <3>2. CASE u = s
      <4>1. q[Len(q)].dir = "down"
        BY <1>0, <2>2, <3>2 DEF Stays
      <4>2. CASE Tail(q) = <<>>
        BY <1>3, <1>4, <1>6, <3>2, <4>1, <4>2 DEF Stays
      <4>3. CASE Tail(q) # <<>>
        BY <1>3, <1>4, <3>2, <4>1, <4>3 DEF Stays
      <4>4. QED
        BY <4>2, <4>3
    <3>3. QED
      BY <3>1, <3>2
  <2>3. QED
    BY <2>0, <2>1, <2>2 DEF NavGood
<1>11. \A u, v \in expanded \ Sticky : NavParent[u] = NavParent[v] => u = v
    BY <1>7 DEF NavGood
<1>12. QED
    BY <1>8, <1>9, <1>10, <1>11 DEF NavGood

LEMMA NavToggleKept ==
    ASSUME NavGood(nav), NEW s \in Sections, doNavToggle(s)
    PROVE  NavGood(nav')
<1>0. nav \in NavType /\ nav.queue \in [Sections -> Seq(Foldings)] /\ nav.shown \in SUBSET Sections
      /\ nav.expanded \in SUBSET Sections /\ nav.clicks + 1 \in Nat
    BY DEF NavGood, NavType
<1>a. Down \in Foldings /\ Up(NoSection) \in Foldings /\ Up(s) \in Foldings
      /\ Up(s).of = s /\ Down.dir = "down" /\ s # NoSection /\ s \in Inside(s)
    BY TogglesAssumption DEF Down, Up, Foldings, Inside
<1>1. CASE s \in nav.expanded
  <2> DEFINE anims == [t \in Sections |-> IF t \in Inside(s) THEN <<Up(s)>> ELSE <<>>]
             queue == Queued(anims)
  <2>1. nav' = [nav EXCEPT !.clicks = @ + 1, !.queue = queue]
    BY Zenon, <1>1 DEF doNavToggle
  <2>2. ASSUME NEW t \in Sections
        PROVE  /\ queue[t] \in Seq(Foldings)
               /\ t \notin Inside(s) => queue[t] = nav.queue[t]
               /\ t \in Inside(s) => Len(queue[t]) = Len(nav.queue[t]) + 1
                                     /\ queue[t][Len(nav.queue[t]) + 1] = Up(s)
               /\ \A i \in 1 .. Len(nav.queue[t]) : i \in 1 .. Len(queue[t]) /\ queue[t][i] = nav.queue[t][i]
    <3>1. nav.queue[t] \in Seq(Foldings) /\ Len(nav.queue[t]) \in Nat
      BY <1>0
    <3>2. queue[t] = nav.queue[t] \o anims[t]
      BY DEF Queued
    <3>3. CASE t \in Inside(s)
      <4>1. queue[t] = nav.queue[t] \o <<Up(s)>>
        BY <3>2, <3>3
      <4> HIDE DEF queue, anims
      <4>2. QED
        BY <1>a, <3>1, <3>3, <4>1, AppendedOne
    <3>4. CASE t \notin Inside(s)
      <4>1. queue[t] = nav.queue[t]
        BY <3>1, <3>2, <3>4, AppendedNone
      <4> HIDE DEF queue, anims
      <4>2. QED
        BY <3>1, <3>4, <4>1
    <3>5. QED
      BY <3>3, <3>4
  <2>3. queue \in [Sections -> Seq(Foldings)]
    <3>1. queue = [t \in Sections |-> queue[t]]
      BY DEF Queued
    <3> HIDE DEF queue
    <3>2. QED
      BY <2>2, <3>1
  <2> HIDE DEF queue, anims
  <2>4. nav' \in NavType
    BY <1>0, <2>1, <2>3 DEF NavType
  <2>5. nav'.queue = queue /\ nav'.shown = nav.shown /\ nav'.expanded = nav.expanded
    BY <1>0, <2>1 DEF NavType
  <2>6. ASSUME NEW u \in nav.expanded
        PROVE  Waits(queue, u) \/ Stays(nav.shown, queue, u)
    <3>0. u \in Sections
      BY <1>0
    <3>1. CASE u \in Inside(s)
      <4> DEFINE i == Len(nav.queue[s]) + 1
      <4>0. Len(nav.queue[s]) \in Nat
        BY <1>0
      <4>1. i \in 1 .. Len(queue[s]) /\ queue[s][i] = Up(s)
        BY <1>a, <2>2, <4>0
      <4> HIDE DEF i
      <4>2. queue[s][i].of # NoSection /\ u \in Inside(queue[s][i].of)
        BY <1>a, <3>1, <4>1
      <4>3. QED
        BY <4>1, <4>2 DEF Waits
    <3>2. CASE u \notin Inside(s)
      <4>1. queue[u] = nav.queue[u]
        BY <2>2, <3>0, <3>2
      <4>2. CASE Waits(nav.queue, u)
        BY <2>2, <4>2 DEF Waits
      <4>3. CASE Stays(nav.shown, nav.queue, u)
        BY <4>1, <4>3 DEF Stays
      <4>4. QED
        BY <4>2, <4>3 DEF NavGood
    <3>3. QED
      BY <3>1, <3>2
  <2>7. QED
    BY <2>4, <2>5, <2>6 DEF NavGood
<1>2. CASE s \notin nav.expanded
  <2> DEFINE level == {t \in Sections : NavParent[t] = NavParent[s]}
             others == (nav.expanded \ Sticky) \intersect UNION {Inside(t) : t \in level}
             anims == [t \in Sections |-> (IF t \in others THEN <<Up(NoSection)>> ELSE <<>>)
                                             \o (IF t = s THEN <<Down>> ELSE <<>>)]
             queue == Queued(anims)
             expanded == (nav.expanded \ others) \union {s}
  <2>1. nav' = [nav EXCEPT !.clicks = @ + 1, !.expanded = expanded, !.queue = queue]
    BY <1>0, <1>2 DEF doNavToggle, NavType
  <2>2. s \notin others /\ others \subseteq nav.expanded
    BY <1>2
  <2>3. \A t \in nav.expanded \ Sticky : NavParent[t] = NavParent[s] => t \in others
    <3>1. SUFFICES ASSUME NEW t \in nav.expanded \ Sticky, NavParent[t] = NavParent[s]
                   PROVE  t \in others
      OBVIOUS
    <3>2. t \in level /\ t \in Inside(t)
      BY <1>0, <3>1 DEF Inside
    <3>3. QED
      BY <3>1, <3>2
  <2> HIDE DEF others, level
  <2>4. ASSUME NEW t \in Sections
        PROVE  /\ queue[t] \in Seq(Foldings)
               /\ t \notin others /\ t # s => queue[t] = nav.queue[t]
               /\ t = s => queue[t] # <<>> /\ queue[t][Len(queue[t])].dir = "down"
               /\ \A i \in 1 .. Len(nav.queue[t]) : i \in 1 .. Len(queue[t]) /\ queue[t][i] = nav.queue[t][i]
    <3>1. nav.queue[t] \in Seq(Foldings) /\ Len(nav.queue[t]) \in Nat
      BY <1>0
    <3>2. queue[t] = nav.queue[t] \o anims[t]
      BY DEF Queued
    <3>3. CASE t = s
      <4>1. anims[t] = <<>> \o <<Down>>
        BY <2>2, <3>3
      <4>2. anims[t] = <<Down>>
        BY <4>1
      <4>3. queue[t] = nav.queue[t] \o <<Down>>
        BY <3>2, <4>2
      <4> HIDE DEF queue, anims
      <4>4. QED
        BY <1>a, <3>1, <3>3, <4>3, AppendedOne
    <3>4. CASE t \in others
      <4>0. t # s
        BY <2>2, <3>4
      <4>1. anims[t] = <<Up(NoSection)>> \o <<>>
        BY <3>4, <4>0
      <4>2. anims[t] = <<Up(NoSection)>>
        BY <4>1
      <4>3. queue[t] = nav.queue[t] \o <<Up(NoSection)>>
        BY <3>2, <4>2
      <4> HIDE DEF queue, anims
      <4>4. QED
        BY <1>a, <3>1, <3>4, <4>0, <4>3, AppendedOne
    <3>5. CASE t # s /\ t \notin others
      <4>1. anims[t] = <<>> \o <<>>
        BY <3>5
      <4>2. anims[t] = <<>>
        BY <4>1
      <4>3. queue[t] = nav.queue[t]
        BY <3>1, <3>2, <4>2, AppendedNone
      <4> HIDE DEF queue, anims
      <4>4. QED
        BY <3>1, <3>5, <4>3
    <3>6. QED
      BY <3>3, <3>4, <3>5
  <2>5. queue \in [Sections -> Seq(Foldings)]
    <3>1. queue = [t \in Sections |-> queue[t]]
      BY DEF Queued
    <3> HIDE DEF queue
    <3>2. QED
      BY <2>4, <3>1
  <2>6. expanded \in SUBSET Sections
    BY <1>0
  <2>7. /\ s \in expanded
        /\ \A u \in expanded \ {s} : u \in nav.expanded /\ u \notin others
    OBVIOUS
  <2> HIDE DEF queue, anims, expanded
  <2>8. nav' \in NavType
    BY <1>0, <2>1, <2>5, <2>6 DEF NavType
  <2>9. nav'.queue = queue /\ nav'.shown = nav.shown /\ nav'.expanded = expanded
    BY <1>0, <2>1 DEF NavType
  <2>10. ASSUME NEW u \in expanded
         PROVE  Waits(queue, u) \/ Stays(nav.shown, queue, u)
    <3>1. CASE u = s
      BY <2>4, <3>1 DEF Stays
    <3>2. CASE u # s
      <4>0. u \in nav.expanded /\ u \in Sections /\ u \notin others
        BY <2>6, <2>7, <3>2
      <4>1. queue[u] = nav.queue[u]
        BY <2>4, <3>2, <4>0
      <4>2. CASE Waits(nav.queue, u)
        BY <2>4, <4>2 DEF Waits
      <4>3. CASE Stays(nav.shown, nav.queue, u)
        BY <4>1, <4>3 DEF Stays
      <4>4. QED
        BY <4>0, <4>2, <4>3 DEF NavGood
    <3>3. QED
      BY <3>1, <3>2
  <2>11. ASSUME NEW u \in expanded \ Sticky, NEW v \in expanded \ Sticky, NavParent[u] = NavParent[v]
         PROVE  u = v
    <3>1. CASE u # s /\ v # s
      BY <2>7, <2>11, <3>1 DEF NavGood
    <3>2. CASE u = s /\ v # s
      BY <2>3, <2>7, <2>11, <3>2
    <3>3. CASE v = s /\ u # s
      BY <2>3, <2>7, <2>11, <3>3
    <3>4. QED
      BY <3>1, <3>2, <3>3
  <2>12. QED
    BY <2>8, <2>9, <2>10, <2>11 DEF NavGood
<1>3. QED
  BY <1>1, <1>2

LEMMA NavKeptGood == NavGood(nav) /\ NavNext => NavGood(nav')
<1> SUFFICES ASSUME NavGood(nav), NavNext PROVE NavGood(nav')
    OBVIOUS
<1>1. CASE NavClick
  BY <1>1, NavToggleKept DEF NavClick
<1>2. CASE NavSkip
  <2>1. PICK s \in Sections : Idle(s) /\ NavEnd(s)
    BY <1>2 DEF NavSkip
  <2>2. nav.queue[s] # <<>>
    BY <2>1 DEF Idle, Going
  <2>3. QED
    BY <2>1, <2>2, NavEndKept
<1>3. CASE NavSettle
  BY <1>3, NavEndKept DEF NavSettle
<1>4. QED
  BY <1>1, <1>2, <1>3 DEF NavNext

LEMMA NavStarts == ASSUME NEW s \in Sections, highlightSidenav(s) PROVE NavGood(nav)
<1> DEFINE both == {s, NavParent[s]} \ {NoSection}
           queue == [t \in Sections |-> <<>>]
<1>1. nav = [expanded |-> both, shown |-> both, queue |-> queue, clicks |-> 0]
    BY DEF highlightSidenav
<1>2. both \in SUBSET Sections
    BY TogglesAssumption
<1>3. queue \in [Sections -> Seq(Foldings)] /\ \A t \in Sections : queue[t] = <<>>
    OBVIOUS
<1>4. \A u, v \in both : NavParent[u] = NavParent[v] => u = v
    BY TogglesAssumption
<1> HIDE DEF both, queue
<1>5. nav \in NavType
    BY <1>1, <1>2, <1>3 DEF NavType
<1>6. nav.expanded = both /\ nav.shown = both /\ nav.queue = queue
    BY <1>1
<1>7. \A u \in both : Stays(both, queue, u)
    BY <1>2, <1>3 DEF Stays
<1>8. QED
    BY <1>4, <1>5, <1>6, <1>7 DEF NavGood

LEMMA NavGoodIsHonest == NavGood(nav) => NavHonest
<1> SUFFICES ASSUME NavGood(nav) PROVE NavHonest
    OBVIOUS
<1>1. ASSUME \A s \in Sections : nav.queue[s] = <<>>
      PROVE  nav.expanded \subseteq nav.shown
  <2>1. SUFFICES ASSUME NEW s \in nav.expanded PROVE s \in nav.shown
    OBVIOUS
  <2>2. s \in Sections
    BY DEF NavGood, NavType
  <2>3. Len(<<>>) = 0
    OBVIOUS
  <2>4. ~Waits(nav.queue, s)
    BY <1>1, <2>3 DEF Waits
  <2>5. QED
    BY <1>1, <2>2, <2>4 DEF NavGood, Stays
<1>2. QED
    BY <1>1 DEF NavHonest, NavGood

-----------------------------------------------------------------------------
(* The panes of the frame.                                                  *)

(* A session moves the panes by a step of the panes.                         *)
LEMMA PagesMovePanes == [PagesNext]_pagesVars => [PanesNext]_panes
<1> SUFFICES ASSUME [PagesNext]_pagesVars PROVE [PanesNext]_panes
  OBVIOUS
<1>1. CASE PanesStep
  BY Zenon, <1>1 DEF PanesStep
<1>2. PanesStep \/ UNCHANGED panes
  BY Zenon DEF PagesNext, pagesVars, SlidesStep, ListsStep, LoadsStep, NavStep, CompleteStep, TreeStep,
        FrameStep, QueryStep, SiteStep, MatchStep, TogglesStep
<1>4. QED
  BY <1>1, <1>2

PaneFields == {"page", "window", "rooted", "width", "margin", "packages", "max", "classes", "swapper",
               "tree", "frame", "jar", "fresh", "left", "tab", "dragged", "pulled", "acts"}

(* Every height that the cookies keep is a number, 0 where none was kept.    *)
HeightsKnown(jar) == \A s : readCookie(jar, s, "height") \in Nat

PanesSound(p) ==
    /\ DOMAIN p = PaneFields
    /\ p.window \in Nat \ 0 .. 130 /\ p.packages \in Nat /\ p.max \in Nat \union {Unset}
    /\ p.classes \in Int /\ HeightsKnown(p.jar)

(* What PanesFit says of the panes, of any value of them.                    *)
MarginFits(p) == HasNav(p.page) => p.margin = p.width + Handle
HeightFits(p) == p.frame = p.window - HEADER_HEIGHT
SwapFits(p) ==
    InReference(p) =>
       /\ p.tree = p.swapper /\ p.swapper = p.window - HEADER_HEIGHT - SwapLink
       /\ p.packages <= p.swapper => Used(p) + p.classes = p.swapper

PanesGood(p) == PanesSound(p) /\ MarginFits(p) /\ HeightFits(p) /\ SwapFits(p)

LEMMA MinOfTwo == ASSUME NEW a \in Int, NEW b \in Int
                  PROVE  /\ Min({a, b}) = IF a <= b THEN a ELSE b
<1> DEFINE m == IF a <= b THEN a ELSE b
<1>1. m \in {a, b} /\ \A y \in {a, b} : m <= y
    OBVIOUS
<1>2. \A x \in {a, b} : (\A y \in {a, b} : x <= y) => x = m
    OBVIOUS
<1>3. QED
    BY <1>1, <1>2 DEF Min

LEMMA UsedIs == ASSUME NEW p, p.packages \in Nat, p.swapper \in Int, p.max \in Nat \union {Unset}
                PROVE  /\ Used(p) \in Int /\ Used(p) <= p.packages
                       /\ p.max = Unset => Used(p) = IF p.packages <= p.swapper THEN p.packages ELSE p.swapper
                       /\ p.max # Unset => Used(p) = IF p.packages <= p.max THEN p.packages ELSE p.max
<1> DEFINE b == IF p.max = Unset THEN p.swapper ELSE p.max
<1>1. b \in Int /\ p.packages \in Int
    BY DEF Unset
<1>2. Used(p) = IF p.packages <= b THEN p.packages ELSE b
    BY <1>1, MinOfTwo DEF Used
<1>3. QED
    BY <1>1, <1>2

LEMMA CookieWritten ==
    ASSUME NEW jar, HeightsKnown(jar), NEW s, NEW c, NEW v, c # "height" \/ v \in Nat
    PROVE  HeightsKnown(writeCookie(jar, s, c, v))
<1> SUFFICES ASSUME NEW t PROVE readCookie(writeCookie(jar, s, c, v), t, "height") \in Nat
    BY DEF HeightsKnown
<1>1. readCookie(jar, t, "height") \in Nat
    BY DEF HeightsKnown
<1>2. CASE <<t, "height">> = <<s, c>>
    BY <1>2 DEF readCookie, writeCookie
<1>3. CASE <<t, "height">> # <<s, c>>
    BY <1>1, <1>3 DEF readCookie, writeCookie
<1>4. QED
    BY <1>2, <1>3

LEMMA WidthsFit ==
    ASSUME NEW p, PanesSound(p), NEW w
    PROVE  /\ PanesSound(resizeWidth(p)) /\ PanesSound(restoreWidth(p, w))
           /\ MarginFits(resizeWidth(p)) /\ MarginFits(restoreWidth(p, w))
           /\ HeightFits(p) => HeightFits(resizeWidth(p))
           /\ SwapFits(p) => SwapFits(resizeWidth(p))
           /\ resizeWidth(p).page = p.page /\ restoreWidth(p, w).page = p.page
<1>1. /\ DOMAIN resizeWidth(p) = PaneFields
      /\ \A f \in PaneFields \ {"margin", "jar"} : resizeWidth(p)[f] = p[f]
      /\ resizeWidth(p).margin = p.width + Handle
      /\ resizeWidth(p).jar = writeCookie(p.jar, FirstDirectory(p), "width", p.width)
    BY DEF PanesSound, PaneFields, resizeWidth
<1>2. /\ DOMAIN restoreWidth(p, w) = PaneFields
      /\ \A f \in PaneFields \ {"margin", "width"} : restoreWidth(p, w)[f] = p[f]
      /\ restoreWidth(p, w).margin = w + Handle /\ restoreWidth(p, w).width = w
    BY DEF PanesSound, PaneFields, restoreWidth
<1> HIDE DEF resizeWidth, restoreWidth
<1>3. HeightsKnown(resizeWidth(p).jar)
    BY <1>1, CookieWritten DEF PanesSound
<1>4. PanesSound(resizeWidth(p)) /\ PanesSound(restoreWidth(p, w))
    BY <1>1, <1>2, <1>3 DEF PanesSound, PaneFields
<1>5. MarginFits(resizeWidth(p)) /\ MarginFits(restoreWidth(p, w))
    BY <1>1, <1>2 DEF MarginFits, PaneFields
<1>6. HeightFits(p) => HeightFits(resizeWidth(p))
    BY <1>1 DEF HeightFits, PaneFields
<1>7. SwapFits(p) => SwapFits(resizeWidth(p))
    BY <1>1 DEF SwapFits, PaneFields, Used, InReference
<1>8. resizeWidth(p).page = p.page /\ restoreWidth(p, w).page = p.page
    BY <1>1, <1>2 DEF PaneFields
<1>9. QED
    BY <1>4, <1>5, <1>6, <1>7, <1>8

LEMMA HeightsFit ==
    ASSUME NEW p, PanesSound(p)
    PROVE  /\ PanesSound(resizeHeight(p)) /\ HeightFits(resizeHeight(p)) /\ SwapFits(resizeHeight(p))
           /\ MarginFits(p) => MarginFits(resizeHeight(p))
<1> DEFINE r == resizeHeight(p)
           s == p.window - HEADER_HEIGHT - SwapLink
           q == [p EXCEPT !.frame = p.window - HEADER_HEIGHT, !.swapper = s, !.tree = s]
<1>0. /\ p.packages \in Nat /\ p.max \in Nat \union {Unset} /\ p.classes \in Int /\ s \in Nat
      /\ p.window \in Nat
    BY DEF PanesSound, HEADER_HEIGHT, SwapLink
<1>1. CASE InReference(p)
  <2>1. /\ DOMAIN q = PaneFields
        /\ \A f \in PaneFields \ {"frame", "swapper", "tree"} : q[f] = p[f]
        /\ q.frame = p.window - HEADER_HEIGHT /\ q.swapper = s /\ q.tree = s
    BY DEF PanesSound, PaneFields
  <2>2. Used(q) \in Int /\ Used(q) <= q.packages
    <3> HIDE DEF q
    <3>1. q.packages \in Nat /\ q.swapper \in Int /\ q.max \in Nat \union {Unset}
      BY <1>0, <2>1 DEF PaneFields
    <3>2. QED
      BY <3>1, UsedIs
  <2>3. r = [q EXCEPT !.classes = Height(q.swapper - Used(q), @)]
    BY Zenon, <1>1 DEF resizeHeight, SwapLink, HEADER_HEIGHT
  <2> HIDE DEF r, q
  <2>4. /\ DOMAIN r = PaneFields
        /\ \A f \in PaneFields \ {"classes"} : r[f] = q[f]
        /\ r.classes = Height(q.swapper - Used(q), q.classes)
    BY <2>1, <2>3 DEF PaneFields
  <2>5. r.classes \in Int
    BY <1>0, <2>1, <2>2, <2>4 DEF Height, PaneFields
  <2>6. PanesSound(r)
    BY <2>1, <2>4, <2>5 DEF PanesSound, PaneFields
  <2>7. HeightFits(r)
    BY <2>1, <2>4 DEF HeightFits, PaneFields
  <2>8. Used(r) = Used(q)
    BY <2>4 DEF Used, PaneFields
  <2>9. r.packages = q.packages /\ r.swapper = s /\ r.tree = s /\ q.swapper = s /\ r.window = p.window
    BY <2>1, <2>4 DEF PaneFields
  <2>10. r.packages <= r.swapper => Used(r) + r.classes = r.swapper
    BY <1>0, <2>1, <2>2, <2>4, <2>8, <2>9 DEF Height, PaneFields
  <2>11. SwapFits(r)
    BY <2>9, <2>10 DEF SwapFits
  <2>12. MarginFits(p) => MarginFits(r)
    BY <2>1, <2>4 DEF MarginFits, PaneFields
  <2>13. QED
    BY <2>6, <2>7, <2>11, <2>12 DEF r
<1>2. CASE ~InReference(p)
  <2>1. r = [p EXCEPT !.frame = p.window - HEADER_HEIGHT]
    BY Zenon, <1>2 DEF resizeHeight
  <2> HIDE DEF r
  <2>2. /\ DOMAIN r = PaneFields
        /\ \A f \in PaneFields \ {"frame"} : r[f] = p[f]
        /\ r.frame = p.window - HEADER_HEIGHT
    BY <2>1 DEF PanesSound, PaneFields
  <2>3. PanesSound(r)
    BY <2>2 DEF PanesSound, PaneFields
  <2>4. HeightFits(r) /\ (MarginFits(p) => MarginFits(r))
    BY <2>2 DEF HeightFits, MarginFits, PaneFields
  <2>5. SwapFits(r)
    BY <1>2, <2>2 DEF SwapFits, InReference, PaneFields
  <2>6. QED
    BY <2>3, <2>4, <2>5 DEF r
<1>3. QED
    BY <1>1, <1>2

LEMMA RestoredFit ==
    ASSUME NEW p, PanesSound(p), NEW h \in Nat
    PROVE  /\ PanesSound(restoreHeight(p, h)) /\ HeightFits(restoreHeight(p, h))
           /\ SwapFits(restoreHeight(p, h)) /\ (MarginFits(p) => MarginFits(restoreHeight(p, h)))
<1> DEFINE r == restoreHeight(p, h)
           s == p.window - HEADER_HEIGHT - SwapLink
<1>0. p.classes \in Int /\ s \in Nat /\ p.window \in Nat /\ s # Unset
    BY DEF PanesSound, HEADER_HEIGHT, SwapLink, Unset
<1>1. /\ DOMAIN r = PaneFields
      /\ \A f \in PaneFields \ {"frame", "swapper", "tree", "max", "packages", "classes"} : r[f] = p[f]
      /\ r.frame = p.window - HEADER_HEIGHT /\ r.swapper = s /\ r.tree = s /\ r.max = s
      /\ r.packages = h /\ r.classes = Height(s - h, p.classes)
    BY DEF PanesSound, PaneFields, restoreHeight
<1> HIDE DEF r
<1>2. r.classes \in Int /\ r.window = p.window
    BY <1>0, <1>1 DEF Height, PaneFields
<1>3. PanesSound(r)
    BY <1>0, <1>1, <1>2 DEF PanesSound, PaneFields
<1>4. HeightFits(r) /\ (MarginFits(p) => MarginFits(r))
    BY <1>1 DEF HeightFits, MarginFits, PaneFields
<1>5. Used(r) = IF h <= s THEN h ELSE s
    BY <1>0, <1>1, UsedIs
<1>6. r.packages <= r.swapper => Used(r) + r.classes = r.swapper
    BY <1>0, <1>1, <1>5 DEF Height
<1>7. SwapFits(r)
    BY <1>1, <1>2, <1>6 DEF SwapFits
<1>8. QED
    BY <1>3, <1>4, <1>7 DEF r

LEMMA DroppedFit ==
    ASSUME NEW p, PanesSound(p), HeightFits(p), MarginFits(p), p.tree = p.window - HEADER_HEIGHT - SwapLink
    PROVE  PanesGood(resizePackagesHeight(p))
<1> DEFINE r == resizePackagesHeight(p)
           s == p.window - HEADER_HEIGHT - SwapLink
           q == [p EXCEPT !.swapper = s, !.max = s]
<1>0. p.packages \in Nat /\ s \in Nat /\ s # Unset
    BY DEF PanesSound, HEADER_HEIGHT, SwapLink, Unset
<1>1. /\ DOMAIN q = PaneFields
      /\ \A f \in PaneFields \ {"swapper", "max"} : q[f] = p[f]
      /\ q.swapper = s /\ q.max = s
    BY DEF PanesSound, PaneFields
<1>2. Used(q) \in Nat
  <2> HIDE DEF q
  <2>1. q.packages \in Nat /\ q.swapper \in Int /\ q.max \in Nat \union {Unset} /\ q.max # Unset /\ q.max \in Nat
    BY <1>0, <1>1 DEF PaneFields
  <2>2. QED
    BY <2>1, UsedIs
<1>3. r = [q EXCEPT !.classes = q.swapper - Used(q),
                    !.jar = writeCookie(@, FirstDirectory(p), "height", Used(q))]
    BY Zenon DEF resizePackagesHeight
<1> HIDE DEF r, q
<1>4. /\ DOMAIN r = PaneFields
      /\ \A f \in PaneFields \ {"classes", "jar"} : r[f] = q[f]
      /\ r.classes = s - Used(q)
      /\ r.jar = writeCookie(q.jar, FirstDirectory(p), "height", Used(q))
    BY <1>1, <1>3 DEF PaneFields
<1>5. HeightsKnown(r.jar)
    BY <1>1, <1>2, <1>4, CookieWritten DEF PanesSound, PaneFields
<1>6. PanesSound(r)
    BY <1>0, <1>1, <1>2, <1>4, <1>5 DEF PanesSound, PaneFields
<1>7. HeightFits(r) /\ MarginFits(r)
    BY <1>1, <1>4 DEF HeightFits, MarginFits, PaneFields
<1>8. Used(r) = Used(q)
    BY <1>4 DEF Used, PaneFields
<1>9. r.swapper = s /\ r.tree = p.tree /\ r.window = p.window /\ r.classes = s - Used(q)
    BY <1>1, <1>4 DEF PaneFields
<1>10. SwapFits(r)
    BY <1>0, <1>2, <1>8, <1>9 DEF SwapFits
<1>11. QED
    BY <1>6, <1>7, <1>10 DEF r, PanesGood

LEMMA PaneInitFits ==
    ASSUME NEW p, DOMAIN p = PaneFields, p.window \in Nat \ 0 .. 130, HeightsKnown(p.jar)
    PROVE  PanesGood(PaneInit(p))
<1> DEFINE sheet == [p EXCEPT !.width = CssWidth, !.margin = 0, !.packages = CssHeight, !.max = Unset,
                     !.classes = Unset, !.swapper = Unset, !.tree = Unset, !.fresh = TRUE]
           width  == readCookie(p.jar, Group(p.page.section), "width")
           height == readCookie(p.jar, Group(p.page.section), "height")
           wide   == IF ~HasNav(p.page) THEN sheet
                     ELSE IF width # 0 THEN restoreWidth(sheet, width) ELSE resizeWidth(sheet)
<1>1. /\ DOMAIN sheet = PaneFields
      /\ sheet.page = p.page /\ sheet.window = p.window /\ sheet.jar = p.jar
      /\ sheet.packages = CssHeight /\ sheet.max = Unset /\ sheet.classes = Unset
    BY DEF PaneFields
<1>2. CssHeight \in Nat /\ Unset \in Int
    BY DEF CssHeight, Unset
<1> HIDE DEF sheet
<1>3. PanesSound(sheet)
    BY <1>1, <1>2 DEF PanesSound
<1>4. PanesSound(wide) /\ MarginFits(wide)
  <2>1. CASE ~HasNav(p.page)
    BY <1>1, <1>3, <2>1 DEF MarginFits
  <2>2. CASE HasNav(p.page)
    BY <1>3, <2>2, WidthsFit
  <2>3. QED
    BY <2>1, <2>2
<1>5. height \in Nat
    BY DEF HeightsKnown
<1>6. PaneInit(p) = IF height # 0 THEN restoreHeight(wide, height) ELSE resizeHeight(wide)
    BY Zenon DEF PaneInit, sheet
<1> HIDE DEF wide, height
<1>7. QED
    BY <1>4, <1>5, <1>6, RestoredFit, HeightsFit DEF PanesGood

(* What a record of panes says after some of its fields are set.             *)
LEMMA SoundAfter ==
    ASSUME NEW p, NEW q, PanesSound(p), DOMAIN q = PaneFields, q.jar = p.jar, q.max = p.max,
           q.packages \in Nat, q.window \in Nat \ 0 .. 130, q.classes = p.classes
    PROVE  PanesSound(q)
BY DEF PanesSound

LEMMA PanesKept == PanesGood(panes) /\ PanesNext => PanesGood(panes')
<1> SUFFICES ASSUME PanesGood(panes), PanesNext PROVE PanesGood(panes')
    OBVIOUS
<1>0. /\ PanesSound(panes) /\ DOMAIN panes = PaneFields /\ HeightsKnown(panes.jar)
      /\ panes.window \in Nat \ 0 .. 130
      /\ MarginFits(panes) /\ HeightFits(panes) /\ SwapFits(panes)
    BY DEF PanesGood, PanesSound
<1>1. /\ DOMAIN Acted = PaneFields
      /\ \A f \in PaneFields \ {"acts", "fresh"} : Acted[f] = panes[f]
    BY <1>0 DEF Acted, PaneFields
<1>2. CASE DragWidth
  <2>1. PICK w \in PaneWidths :
          panes' = [resizeWidth([Acted EXCEPT !.width = w]) EXCEPT !.dragged[Group(panes.page.section)] = w]
    BY Zenon, <1>2 DEF DragWidth
  <2> DEFINE q == [Acted EXCEPT !.width = w]
             r == resizeWidth(q)
  <2>2. /\ DOMAIN q = PaneFields
        /\ \A f \in PaneFields \ {"acts", "fresh", "width"} : q[f] = panes[f]
    BY <1>1 DEF PaneFields
  <2> HIDE DEF q
  <2>3. PanesSound(q) /\ HeightFits(q)
    BY <1>0, <2>2 DEF PanesSound, HeightFits, PaneFields
  <2>4. SwapFits(q)
    BY <1>0, <2>2 DEF SwapFits, InReference, Used, PaneFields
  <2>5. PanesGood(r)
    BY <2>3, <2>4, WidthsFit DEF PanesGood
  <2>6. panes' = [r EXCEPT !.dragged[Group(panes.page.section)] = w]
    BY Zenon, <2>1 DEF q
  <2> HIDE DEF r
  <2>7. DOMAIN panes' = PaneFields /\ \A f \in PaneFields \ {"dragged"} : panes'[f] = r[f]
    BY <2>5, <2>6 DEF PanesGood, PanesSound, PaneFields
  <2>8. PanesSound(panes') /\ MarginFits(panes') /\ HeightFits(panes')
    BY <2>5, <2>7 DEF PanesGood, PanesSound, MarginFits, HeightFits, PaneFields
  <2>9. SwapFits(panes')
    BY <2>5, <2>7 DEF PanesGood, SwapFits, InReference, Used, PaneFields
  <2>10. QED
    BY <2>8, <2>9 DEF PanesGood
<1>3. CASE DragHeight
  <2>1. PICK h \in PaneHeights :
          panes' = [resizePackagesHeight([Acted EXCEPT !.packages = h])
                      EXCEPT !.pulled = Used(resizePackagesHeight([Acted EXCEPT !.packages = h]))]
    BY Zenon, <1>3 DEF DragHeight
  <2>1a. InReference(panes)
    BY Zenon, <1>3 DEF DragHeight
  <2> DEFINE q == [Acted EXCEPT !.packages = h]
             r == resizePackagesHeight(q)
  <2>2. /\ DOMAIN q = PaneFields /\ q.packages = h
        /\ \A f \in PaneFields \ {"acts", "fresh", "packages"} : q[f] = panes[f]
    BY <1>1 DEF PaneFields
  <2>2a. h \in Nat
    BY PanesAssumption
  <2> HIDE DEF q
  <2>3. PanesSound(q) /\ HeightFits(q) /\ MarginFits(q)
    BY <1>0, <2>2, <2>2a DEF PanesSound, HeightFits, MarginFits, PaneFields
  <2>4. q.tree = q.window - HEADER_HEIGHT - SwapLink
    BY <1>0, <2>1a, <2>2 DEF SwapFits, PaneFields
  <2>5. PanesGood(r)
    BY <2>3, <2>4, DroppedFit
  <2>6. panes' = [r EXCEPT !.pulled = Used(r)]
    BY Zenon, <2>1 DEF q
  <2> HIDE DEF r
  <2>7. DOMAIN panes' = PaneFields /\ \A f \in PaneFields \ {"pulled"} : panes'[f] = r[f]
    BY <2>5, <2>6 DEF PanesGood, PanesSound, PaneFields
  <2>8. PanesSound(panes') /\ MarginFits(panes') /\ HeightFits(panes')
    BY <2>5, <2>7 DEF PanesGood, PanesSound, MarginFits, HeightFits, PaneFields
  <2>9. SwapFits(panes')
    BY <2>5, <2>7 DEF PanesGood, SwapFits, InReference, Used, PaneFields
  <2>10. QED
    BY <2>8, <2>9 DEF PanesGood
<1>4. CASE ResizeWindow
  <2>1. PICK h \in WindowHeights : panes' = resizeHeight([Acted EXCEPT !.window = h])
    BY Zenon, <1>4 DEF ResizeWindow
  <2> DEFINE q == [Acted EXCEPT !.window = h]
  <2>2. /\ DOMAIN q = PaneFields /\ q.window = h
        /\ \A f \in PaneFields \ {"acts", "fresh", "window"} : q[f] = panes[f]
    BY <1>1 DEF PaneFields
  <2>2a. h \in Nat \ 0 .. 130
    BY PanesAssumption
  <2> HIDE DEF q
  <2>3. PanesSound(q) /\ MarginFits(q)
    BY <1>0, <2>2, <2>2a DEF PanesSound, MarginFits, PaneFields
  <2>4. panes' = resizeHeight(q)
    BY Zenon, <2>1 DEF q
  <2>5. QED
    BY <2>3, <2>4, HeightsFit DEF PanesGood
<1>5. ASSUME NEW there, NEW tab, panes' = PaneInit([Unload(Acted) EXCEPT !.page = there, !.tab = tab])
      PROVE  PanesGood(panes')
  <2> DEFINE u == Unload(Acted)
             q == [u EXCEPT !.page = there, !.tab = tab]
  <2>1. DOMAIN u = PaneFields /\ u.window = panes.window
    BY <1>1 DEF Unload, PaneFields
  <2>2. \/ u.jar = panes.jar
        \/ u.jar = writeCookie(panes.jar, Group(panes.page.section), "lastpage", panes.page)
    BY <1>1 DEF Unload, PaneFields
  <2>3. HeightsKnown(u.jar)
    BY <1>0, <2>2, CookieWritten
  <2>4. panes' = PaneInit(q)
    BY Zenon, <1>5
  <2> HIDE DEF u
  <2>5. DOMAIN q = PaneFields /\ q.window = panes.window /\ q.jar = u.jar
    BY <2>1 DEF PaneFields
  <2> HIDE DEF q
  <2>6. QED
    BY <1>0, <2>3, <2>4, <2>5, PaneInitFits
<1>6. CASE FollowPage
    BY Zenon, <1>5, <1>6 DEF FollowPage
<1>7. CASE ClickTab
    BY Zenon, <1>5, <1>7 DEF ClickTab
<1>8. QED
    BY Zenon, <1>2, <1>3, <1>4, <1>6, <1>7 DEF PanesNext

LEMMA FirstPaneFits ==
    ASSUME NEW there, NEW window \in WindowHeights, NEW rooted
    PROVE  PanesGood(PanesOf(there, window, rooted))
<1> DEFINE p == [page |-> there, window |-> window, rooted |-> rooted, width |-> 0, margin |-> 0,
              packages |-> 0, max |-> 0, classes |-> 0, swapper |-> 0, tree |-> 0, frame |-> 0,
              jar |-> <<>>, fresh |-> TRUE, left |-> <<>>, tab |-> "none",
              dragged |-> [s \in PdkSections |-> 0], pulled |-> 0, acts |-> 0]
<1>1. DOMAIN p = PaneFields /\ p.window = window /\ p.jar = <<>>
    BY DEF PaneFields
<1>2. PanesOf(there, window, rooted) = PaneInit(p)
    BY Zenon DEF PanesOf
<1> HIDE DEF p
<1>3. window \in Nat \ 0 .. 130
    BY PanesAssumption
<1>4. HeightsKnown(p.jar)
    BY <1>1 DEF HeightsKnown, readCookie
<1>5. QED
    BY <1>1, <1>2, <1>3, <1>4, PaneInitFits

LEMMA PanesStart == PanesInit \/ PanesRest => PanesGood(panes)
<1>1. ASSUME PanesInit PROVE PanesGood(panes)
    BY Zenon, <1>1, FirstPaneFits DEF PanesInit
<1>2. ASSUME PanesRest PROVE PanesGood(panes)
  <2>1. (CHOOSE h \in WindowHeights : TRUE) \in WindowHeights
    BY PanesAssumption
  <2>2. QED
    BY Zenon, <1>2, <2>1, FirstPaneFits DEF PanesRest
<1>3. QED
    BY <1>1, <1>2

LEMMA PanesGoodFits == PanesGood(panes) => PanesFit
<1> SUFFICES ASSUME PanesGood(panes) PROVE PanesFit
    OBVIOUS
<1>1. panes.window \in Nat
    BY DEF PanesGood, PanesSound
<1>2. QED
    BY <1>1 DEF PanesGood, MarginFits, HeightFits, SwapFits, PanesFit, HEADER_HEIGHT, SwapLink

-----------------------------------------------------------------------------
(* The widgets together.                                                    *)

(* All that opens and closes, together.                                      *)
WidgetsInv ==
    /\ NavGood(nav) /\ FoldGood(fold) /\ PanelGood(panel) /\ ContentGood(content)
    /\ RefGood(ref) /\ VideoGood(video) /\ PanesGood(panes)

LEMMA WidgetsStart == PagesInit => WidgetsInv
<1> SUFFICES ASSUME PagesInit PROVE WidgetsInv
    OBVIOUS
<1>1. NavGood(nav)
  <2> DEFINE root == CHOOSE s \in Sections : NavParent[s] = NoSection
  <2>1. root \in Sections
    <3>1. PICK s \in Sections : TRUE
      BY TogglesAssumption
    <3>2. CASE NavParent[s] = NoSection
      BY <3>2
    <3>3. CASE NavParent[s] # NoSection
      <4>1. NavParent[s] \in Sections /\ NavParent[NavParent[s]] = NoSection
        BY <3>3, TogglesAssumption
      <4>2. QED
        BY <4>1
    <3>4. QED
      BY <3>2, <3>3
  <2>2. \/ \E s \in Sections : highlightSidenav(s)
        \/ highlightSidenav(root)
    BY Zenon DEF PagesInit, NavInit
  <2> HIDE DEF root
  <2>3. QED
    BY Zenon, <2>1, <2>2, NavStarts
<1>2. FoldGood(fold)
    BY FoldStarts DEF PagesInit
<1>3. PanelGood(panel)
  <2>1. (\E kind \in Kinds : panel = PanelOf(kind)) \/ panel = PanelOf("toggle")
    BY Zenon DEF PagesInit, PanelInit
  <2>2. "toggle" \in Kinds
    BY DEF Kinds
  <2>3. QED
    BY Zenon, <2>1, <2>2, PanelStarts
<1>4. ContentGood(content)
    BY ContentStarts DEF PagesInit
<1>5. RefGood(ref)
  <2>1. RefInit \/ RefRest
    BY Zenon DEF PagesInit
  <2>2. CASE RefInit
    BY Zenon, <2>2, RefStarts DEF RefInit
  <2>3. CASE RefRest
    <3>1. {} \in SUBSET Namespaces /\ [n \in Namespaces |-> IF n \in {} THEN 1 ELSE 0] = [n \in Namespaces |-> 0]
      OBVIOUS
    <3>2. QED
      BY Zenon, <2>3, <3>1, RefStarts DEF RefRest
  <2>4. QED
    BY <2>1, <2>2, <2>3
<1>6. VideoGood(video)
  <2>1. (\E mobile \in BOOLEAN : video = VideoOf(mobile)) \/ video = VideoOf(FALSE)
    BY Zenon DEF PagesInit, VideoInit, VideoRest
  <2>2. FALSE \in BOOLEAN
    OBVIOUS
  <2>3. QED
    BY Zenon, <2>1, <2>2, VideoStarts
<1>7. PanesGood(panes)
  <2>1. PanesInit \/ PanesRest
    BY Zenon DEF PagesInit
  <2>2. QED
    BY <2>1, PanesStart
<1>8. QED
    BY <1>1, <1>2, <1>3, <1>4, <1>5, <1>6, <1>7 DEF WidgetsInv

LEMMA WidgetsKept == WidgetsInv /\ [PagesNext]_pagesVars => WidgetsInv'
<1> SUFFICES ASSUME WidgetsInv, [PagesNext]_pagesVars PROVE WidgetsInv'
    OBVIOUS
<1>1. NavGood(nav') /\ FoldGood(fold')
    BY Zenon, PagesMoveToggles, NavKeptGood, FoldKept DEF WidgetsInv, TogglesSteps
<1>2. PanelGood(panel') /\ ContentGood(content')
    BY Zenon, PagesMoveToggles, PanelKept, ContentKept DEF WidgetsInv, TogglesSteps
<1>3. RefGood(ref') /\ VideoGood(video')
    BY Zenon, PagesMoveLoads, RefKept, VideoKept DEF WidgetsInv, LoadsSteps
<1>4. PanesGood(panes')
    BY Zenon, PagesMovePanes, PanesKept DEF WidgetsInv
<1>5. QED
    BY <1>1, <1>2, <1>3, <1>4 DEF WidgetsInv

LEMMA WidgetsInvIsHonest == WidgetsInv => WidgetsHonest
<1> SUFFICES ASSUME WidgetsInv PROVE WidgetsHonest
    OBVIOUS
<1>1. NavHonest
    BY NavGoodIsHonest DEF WidgetsInv
<1>2. PanelsHonest
  <2>1. ~fold.expanded => FoldShown = 0
    BY DEF WidgetsInv, FoldGood, FoldShown, NoLimit
  <2>2. fold.expanded /\ fold.timers = 0 => FoldShown = fold.scrollHeight
    BY DEF WidgetsInv, FoldGood, FoldShown
  <2>3. ASSUME panel.queue = <<>> PROVE panel.marked = panel.shown
    <3>1. CASE panel.kind # "slideToggle"
      BY <2>3, <3>1 DEF WidgetsInv, PanelGood
    <3>2. CASE panel.kind = "slideToggle"
      <4>1. Even(Len(panel.queue))
        BY <2>3, EvenNext
      <4>2. QED
        BY <3>2, <4>1 DEF WidgetsInv, PanelGood
    <3>3. QED
      BY <3>1, <3>2
  <2>4. ASSUME content.queue = <<>>
        PROVE  content.open = content.shown /\ (~content.hasty => content.text = content.shown)
    <3>1. content.open \in BOOLEAN /\ content.shown \in BOOLEAN /\ content.text \in BOOLEAN
      BY DEF WidgetsInv, ContentGood, ContentType
    <3>2. content.open <=> content.shown
      BY <2>4 DEF WidgetsInv, ContentGood
    <3>3. QED
      BY <3>1, <3>2 DEF WidgetsInv, ContentGood
  <2>5. QED
    BY <2>1, <2>2, <2>3, <2>4 DEF PanelsHonest
<1>3. NamespacesHonest
  <2>1. SUFFICES ASSUME NEW n \in Namespaces
        PROVE  /\ ref.filled[n] <= 1
               /\ n \in ref.open \union ref.shown => ref.filled[n] = 1
               /\ ref.flips[n] = 0 => (n \in ref.open) = (n \in ref.shown)
    BY DEF NamespacesHonest
  <2>2. ref.filled[n] \in {0, 1}
    BY DEF WidgetsInv, RefGood, RefType
  <2>3. ref.filled[n] <= 1
    BY <2>2
  <2>4. n \in ref.open \union ref.shown => ref.filled[n] = 1
    BY DEF WidgetsInv, RefGood
  <2>5. ASSUME ref.flips[n] = 0 PROVE n \in ref.open <=> n \in ref.shown
    <3>1. Even(ref.flips[n])
      BY <2>5, EvenNext
    <3>2. QED
      BY <3>1 DEF WidgetsInv, RefGood
  <2>6. QED
    BY <2>3, <2>4, <2>5
<1>4. VideoInView
    BY DEF WidgetsInv, VideoGood, VideoInView
<1>5. PanesFit
    BY PanesGoodFits DEF WidgetsInv
<1>6. QED
    BY <1>1, <1>2, <1>3, <1>4, <1>5 DEF WidgetsHonest

(* Whatever is clicked and however fast, for every number of sections, of    *)
(* namespaces and of videos and every size of the window: at rest the        *)
(* navigation, the panels, the supplemental content, the namespaces and the  *)
(* video box of docs.js show what their classes say, and the panes of the    *)
(* frame divide the window.                                                  *)
THEOREM WidgetsStayHonest == PagesSpec => []WidgetsHonest
<1>1. PagesSpec => []WidgetsInv
    BY WidgetsStart, WidgetsKept, PTL DEF PagesSpec
<1>2. QED
    BY <1>1, WidgetsInvIsHonest, PTL

-----------------------------------------------------------------------------
(* The inherited members of a class.                                        *)

InheritedType ==
    [opened : SUBSET RowIds, summary : SUBSET RowIds, table : [Tables -> {"[Expand]", "[Collapse]"}],
     class : {"[Expand All]", "[Collapse All]"}]

Switched(i, all, class) == [AllInherited(i, Tables, all) EXCEPT !.class = class]

AllAre(j, all, class) ==
    /\ j \in InheritedType /\ j.class = class
    /\ \A t \in Tables : j.table[t] = IF all THEN "[Collapse]" ELSE "[Expand]"
    /\ \A r \in RowIds : (r \in j.opened <=> all) /\ (r \in j.summary <=> all)

(* All tables at once, whatever was open before.                             *)
LEMMA AllAtOnce ==
    ASSUME NEW i \in InheritedType, NEW all \in BOOLEAN, NEW class \in {"[Expand All]", "[Collapse All]"}
    PROVE  AllAre(Switched(i, all, class), all, class)
<1> DEFINE j == Switched(i, all, class)
           opened == IF all THEN i.opened \union RowsOf(Tables) ELSE i.opened \ RowsOf(Tables)
           summary == IF all THEN i.summary \union RowsOf(Tables) ELSE i.summary \ RowsOf(Tables)
           labels == [t \in Tables |-> IF all THEN "[Collapse]" ELSE "[Expand]"]
<1>1. RowsOf(Tables) = RowIds
    BY DEF RowsOf, RowIds
<1>2. opened \in SUBSET RowIds /\ summary \in SUBSET RowIds
    BY <1>1 DEF InheritedType
<1>3. labels \in [Tables -> {"[Expand]", "[Collapse]"}]
    OBVIOUS
<1>4. [t \in Tables |-> IF t \notin Tables THEN i.table[t]
                        ELSE IF all THEN "[Collapse]" ELSE "[Expand]"] = labels
    OBVIOUS
<1>5. j = [i EXCEPT !.opened = opened, !.summary = summary, !.table = labels, !.class = class]
    BY <1>4 DEF Switched, AllInherited, InheritedType
<1>6. \A r \in RowIds : (r \in opened <=> all) /\ (r \in summary <=> all)
    BY <1>1
<1>7. \A t \in Tables : labels[t] = IF all THEN "[Collapse]" ELSE "[Expand]"
    OBVIOUS
<1> HIDE DEF opened, summary, labels, j
<1>8. j \in InheritedType
    BY <1>2, <1>3, <1>5 DEF InheritedType
<1>9. j.class = class /\ j.opened = opened /\ j.summary = summary /\ j.table = labels
    BY <1>5 DEF InheritedType
<1>10. QED
    BY <1>6, <1>7, <1>8, <1>9 DEF j, AllAre

(* What a step that changes the class does, of all that SearchSeesAll says.  *)
SeesAll ==
    \A t \in Tables :
         /\ inherited'.table[t] = IF inherited'.class = "[Collapse All]" THEN "[Collapse]" ELSE "[Expand]"
         /\ \A r \in Rows : /\ (<<t, r>> \in inherited'.opened) = (inherited'.class = "[Collapse All]")
                            /\ (<<t, r>> \in inherited'.summary) = (<<t, r>> \in inherited'.opened)

LEMMA InheritedStep ==
    inherited \in InheritedType /\ InheritedNext
        => inherited' \in InheritedType /\ (inherited'.class = inherited.class \/ SeesAll)
<1> SUFFICES ASSUME inherited \in InheritedType, InheritedNext
             PROVE  inherited' \in InheritedType /\ (inherited'.class = inherited.class \/ SeesAll)
    OBVIOUS
<1>0. inherited.opened \in SUBSET RowIds /\ inherited.summary \in SUBSET RowIds
      /\ inherited.table \in [Tables -> {"[Expand]", "[Collapse]"}]
    BY DEF InheritedType
<1>1. ASSUME NEW row \in RowIds, toggleInherited(row)
      PROVE  inherited' \in InheritedType /\ inherited'.class = inherited.class
    BY <1>1 DEF toggleInherited, InheritedType
<1>2. ASSUME NEW t \in Tables, toggleAllInherited(t)
      PROVE  inherited' \in InheritedType /\ inherited'.class = inherited.class
  <2> DEFINE all == inherited.table[t] = "[Expand]"
             opened == IF all THEN inherited.opened \union RowsOf({t}) ELSE inherited.opened \ RowsOf({t})
             summary == IF all THEN inherited.summary \union RowsOf({t}) ELSE inherited.summary \ RowsOf({t})
             labels == [u \in Tables |-> IF u \notin {t} THEN inherited.table[u]
                                        ELSE IF all THEN "[Collapse]" ELSE "[Expand]"]
  <2>1. RowsOf({t}) \subseteq RowIds
    BY DEF RowsOf, RowIds
  <2>2. opened \in SUBSET RowIds /\ summary \in SUBSET RowIds
    BY <1>0, <2>1
  <2>3. labels \in [Tables -> {"[Expand]", "[Collapse]"}]
    BY <1>0
  <2>4. inherited' = [inherited EXCEPT !.opened = opened, !.summary = summary, !.table = labels]
    BY <1>2 DEF toggleAllInherited, AllInherited, InheritedType
  <2> HIDE DEF opened, summary, labels
  <2>5. QED
    BY <2>2, <2>3, <2>4 DEF InheritedType
<1>3. ASSUME NEW all \in BOOLEAN,
             inherited' = [AllInherited(inherited, Tables, all)
                             EXCEPT !.class = IF all THEN "[Collapse All]" ELSE "[Expand All]"]
      PROVE  inherited' \in InheritedType /\ SeesAll
  <2> DEFINE class == IF all THEN "[Collapse All]" ELSE "[Expand All]"
  <2>1. class \in {"[Expand All]", "[Collapse All]"} /\ (class = "[Collapse All]" <=> all)
    OBVIOUS
  <2>2. inherited' = Switched(inherited, all, class)
    BY Zenon, <1>3 DEF Switched
  <2> HIDE DEF class
  <2>3. /\ inherited' \in InheritedType /\ inherited'.class = class
        /\ \A t \in Tables : inherited'.table[t] = IF all THEN "[Collapse]" ELSE "[Expand]"
        /\ \A r \in RowIds : (r \in inherited'.opened <=> all) /\ (r \in inherited'.summary <=> all)
    <3>1. AllAre(Switched(inherited, all, class), all, class)
      BY Zenon, <2>1, AllAtOnce
    <3>2. AllAre(inherited', all, class)
      BY Zenon, <2>2, <3>1
    <3>3. QED
      BY <3>2 DEF AllAre
  <2>4. \A t \in Tables, r \in Rows : <<t, r>> \in RowIds
    BY DEF RowIds
  <2>5. ASSUME NEW t \in Tables
        PROVE  inherited'.table[t] = IF inherited'.class = "[Collapse All]" THEN "[Collapse]" ELSE "[Expand]"
    BY <2>1, <2>3
  <2>5a. ASSUME NEW t \in Tables, NEW r \in Rows
         PROVE  /\ (<<t, r>> \in inherited'.opened) = (inherited'.class = "[Collapse All]")
                /\ (<<t, r>> \in inherited'.summary) = (<<t, r>> \in inherited'.opened)
    <3>1. /\ (<<t, r>> \in inherited'.opened) <=> (inherited'.class = "[Collapse All]")
          /\ (<<t, r>> \in inherited'.summary) <=> (<<t, r>> \in inherited'.opened)
      BY <2>1, <2>3, <2>4
    <3>2. (<<t, r>> \in inherited'.opened) \in BOOLEAN /\ (<<t, r>> \in inherited'.summary) \in BOOLEAN
          /\ (inherited'.class = "[Collapse All]") \in BOOLEAN
      OBVIOUS
    <3>3. (<<t, r>> \in inherited'.opened) = (inherited'.class = "[Collapse All]")
      BY <3>1, <3>2
    <3>4. (<<t, r>> \in inherited'.summary) = (<<t, r>> \in inherited'.opened)
      BY <3>1, <3>2
    <3>5. QED
      BY <3>3, <3>4
  <2>5b. SeesAll
    BY Zenon, <2>5, <2>5a DEF SeesAll
  <2>6. QED
    BY <2>3, <2>5b
<1>4. CASE toggleAllClassInherited
  <2> DEFINE all == inherited.class = "[Expand All]"
  <2>1. inherited' = [AllInherited(inherited, Tables, all)
                        EXCEPT !.class = IF all THEN "[Collapse All]" ELSE "[Expand All]"]
    BY Zenon, <1>4 DEF toggleAllClassInherited
  <2>2. all \in BOOLEAN
    OBVIOUS
  <2> HIDE DEF all
  <2>3. QED
    BY <1>3, <2>1, <2>2
<1>5. CASE ensureAllInheritedExpanded
  <2>1. inherited' = [AllInherited(inherited, Tables, TRUE)
                        EXCEPT !.class = IF TRUE THEN "[Collapse All]" ELSE "[Expand All]"]
    BY <1>5 DEF ensureAllInheritedExpanded
  <2>2. QED
    BY <1>3, <2>1
<1>6. QED
    BY <1>1, <1>2, <1>4, <1>5 DEF InheritedNext

LEMMA InheritedStart == PagesInit => inherited \in InheritedType
<1> SUFFICES ASSUME PagesInit PROVE inherited \in InheritedType
    OBVIOUS
<1>1. inherited = [opened |-> {}, summary |-> {}, table |-> [t \in Tables |-> "[Expand]"],
                   class |-> "[Expand All]"]
    BY DEF PagesInit, InheritedInit
<1>2. [t \in Tables |-> "[Expand]"] \in [Tables -> {"[Expand]", "[Collapse]"}]
    OBVIOUS
<1>3. QED
    BY <1>1, <1>2 DEF InheritedType

(* For every number of tables and rows: the page search, or the link above   *)
(* the tables, opens or closes every row and relabels every table, whatever  *)
(* was toggled by row or by table before.                                    *)
THEOREM SearchAlwaysSeesAll == PagesSpec => SearchSeesAll
<1> DEFINE Inv == inherited \in InheritedType
<1>1. Inv /\ [PagesNext]_pagesVars => Inv'
    BY PagesMoveToggles, InheritedStep DEF TogglesSteps
<1>2. Inv /\ [PagesNext]_pagesVars => [inherited'.class = inherited.class \/ SeesAll]_inherited
    BY Zenon, PagesMoveToggles, InheritedStep DEF TogglesSteps
<1>3. PagesSpec => []Inv
    BY InheritedStart, <1>1, PTL DEF PagesSpec
<1>4. PagesSpec => [][inherited'.class = inherited.class \/ SeesAll]_inherited
    BY <1>2, <1>3, PTL DEF PagesSpec
<1>5. QED
    BY <1>4, PTL DEF SearchSeesAll, SeesAll

-----------------------------------------------------------------------------
(* Cookies and the heights of the panes.                                    *)

(* What is in the cookies after one was written.                             *)
Wrote(new, jar, s, c, v) ==
    /\ \A t, d : <<t, d>> \in DOMAIN new <=> (t = s /\ d = c) \/ <<t, d>> \in DOMAIN jar
    /\ \A t, d : readCookie(new, t, d) = IF t = s /\ d = c THEN v ELSE readCookie(jar, t, d)

LEMMA ReadAfterWrite ==
    ASSUME NEW jar, NEW s, NEW c, NEW v
    PROVE  Wrote(writeCookie(jar, s, c, v), jar, s, c, v)
<1> DEFINE new == writeCookie(jar, s, c, v)
<1>1. ASSUME NEW t, NEW d
      PROVE  /\ <<t, d>> \in DOMAIN new <=> (t = s /\ d = c) \/ <<t, d>> \in DOMAIN jar
             /\ readCookie(new, t, d) = IF t = s /\ d = c THEN v ELSE readCookie(jar, t, d)
  <2>1. DOMAIN new = DOMAIN jar \union {<<s, c>>}
    BY DEF writeCookie
  <2>2. <<t, d>> = <<s, c>> <=> t = s /\ d = c
    OBVIOUS
  <2>3. CASE <<t, d>> = <<s, c>>
    BY <2>1, <2>2, <2>3 DEF readCookie, writeCookie
  <2>4. CASE <<t, d>> # <<s, c>>
    BY <2>1, <2>2, <2>4 DEF readCookie, writeCookie
  <2>5. QED
    BY <2>3, <2>4
<1> HIDE DEF new
<1>2. Wrote(new, jar, s, c, v)
    BY Zenon, <1>1 DEF Wrote
<1>3. QED
    BY Zenon, <1>2 DEF new

(* Fields that a step of the sizes leaves alone.                             *)
Reading == {"page", "window", "rooted", "left", "tab", "dragged", "pulled", "acts"}
SameBut(p, r, fields) == DOMAIN r = PaneFields /\ \A f \in PaneFields \ fields : r[f] = p[f]

(* How a page comes up: with the sizes that the cookies have.                *)
ComesUp(p, r) ==
    /\ DOMAIN r = PaneFields /\ \A f \in Reading : r[f] = p[f]
    /\ \/ r.jar = p.jar
       \/ /\ HasNav(p.page) /\ readCookie(p.jar, Group(p.page.section), "width") = 0
          /\ r.jar = writeCookie(p.jar, FirstDirectory(p), "width", CssWidth)
    /\ HasNav(p.page) /\ readCookie(p.jar, Group(p.page.section), "width") # 0 =>
         r.width = readCookie(p.jar, Group(p.page.section), "width")
    /\ readCookie(p.jar, Group(p.page.section), "height") # 0 =>
         Used(r) = Min({readCookie(p.jar, Group(p.page.section), "height"), r.swapper})

LEMMA HeightMoves ==
    ASSUME NEW p, PanesSound(p), NEW h
    PROVE  /\ SameBut(p, resizeHeight(p), {"frame", "swapper", "tree", "classes"})
           /\ SameBut(p, restoreHeight(p, h), {"frame", "swapper", "tree", "max", "packages", "classes"})
           /\ Used(restoreHeight(p, h)) = Min({h, restoreHeight(p, h).swapper})
<1>0. DOMAIN p = PaneFields /\ p.window \in Nat \ 0 .. 130
    BY DEF PanesSound
<1> DEFINE s == p.window - HEADER_HEIGHT - SwapLink
           q == [p EXCEPT !.frame = p.window - HEADER_HEIGHT, !.swapper = s, !.tree = s]
           r == resizeHeight(p)
           u == restoreHeight(p, h)
<1>1. SameBut(p, r, {"frame", "swapper", "tree", "classes"})
  <2>1. CASE InReference(p)
    <3>1. SameBut(p, q, {"frame", "swapper", "tree"})
      BY <1>0 DEF PaneFields, SameBut
    <3>2. r = [q EXCEPT !.classes = Height(q.swapper - Used(q), @)]
      BY Zenon, <2>1 DEF resizeHeight, SwapLink, HEADER_HEIGHT
    <3> HIDE DEF q, r
    <3>3. SameBut(q, r, {"classes"})
      BY <3>1, <3>2 DEF SameBut, PaneFields
    <3>4. QED
      BY <3>1, <3>3 DEF SameBut, PaneFields
  <2>2. CASE ~InReference(p)
    <3>1. r = [p EXCEPT !.frame = p.window - HEADER_HEIGHT]
      BY Zenon, <2>2 DEF resizeHeight
    <3> HIDE DEF r
    <3>2. QED
      BY <1>0, <3>1 DEF SameBut, PaneFields
  <2>3. QED
    BY <2>1, <2>2
<1>2. /\ SameBut(p, u, {"frame", "swapper", "tree", "max", "packages", "classes"})
      /\ u.swapper = s /\ u.max = s /\ u.packages = h
    BY <1>0 DEF SameBut, PaneFields, restoreHeight
<1>3. s # Unset
    BY <1>0 DEF HEADER_HEIGHT, SwapLink, Unset
<1> HIDE DEF u
<1>4. Used(u) = Min({h, u.swapper})
    BY Zenon, <1>2, <1>3 DEF Used
<1>5. QED
    BY <1>1, <1>2, <1>4 DEF u

LEMMA PageComesUp ==
    ASSUME NEW p, DOMAIN p = PaneFields, p.window \in Nat \ 0 .. 130, HeightsKnown(p.jar)
    PROVE  ComesUp(p, PaneInit(p))
<1> DEFINE sheet == [p EXCEPT !.width = CssWidth, !.margin = 0, !.packages = CssHeight, !.max = Unset,
                     !.classes = Unset, !.swapper = Unset, !.tree = Unset, !.fresh = TRUE]
           width  == readCookie(p.jar, Group(p.page.section), "width")
           height == readCookie(p.jar, Group(p.page.section), "height")
           wide   == IF ~HasNav(p.page) THEN sheet
                     ELSE IF width # 0 THEN restoreWidth(sheet, width) ELSE resizeWidth(sheet)
           r == PaneInit(p)
<1>1. /\ SameBut(p, sheet, {"width", "margin", "packages", "max", "classes", "swapper", "tree", "fresh"})
      /\ sheet.width = CssWidth /\ sheet.packages = CssHeight /\ sheet.max = Unset /\ sheet.classes = Unset
    BY DEF SameBut, PaneFields
<1>2. CssHeight \in Nat /\ Unset \in Int
    BY DEF CssHeight, Unset
<1> HIDE DEF sheet
<1>3. PanesSound(sheet)
    BY <1>1, <1>2 DEF PanesSound, SameBut, PaneFields
<1>4. /\ PanesSound(wide) /\ DOMAIN wide = PaneFields /\ \A f \in Reading : wide[f] = p[f]
      /\ wide.jar = IF HasNav(p.page) /\ width = 0 THEN writeCookie(p.jar, FirstDirectory(p), "width", CssWidth)
                    ELSE p.jar
      /\ HasNav(p.page) /\ width # 0 => wide.width = width
  <2>1. CASE ~HasNav(p.page)
    BY <1>1, <1>3, <2>1 DEF SameBut, Reading, PaneFields
  <2>2. CASE HasNav(p.page) /\ width # 0
    <3>1. PanesSound(wide)
      BY <1>3, <2>2, WidthsFit
    <3>2. wide = [sheet EXCEPT !.margin = width + Handle, !.width = width]
      BY Zenon, <2>2 DEF restoreWidth
    <3> HIDE DEF wide, width
    <3>3. SameBut(sheet, wide, {"margin", "width"}) /\ wide.width = width
      BY <1>1, <3>2 DEF SameBut, PaneFields
    <3>4. QED
      BY <1>1, <2>2, <3>1, <3>3 DEF SameBut, Reading, PaneFields
  <2>3. CASE HasNav(p.page) /\ width = 0
    <3>1. PanesSound(wide)
      BY <1>3, <2>3, WidthsFit
    <3>2. wide = [sheet EXCEPT !.margin = sheet.width + Handle,
                     !.jar = writeCookie(@, FirstDirectory(sheet), "width", sheet.width)]
      BY Zenon, <2>3 DEF resizeWidth
    <3>3. FirstDirectory(sheet) = FirstDirectory(p)
      BY <1>1 DEF SameBut, PaneFields, FirstDirectory
    <3> HIDE DEF wide, width
    <3>4. /\ SameBut(sheet, wide, {"margin", "jar"})
          /\ wide.jar = writeCookie(sheet.jar, FirstDirectory(sheet), "width", sheet.width)
      BY <1>1, <3>2 DEF SameBut, PaneFields
    <3>5. QED
      BY <1>1, <2>3, <3>1, <3>3, <3>4 DEF SameBut, Reading, PaneFields
  <2>4. QED
    BY <2>1, <2>2, <2>3
<1>5. r = IF height # 0 THEN restoreHeight(wide, height) ELSE resizeHeight(wide)
    BY Zenon DEF PaneInit, sheet
<1> HIDE DEF wide, height, width, r
<1>6. /\ SameBut(wide, r, {"frame", "swapper", "tree", "max", "packages", "classes"})
      /\ height # 0 => Used(r) = Min({height, r.swapper})
  <2>1. CASE height # 0
    BY <1>4, <1>5, <2>1, HeightMoves
  <2>2. CASE height = 0
    <3>1. SameBut(wide, r, {"frame", "swapper", "tree", "classes"})
      BY <1>4, <1>5, <2>2, HeightMoves
    <3>2. QED
      BY <2>2, <3>1 DEF SameBut, PaneFields
  <2>3. QED
    BY <2>1, <2>2
<1>7. DOMAIN r = PaneFields /\ (\A f \in Reading : r[f] = p[f]) /\ r.jar = wide.jar /\ r.width = wide.width
    BY <1>4, <1>6 DEF SameBut, Reading, PaneFields
<1>8. QED
    BY <1>4, <1>6, <1>7 DEF ComesUp, r, width, height

-----------------------------------------------------------------------------
(* What the cookies hold.                                                   *)

(* The pages of a section that were left, by their places.                   *)
LeftIn(left, s) == {i \in DOMAIN left : Group(left[i].section) = s}

(* The cookies have the sizes last dragged and the pages last left.          *)
PlacesKnown(p) == p.page \in PdkPages /\ p.left \in Seq(PdkPages) /\ p.dragged \in [PdkSections -> Nat]
WidthsKnown(p) ==
    p.rooted => \A s \in PdkSections : p.dragged[s] # 0 => readCookie(p.jar, s, "width") = p.dragged[s]
PulledKnown(p) == p.rooted /\ p.pulled # 0 => readCookie(p.jar, "reference", "height") = p.pulled
PagesKnown(p) ==
    \A s \in Tabbed :
        IF <<s, "lastpage">> \in DOMAIN p.jar
        THEN \E i \in LeftIn(p.left, s) :
                /\ \A j \in LeftIn(p.left, s) : j <= i
                /\ readCookie(p.jar, s, "lastpage") = p.left[i]
        ELSE LeftIn(p.left, s) = {}

(* And the page on display has them.                                         *)
WidthIsDragged(p) ==
    p.rooted /\ p.dragged[Group(p.page.section)] # 0 => p.width = p.dragged[Group(p.page.section)]
HeightIsPulled(p) ==
    p.rooted /\ p.fresh /\ InReference(p) /\ p.pulled # 0 => Used(p) = Min({p.pulled, p.swapper})
TabIsLast(p) ==
    p.tab # "none" /\ p.left[Len(p.left)].section # p.tab =>
        p.page = IF LeftIn(p.left, p.tab) \ {Len(p.left)} = {} THEN [section |-> p.tab, n |-> 1]
                 ELSE p.left[Max(LeftIn(p.left, p.tab) \ {Len(p.left)})]

SizesGood(p) ==
    /\ PlacesKnown(p) /\ p.dragged["other"] = 0
    /\ WidthsKnown(p) /\ PulledKnown(p) /\ PagesKnown(p)
    /\ WidthIsDragged(p) /\ HeightIsPulled(p) /\ TabIsLast(p)

LEMMA GroupIs ==
    ASSUME NEW s \in PdkSections
    PROVE  Group(s) \in PdkSections /\ (Group(s) = "other" <=> s = "other")
           /\ (s = "reference" => Group(s) = "reference")
BY DEF Group, PdkSections

LEMMA PageIs ==
    ASSUME NEW at \in PdkPages
    PROVE  at.section \in PdkSections /\ Group(at.section) \in PdkSections
           /\ (HasNav(at) <=> Group(at.section) # "other")
           /\ (at.section = "reference" => Group(at.section) = "reference")
<1>1. at.section \in PdkSections
    BY PanesAssumption
<1>2. QED
    BY <1>1, GroupIs DEF HasNav

(* A size that is written where nothing was dragged, or as dragged.          *)
LEMMA CookiesStay ==
    ASSUME NEW p, NEW r, r.left = p.left, NEW s, NEW c \in {"width", "height"}, NEW v,
           r.jar = writeCookie(p.jar, s, c, v), PagesKnown(p)
    PROVE  PagesKnown(r)
<1>0. Wrote(r.jar, p.jar, s, c, v)
    BY Zenon, ReadAfterWrite
<1>1. \A t : readCookie(r.jar, t, "lastpage") = readCookie(p.jar, t, "lastpage")
             /\ (<<t, "lastpage">> \in DOMAIN r.jar <=> <<t, "lastpage">> \in DOMAIN p.jar)
    BY <1>0 DEF Wrote
<1>2. QED
    BY <1>1 DEF PagesKnown

(* A page that comes up has what the cookies have.                           *)
LEMMA ComesUpGood ==
    ASSUME NEW p, NEW r, ComesUp(p, r), PlacesKnown(p), p.dragged["other"] = 0,
           WidthsKnown(p), PulledKnown(p), PagesKnown(p), TabIsLast(p)
    PROVE  SizesGood(r)
<1> DEFINE g == Group(p.page.section)
<1>1. /\ r.page = p.page /\ r.left = p.left /\ r.dragged = p.dragged /\ r.rooted = p.rooted
      /\ r.pulled = p.pulled /\ r.tab = p.tab
    BY DEF ComesUp, Reading
<1>2. g \in PdkSections /\ (HasNav(p.page) <=> g # "other")
    BY PageIs DEF PlacesKnown
<1>3. PlacesKnown(r) /\ r.dragged["other"] = 0
    BY <1>1 DEF PlacesKnown
<1>4. ASSUME r.jar = p.jar PROVE WidthsKnown(r) /\ PulledKnown(r) /\ PagesKnown(r)
  <2>1. WidthsKnown(r) /\ PulledKnown(r)
    BY <1>1, <1>4 DEF WidthsKnown, PulledKnown
  <2>2. PagesKnown(r)
    BY <1>1, <1>4 DEF PagesKnown
  <2>3. QED
    BY <2>1, <2>2
<1>5. ASSUME HasNav(p.page), readCookie(p.jar, g, "width") = 0,
             r.jar = writeCookie(p.jar, FirstDirectory(p), "width", CssWidth)
      PROVE  WidthsKnown(r) /\ PulledKnown(r) /\ PagesKnown(r)
  <2>0. Wrote(r.jar, p.jar, FirstDirectory(p), "width", CssWidth)
    BY Zenon, <1>5, ReadAfterWrite
  <2>1. PagesKnown(r)
    BY <1>1, <1>5, CookiesStay
  <2>2. PulledKnown(r)
    <3>1. readCookie(r.jar, "reference", "height") = readCookie(p.jar, "reference", "height")
      BY <2>0 DEF Wrote
    <3>2. QED
      BY <1>1, <3>1 DEF PulledKnown
  <2>3. ASSUME p.rooted, NEW s \in PdkSections, p.dragged[s] # 0
        PROVE  readCookie(r.jar, s, "width") = p.dragged[s]
    <3>1. readCookie(p.jar, s, "width") = p.dragged[s]
      BY <2>3 DEF WidthsKnown
    <3>2. s # g
      BY <1>5, <2>3, <3>1
    <3>3. FirstDirectory(p) = g
      BY <2>3 DEF FirstDirectory
    <3>4. QED
      BY <2>0, <3>1, <3>2, <3>3 DEF Wrote
  <2>4. WidthsKnown(r)
    BY <1>1, <2>3 DEF WidthsKnown
  <2>5. QED
    BY <2>1, <2>2, <2>4
<1>6. WidthsKnown(r) /\ PulledKnown(r) /\ PagesKnown(r)
    BY <1>4, <1>5 DEF ComesUp
<1>7. WidthIsDragged(r)
  <2>1. ASSUME p.rooted, p.dragged[g] # 0 PROVE r.width = p.dragged[g]
    <3>1. readCookie(p.jar, g, "width") = p.dragged[g] /\ HasNav(p.page)
      BY <1>2, <2>1 DEF WidthsKnown
    <3>2. QED
      BY <2>1, <3>1 DEF ComesUp
  <2>2. QED
    BY <1>1, <2>1 DEF WidthIsDragged
<1>8. HeightIsPulled(r)
  <2>1. ASSUME p.rooted, InReference(p), p.pulled # 0 PROVE Used(r) = Min({p.pulled, r.swapper})
    <3>1. g = "reference"
      BY <2>1, PageIs DEF PlacesKnown, InReference
    <3>2. readCookie(p.jar, g, "height") = p.pulled
      BY <2>1, <3>1 DEF PulledKnown
    <3>3. QED
      BY <2>1, <3>2 DEF ComesUp
  <2>2. InReference(r) <=> InReference(p)
    BY <1>1 DEF InReference
  <2>3. QED
    BY <1>1, <2>1, <2>2 DEF HeightIsPulled
<1>9. TabIsLast(r)
    BY <1>1 DEF TabIsLast
<1>10. QED
    BY <1>3, <1>6, <1>7, <1>8, <1>9 DEF SizesGood

(* A page is left: the last of its section.                                  *)
LEMMA LeavesGood ==
    ASSUME NEW p, DOMAIN p = PaneFields, SizesGood(p)
    PROVE  /\ SameBut(p, Unload(p), {"left", "jar"})
           /\ Unload(p).left = Append(p.left, p.page) /\ Unload(p).left \in Seq(PdkPages)
           /\ WidthsKnown(Unload(p)) /\ PulledKnown(Unload(p)) /\ PagesKnown(Unload(p))
<1> DEFINE u == Unload(p)
           g == Group(p.page.section)
<1>1. /\ SameBut(p, u, {"left", "jar"})
      /\ u.left = Append(p.left, p.page)
      /\ u.jar = IF g \in Tabbed THEN writeCookie(p.jar, g, "lastpage", p.page) ELSE p.jar
    BY DEF Unload, SameBut, PaneFields
<1> HIDE DEF u
<1>2. p.page \in PdkPages /\ p.left \in Seq(PdkPages) /\ u.left \in Seq(PdkPages)
    BY <1>1 DEF SizesGood, PlacesKnown
<1>3. /\ Len(u.left) = Len(p.left) + 1 /\ Len(p.left) \in Nat /\ DOMAIN u.left = 1 .. Len(p.left) + 1
      /\ DOMAIN p.left = 1 .. Len(p.left)
      /\ u.left[Len(p.left) + 1] = p.page /\ \A i \in 1 .. Len(p.left) : u.left[i] = p.left[i]
    BY <1>1, <1>2
<1>4. u.rooted = p.rooted /\ u.dragged = p.dragged /\ u.pulled = p.pulled
    BY <1>1 DEF SameBut, PaneFields
<1>4a. g \in Tabbed => Wrote(u.jar, p.jar, g, "lastpage", p.page)
    BY Zenon, <1>1, ReadAfterWrite
<1>5. \A s, c : c # "lastpage" => readCookie(u.jar, s, c) = readCookie(p.jar, s, c)
    BY <1>1, <1>4a DEF Wrote
<1>6. WidthsKnown(u) /\ PulledKnown(u)
    BY <1>4, <1>5 DEF SizesGood, WidthsKnown, PulledKnown
<1>7. \A s : LeftIn(u.left, s) = LeftIn(p.left, s) \union (IF s = g THEN {Len(p.left) + 1} ELSE {})
    BY <1>3 DEF LeftIn
<1>8. ASSUME NEW s \in Tabbed
      PROVE  IF <<s, "lastpage">> \in DOMAIN u.jar
             THEN \E i \in LeftIn(u.left, s) : /\ \A j \in LeftIn(u.left, s) : j <= i
                                               /\ readCookie(u.jar, s, "lastpage") = u.left[i]
             ELSE LeftIn(u.left, s) = {}
  <2>1. CASE s = g
    <3>1. <<s, "lastpage">> \in DOMAIN u.jar /\ readCookie(u.jar, s, "lastpage") = p.page
      BY <1>4a, <2>1 DEF Wrote
    <3>2. LeftIn(u.left, s) \subseteq 1 .. Len(p.left) + 1 /\ Len(p.left) + 1 \in LeftIn(u.left, s)
      BY <1>3, <1>7, <2>1 DEF LeftIn
    <3>3. \A j \in LeftIn(u.left, s) : j <= Len(p.left) + 1
      BY <1>3, <3>2
    <3>4. QED
      BY <1>3, <3>1, <3>2, <3>3
  <2>2. CASE s # g
    <3>1. /\ <<s, "lastpage">> \in DOMAIN u.jar <=> <<s, "lastpage">> \in DOMAIN p.jar
          /\ readCookie(u.jar, s, "lastpage") = readCookie(p.jar, s, "lastpage")
      BY <1>1, <1>4a, <2>2 DEF Wrote
    <3>2. LeftIn(u.left, s) = LeftIn(p.left, s)
      BY <1>7, <2>2
    <3>3. \A i \in LeftIn(p.left, s) : u.left[i] = p.left[i]
      BY <1>3 DEF LeftIn
    <3>4. QED
      BY <3>1, <3>2, <3>3 DEF SizesGood, PagesKnown
  <2>3. QED
    BY <2>1, <2>2
<1>9. PagesKnown(u)
    BY <1>8 DEF PagesKnown
<1>10. QED
    BY <1>1, <1>2, <1>6, <1>9 DEF u

-----------------------------------------------------------------------------
(* The sizes of the panes are kept.                                         *)

(* A step that leaves the reading alone, and the width: the sizes are good   *)
(* after it if the cookie it wrote, if any, is a height.                     *)
LEMMA StaysGood ==
    ASSUME NEW p, NEW r, SizesGood(p), r.page = p.page, r.left = p.left, r.rooted = p.rooted,
           r.tab = p.tab, r.dragged = p.dragged, r.width = p.width, r.fresh = FALSE,
           \A s : readCookie(r.jar, s, "width") = readCookie(p.jar, s, "width"),
           PulledKnown(r), PagesKnown(r)
    PROVE  SizesGood(r)
<1>1. PlacesKnown(r) /\ r.dragged["other"] = 0 /\ WidthsKnown(r) /\ WidthIsDragged(r)
    BY DEF SizesGood, PlacesKnown, WidthsKnown, WidthIsDragged
<1>2. HeightIsPulled(r)
    BY DEF HeightIsPulled
<1>3. TabIsLast(r)
    BY DEF SizesGood, TabIsLast
<1>4. QED
    BY <1>1, <1>2, <1>3 DEF SizesGood

LEMMA SizesKeptOn == PanesGood(panes) /\ SizesGood(panes) /\ PanesNext => SizesGood(panes')
<1> SUFFICES ASSUME PanesGood(panes), SizesGood(panes), PanesNext PROVE SizesGood(panes')
    OBVIOUS
<1> DEFINE g == Group(panes.page.section)
<1>0. /\ PanesSound(panes) /\ DOMAIN panes = PaneFields /\ HeightsKnown(panes.jar)
      /\ panes.window \in Nat \ 0 .. 130
    BY DEF PanesGood, PanesSound
<1>1. SameBut(panes, Acted, {"acts", "fresh"}) /\ Acted.fresh = FALSE
    BY <1>0 DEF Acted, PaneFields, SameBut
<1>1a. /\ panes.page \in PdkPages /\ panes.left \in Seq(PdkPages) /\ panes.dragged \in [PdkSections -> Nat]
       /\ g \in PdkSections /\ (HasNav(panes.page) <=> g # "other")
    BY PageIs DEF SizesGood, PlacesKnown
<1>2. CASE DragWidth
  <2>1. PICK w \in PaneWidths :
          panes' = [resizeWidth([Acted EXCEPT !.width = w]) EXCEPT !.dragged[Group(panes.page.section)] = w]
    BY Zenon, <1>2 DEF DragWidth
  <2>1a. g # "other"
    BY Zenon, <1>1a, <1>2 DEF DragWidth
  <2> DEFINE q == [Acted EXCEPT !.width = w]
             r == resizeWidth(q)
  <2>2. SameBut(panes, q, {"acts", "fresh", "width"}) /\ q.width = w
    BY <1>1 DEF PaneFields, SameBut
  <2> HIDE DEF q
  <2>3. SameBut(q, r, {"margin", "jar"}) /\ r.jar = writeCookie(q.jar, FirstDirectory(q), "width", q.width)
    BY <2>2 DEF resizeWidth, SameBut, PaneFields
  <2>4. panes' = [r EXCEPT !.dragged[Group(panes.page.section)] = w]
    BY Zenon, <2>1 DEF q
  <2> HIDE DEF r
  <2>5. SameBut(r, panes', {"dragged"}) /\ panes'.dragged = [r.dragged EXCEPT ![g] = w]
    BY <2>3, <2>4 DEF SameBut, PaneFields
  <2>6. /\ panes'.page = panes.page /\ panes'.left = panes.left /\ panes'.rooted = panes.rooted
        /\ panes'.tab = panes.tab /\ panes'.dragged = [panes.dragged EXCEPT ![g] = w]
        /\ panes'.width = w /\ panes'.pulled = panes.pulled
    BY <2>2, <2>3, <2>5 DEF SameBut, PaneFields
  <2>6a. panes'.fresh = FALSE
    <3>1. q.fresh = Acted.fresh
      BY <1>1 DEF q, SameBut, PaneFields
    <3>2. QED
      BY <1>1, <2>3, <2>5, <3>1 DEF SameBut, PaneFields
  <2>7. FirstDirectory(q) = FirstDirectory(panes) /\ q.jar = panes.jar /\ panes'.jar = r.jar
    BY <2>2, <2>5 DEF SameBut, PaneFields, FirstDirectory
  <2>8. Wrote(panes'.jar, panes.jar, FirstDirectory(panes), "width", w)
    BY <2>2, <2>3, <2>7, ReadAfterWrite
  <2>9. w \in Nat \ {0}
    BY PanesAssumption
  <2>10. /\ panes'.dragged \in [PdkSections -> Nat]
         /\ \A s \in PdkSections : panes'.dragged[s] = IF s = g THEN w ELSE panes.dragged[s]
    BY <1>1a, <2>6, <2>9
  <2>11. PlacesKnown(panes') /\ panes'.dragged["other"] = 0
    <3>1. "other" \in PdkSections /\ panes.dragged["other"] = 0
      BY DEF PdkSections, SizesGood
    <3>2. QED
      BY <1>1a, <2>1a, <2>6, <2>10, <3>1 DEF PlacesKnown
  <2>12. WidthsKnown(panes')
    <3> SUFFICES ASSUME panes.rooted, NEW s \in PdkSections, panes'.dragged[s] # 0
                 PROVE  readCookie(panes'.jar, s, "width") = panes'.dragged[s]
      BY <2>6 DEF WidthsKnown
    <3>1. FirstDirectory(panes) = g
      BY DEF FirstDirectory
    <3>2. readCookie(panes'.jar, s, "width") = IF s = g THEN w ELSE readCookie(panes.jar, s, "width")
      BY <2>8, <3>1 DEF Wrote
    <3>3. s # g => readCookie(panes.jar, s, "width") = panes.dragged[s]
      BY <2>10 DEF SizesGood, WidthsKnown
    <3>4. QED
      BY <2>10, <3>2, <3>3
  <2>13. PulledKnown(panes')
    <3>1. readCookie(panes'.jar, "reference", "height") = readCookie(panes.jar, "reference", "height")
      BY <2>8 DEF Wrote
    <3>2. QED
      BY <2>6, <3>1 DEF SizesGood, PulledKnown
  <2>14. PagesKnown(panes')
    <3>1. panes'.jar = writeCookie(panes.jar, FirstDirectory(panes), "width", w)
      BY <2>2, <2>3, <2>7
    <3>2. QED
      BY <2>6, <3>1, CookiesStay DEF SizesGood
  <2>15. WidthIsDragged(panes')
    BY <1>1a, <2>6, <2>10 DEF WidthIsDragged
  <2>16. HeightIsPulled(panes')
    BY <2>6a DEF HeightIsPulled
  <2>17. TabIsLast(panes')
    BY <2>6 DEF SizesGood, TabIsLast
  <2>18. QED
    BY <2>11, <2>12, <2>13, <2>14, <2>15, <2>16, <2>17 DEF SizesGood
<1>3. CASE DragHeight
  <2>1. PICK h \in PaneHeights :
          panes' = [resizePackagesHeight([Acted EXCEPT !.packages = h])
                      EXCEPT !.pulled = Used(resizePackagesHeight([Acted EXCEPT !.packages = h]))]
    BY Zenon, <1>3 DEF DragHeight
  <2>1a. panes.page.section = "reference"
    BY Zenon, <1>3 DEF DragHeight, InReference
  <2> DEFINE q == [Acted EXCEPT !.packages = h]
             s == q.window - HEADER_HEIGHT - SwapLink
             l == [q EXCEPT !.swapper = s, !.max = s]
             r == resizePackagesHeight(q)
  <2>2. SameBut(panes, q, {"acts", "fresh", "packages"}) /\ q.fresh = FALSE
    BY <1>1 DEF PaneFields, SameBut
  <2> HIDE DEF q
  <2>3. SameBut(q, l, {"swapper", "max"})
    BY <2>2 DEF SameBut, PaneFields
  <2>4. r = [l EXCEPT !.classes = l.swapper - Used(l),
                      !.jar = writeCookie(@, FirstDirectory(q), "height", Used(l))]
    BY Zenon DEF resizePackagesHeight
  <2>5. panes' = [r EXCEPT !.pulled = Used(r)]
    BY Zenon, <2>1 DEF q
  <2> HIDE DEF l, r
  <2>6. SameBut(l, r, {"classes", "jar"}) /\ r.jar = writeCookie(l.jar, FirstDirectory(q), "height", Used(l))
    BY <2>3, <2>4 DEF SameBut, PaneFields
  <2>7. SameBut(r, panes', {"pulled"}) /\ panes'.pulled = Used(r)
    BY <2>5, <2>6 DEF SameBut, PaneFields
  <2>8. Used(r) = Used(l)
    BY <2>6 DEF Used, SameBut, PaneFields
  <2>9. /\ panes'.page = panes.page /\ panes'.left = panes.left /\ panes'.rooted = panes.rooted
        /\ panes'.tab = panes.tab /\ panes'.dragged = panes.dragged
        /\ panes'.width = panes.width /\ panes'.fresh = FALSE /\ l.jar = panes.jar /\ panes'.jar = r.jar
    BY <2>2, <2>3, <2>6, <2>7 DEF SameBut, PaneFields
  <2>10. FirstDirectory(q) = FirstDirectory(panes)
    BY <2>2 DEF SameBut, PaneFields, FirstDirectory
  <2>11. panes'.jar = writeCookie(panes.jar, FirstDirectory(panes), "height", panes'.pulled)
    BY <2>6, <2>7, <2>8, <2>9, <2>10
  <2>12. Wrote(panes'.jar, panes.jar, FirstDirectory(panes), "height", panes'.pulled)
    BY <2>11, ReadAfterWrite
  <2>13. \A t : readCookie(panes'.jar, t, "width") = readCookie(panes.jar, t, "width")
    BY <2>12 DEF Wrote
  <2>14. PulledKnown(panes')
    <3>1. panes.rooted => FirstDirectory(panes) = "reference"
      BY <1>1a, <2>1a, PageIs DEF FirstDirectory
    <3>2. QED
      BY <2>9, <2>12, <3>1 DEF Wrote, PulledKnown
  <2>15. PagesKnown(panes')
    BY <2>9, <2>11, CookiesStay DEF SizesGood
  <2>16. QED
    BY <2>9, <2>13, <2>14, <2>15, StaysGood
<1>4. CASE ResizeWindow
  <2>1. PICK h \in WindowHeights : panes' = resizeHeight([Acted EXCEPT !.window = h])
    BY Zenon, <1>4 DEF ResizeWindow
  <2> DEFINE q == [Acted EXCEPT !.window = h]
  <2>2. SameBut(panes, q, {"acts", "fresh", "window"}) /\ q.fresh = FALSE /\ q.window = h
    BY <1>1 DEF PaneFields, SameBut
  <2>2a. h \in Nat \ 0 .. 130
    BY PanesAssumption
  <2>3. panes' = resizeHeight(q)
    BY Zenon, <2>1
  <2> HIDE DEF q
  <2>4. PanesSound(q)
    BY <1>0, <2>2, <2>2a DEF PanesSound, SameBut, PaneFields
  <2>5. SameBut(q, panes', {"frame", "swapper", "tree", "classes"})
    BY <2>3, <2>4, HeightMoves
  <2>6. /\ panes'.page = panes.page /\ panes'.left = panes.left /\ panes'.rooted = panes.rooted
        /\ panes'.tab = panes.tab /\ panes'.dragged = panes.dragged /\ panes'.pulled = panes.pulled
        /\ panes'.width = panes.width /\ panes'.fresh = FALSE /\ panes'.jar = panes.jar
    BY <2>2, <2>5 DEF SameBut, PaneFields
  <2>7. PulledKnown(panes') /\ PagesKnown(panes')
    BY <2>6 DEF SizesGood, PulledKnown, PagesKnown
  <2>8. QED
    BY <2>6, <2>7, StaysGood
<1>5. SizesGood(Acted)
  <2>1. /\ Acted.page = panes.page /\ Acted.left = panes.left /\ Acted.rooted = panes.rooted
        /\ Acted.tab = panes.tab /\ Acted.dragged = panes.dragged /\ Acted.pulled = panes.pulled
        /\ Acted.width = panes.width /\ Acted.fresh = FALSE /\ Acted.jar = panes.jar
    BY <1>1 DEF SameBut, PaneFields
  <2>2. PulledKnown(Acted) /\ PagesKnown(Acted)
    BY <2>1 DEF SizesGood, PulledKnown, PagesKnown
  <2>3. QED
    BY <2>1, <2>2, StaysGood
<1> DEFINE u == Unload(Acted)
<1>6. /\ SameBut(Acted, u, {"left", "jar"}) /\ u.left = Append(panes.left, panes.page) /\ u.left \in Seq(PdkPages)
      /\ WidthsKnown(u) /\ PulledKnown(u) /\ PagesKnown(u)
  <2>1. Acted.page = panes.page /\ Acted.left = panes.left /\ DOMAIN Acted = PaneFields
    BY <1>1 DEF SameBut, PaneFields
  <2>2. QED
    BY <1>5, <2>1, LeavesGood
<1>7. HeightsKnown(u.jar)
  <2>1. \/ u.jar = panes.jar
        \/ u.jar = writeCookie(panes.jar, Group(panes.page.section), "lastpage", panes.page)
    BY <1>1 DEF Unload, SameBut, PaneFields
  <2>2. QED
    BY <1>0, <2>1, CookieWritten
<1>8. ASSUME NEW there \in PdkPages, NEW tab, panes' = PaneInit([u EXCEPT !.page = there, !.tab = tab]),
             tab # "none" /\ panes.page.section # tab =>
                 there = IF LeftIn(panes.left, tab) = {} THEN [section |-> tab, n |-> 1]
                         ELSE panes.left[Max(LeftIn(panes.left, tab))]
      PROVE  SizesGood(panes')
  <2> DEFINE q == [u EXCEPT !.page = there, !.tab = tab]
  <2> HIDE DEF u
  <2>1. SameBut(u, q, {"page", "tab"}) /\ q.page = there /\ q.tab = tab
    BY <1>6 DEF SameBut, PaneFields
  <2>2. panes' = PaneInit(q)
    BY Zenon, <1>8
  <2> HIDE DEF q
  <2>3. /\ q.left = u.left /\ q.jar = u.jar /\ q.rooted = u.rooted /\ q.pulled = u.pulled
        /\ q.dragged = u.dragged /\ u.dragged = panes.dragged
        /\ DOMAIN q = PaneFields /\ q.window = panes.window
    BY <1>1, <1>6, <2>1 DEF SameBut, PaneFields
  <2>4. ComesUp(q, panes')
    BY <1>0, <1>7, <2>2, <2>3, PageComesUp
  <2>5. WidthsKnown(q) /\ PulledKnown(q) /\ PagesKnown(q)
    BY <1>6, <2>3 DEF WidthsKnown, PulledKnown, PagesKnown
  <2>6. PlacesKnown(q) /\ q.dragged["other"] = 0
    BY <1>1a, <1>6, <2>1, <2>3 DEF SizesGood, PlacesKnown
  <2>7. TabIsLast(q)
    <3> DEFINE n == Len(panes.left)
    <3>1. /\ n \in Nat /\ Len(q.left) = n + 1 /\ DOMAIN q.left = 1 .. n + 1 /\ DOMAIN panes.left = 1 .. n
          /\ q.left[n + 1] = panes.page /\ \A i \in 1 .. n : q.left[i] = panes.left[i]
      BY <1>1a, <1>6, <2>3
    <3>2. LeftIn(q.left, tab) \ {n + 1} = LeftIn(panes.left, tab)
      BY <3>1 DEF LeftIn
    <3>3. ASSUME tab # "none", panes.page.section # tab
          PROVE  there = IF LeftIn(panes.left, tab) = {} THEN [section |-> tab, n |-> 1]
                         ELSE q.left[Max(LeftIn(panes.left, tab))]
      <4>1. CASE LeftIn(panes.left, tab) = {}
        BY <1>8, <3>3, <4>1
      <4>2. CASE LeftIn(panes.left, tab) # {}
        <5>1. there = panes.left[Max(LeftIn(panes.left, tab))]
          BY <1>8, <3>3, <4>2
        <5>2. Max(LeftIn(panes.left, tab)) \in 1 .. n
          BY <3>1, <4>2, MaxOfPlaces DEF LeftIn
        <5>3. QED
          BY <3>1, <4>2, <5>1, <5>2
      <4>3. QED
        BY <4>1, <4>2
    <3>4. QED
      BY <2>1, <3>1, <3>2, <3>3 DEF TabIsLast
  <2>8. QED
    BY <2>4, <2>5, <2>6, <2>7, ComesUpGood
<1>9. CASE FollowPage
  <2>1. PICK there \in PdkPages : panes' = PaneInit([u EXCEPT !.page = there, !.tab = "none"])
    BY Zenon, <1>9 DEF FollowPage
  <2>2. QED
    BY Zenon, <1>8, <2>1
<1>10. CASE ClickTab
  <2>1. PICK s \in Tabbed : panes' = PaneInit([u EXCEPT !.page = loadLast(panes, s), !.tab = s])
    BY Zenon, <1>10 DEF ClickTab
  <2> DEFINE there == loadLast(panes, s)
             index == [section |-> s, n |-> 1]
  <2>2. index \in PdkPages
    BY PanesAssumption
  <2>3. CASE panes.page.section = s
    <3>1. there = index
      BY <2>3 DEF loadLast
    <3>2. QED
      BY Zenon, <1>8, <2>1, <2>2, <2>3, <3>1
  <2>4. CASE panes.page.section # s /\ <<s, "lastpage">> \notin DOMAIN panes.jar
    <3>1. there = index
      BY <2>4 DEF loadLast
    <3>2. LeftIn(panes.left, s) = {}
      BY <2>4 DEF SizesGood, PagesKnown
    <3>3. there = IF LeftIn(panes.left, s) = {} THEN index ELSE panes.left[Max(LeftIn(panes.left, s))]
      BY <3>1, <3>2
    <3>4. QED
      BY Zenon, <1>8, <2>1, <2>2, <3>1, <3>3
  <2>5. CASE panes.page.section # s /\ <<s, "lastpage">> \in DOMAIN panes.jar
    <3>1. there = readCookie(panes.jar, s, "lastpage")
      BY <2>5 DEF loadLast
    <3>2. PICK i \in LeftIn(panes.left, s) :
              /\ \A j \in LeftIn(panes.left, s) : j <= i
              /\ readCookie(panes.jar, s, "lastpage") = panes.left[i]
      BY <2>5 DEF SizesGood, PagesKnown
    <3>3. i \in DOMAIN panes.left /\ LeftIn(panes.left, s) \subseteq Int
      BY <1>1a DEF LeftIn
    <3>4. Max(LeftIn(panes.left, s)) = i
      BY <3>2, <3>3, MaxIs
    <3>5. panes.left[i] \in PdkPages
      BY <1>1a, <3>3
    <3>6. there \in PdkPages /\ there = IF LeftIn(panes.left, s) = {} THEN index
                                        ELSE panes.left[Max(LeftIn(panes.left, s))]
      BY <3>1, <3>2, <3>4, <3>5
    <3>7. QED
      BY Zenon, <1>8, <2>1, <3>6
  <2>6. QED
    BY <2>3, <2>4, <2>5
<1>11. QED
    BY Zenon, <1>2, <1>3, <1>4, <1>9, <1>10 DEF PanesNext

LEMMA SizesGoodAreKept == SizesGood(panes) => SizesKept
BY DEF SizesGood, WidthIsDragged, HeightIsPulled, TabIsLast, SizesKept, LeftIn

LEMMA FirstSizesGood ==
    ASSUME NEW there \in PdkPages, NEW window \in WindowHeights, NEW rooted
    PROVE  SizesGood(PanesOf(there, window, rooted))
<1> DEFINE p == [page |-> there, window |-> window, rooted |-> rooted, width |-> 0, margin |-> 0,
              packages |-> 0, max |-> 0, classes |-> 0, swapper |-> 0, tree |-> 0, frame |-> 0,
              jar |-> <<>>, fresh |-> TRUE, left |-> <<>>, tab |-> "none",
              dragged |-> [s \in PdkSections |-> 0], pulled |-> 0, acts |-> 0]
<1>1. /\ DOMAIN p = PaneFields /\ p.window = window /\ p.jar = <<>> /\ p.page = there /\ p.left = <<>>
      /\ p.tab = "none" /\ p.pulled = 0 /\ p.dragged = [s \in PdkSections |-> 0]
    BY DEF PaneFields
<1>2. PanesOf(there, window, rooted) = PaneInit(p)
    BY Zenon DEF PanesOf
<1> HIDE DEF p
<1>3. window \in Nat \ 0 .. 130 /\ "other" \in PdkSections
    BY PanesAssumption DEF PdkSections
<1>4. HeightsKnown(p.jar)
    BY <1>1 DEF HeightsKnown, readCookie
<1>5. ComesUp(p, PaneInit(p))
    BY <1>1, <1>3, <1>4, PageComesUp
<1>6. PlacesKnown(p) /\ p.dragged["other"] = 0
    BY <1>1, <1>3 DEF PlacesKnown
<1>7. WidthsKnown(p) /\ PulledKnown(p) /\ TabIsLast(p)
    BY <1>1 DEF WidthsKnown, PulledKnown, TabIsLast
<1>8. PagesKnown(p)
    BY <1>1 DEF PagesKnown, LeftIn
<1>9. QED
    BY <1>2, <1>5, <1>6, <1>7, <1>8, ComesUpGood

LEMMA SizesStart == PanesInit \/ PanesRest => SizesGood(panes)
<1>1. ASSUME PanesInit PROVE SizesGood(panes)
    BY Zenon, <1>1, FirstSizesGood DEF PanesInit
<1>2. ASSUME PanesRest PROVE SizesGood(panes)
  <2>1. (CHOOSE h \in WindowHeights : TRUE) \in WindowHeights /\ [section |-> "guide", n |-> 1] \in PdkPages
    BY PanesAssumption DEF Tabbed
  <2>2. QED
    BY Zenon, <1>2, <2>1, FirstSizesGood DEF PanesRest
<1>3. QED
    BY <1>1, <1>2

-----------------------------------------------------------------------------
(* The parts of the navigation that are stored.                             *)

(* What is left of a list of parts when one of them is taken out.            *)
Keeps(kept, config, n) ==
    kept = [i \in 0 .. Len(config) |->
              IF i = 0 THEN <<>>
              ELSE IF config[i] = n THEN kept[i-1] ELSE Append(kept[i-1], config[i])]

Keeper(config, n) == CHOOSE kept : Keeps(kept, config, n)

LEMMA WithoutIs == ASSUME NEW config, NEW n PROVE Without(config, n) = Keeper(config, n)[Len(config)]
BY Zenon DEF Without, Keeper, Keeps

(* The parts of the first i of config without n.                             *)
KeptSoFar(kept, config, n, i) ==
    /\ kept[i] \in Seq(Navs) /\ ToSet(kept[i]) = {config[j] : j \in 1 .. i} \ {n}
    /\ IsInjective(config) => IsInjective(kept[i])

LEMMA KeeperExists ==
    ASSUME NEW config \in Seq(Navs), NEW n
    PROVE  Keeps(Keeper(config, n), config, n)
<1> DEFINE R == Seq(Navs)
           h == [i \in 1 .. Len(config) |-> [r \in R |-> IF config[i] = n THEN r ELSE Append(r, config[i])]]
<1>1. Len(config) \in Nat /\ <<>> \in R /\ \A i \in 1 .. Len(config) : config[i] \in Navs
    OBVIOUS
<1>2. h \in Rules(Len(config), R)
  <2>1. \A i \in 1 .. Len(config), r \in R : Append(r, config[i]) \in R
      BY <1>1
  <2>2. \A i \in 1 .. Len(config) : [r \in R |-> IF config[i] = n THEN r ELSE Append(r, config[i])] \in [R -> R]
      BY <2>1
  <2> HIDE DEF R
  <2>3. QED
      BY Zenon, <2>2 DEF Rules
<1>3. \A i \in 1 .. Len(config), r \in R : h[i][r] = IF config[i] = n THEN r ELSE Append(r, config[i])
    BY Zenon
<1> HIDE DEF R, h
<1>4. PICK f : Follows(f, Len(config), R, <<>>, h)
    BY <1>1, <1>2, RecursionExists
<1>5. f \in [0 .. Len(config) -> R] /\ f[0] = <<>>
      /\ \A i \in 1 .. Len(config) : f[i] = h[i][f[i-1]] /\ f[i-1] \in R
  <2>1. \A i \in 1 .. Len(config) : i - 1 \in 0 .. Len(config)
      BY <1>1
  <2>2. QED
      BY <1>4, <2>1 DEF Follows
<1>6. \A i \in 0 .. Len(config) :
        f[i] = IF i = 0 THEN <<>> ELSE IF config[i] = n THEN f[i-1] ELSE Append(f[i-1], config[i])
  <2>1. \A i \in 0 .. Len(config) : i = 0 \/ i \in 1 .. Len(config)
      BY <1>1
  <2>2. QED
      BY <1>3, <1>5, <2>1
<1>7. Keeps(f, config, n)
  <2>1. f = [i \in 0 .. Len(config) |-> f[i]]
      BY <1>5
  <2>2. QED
      BY Zenon, <1>6, <2>1 DEF Keeps
<1>8. QED
    BY Zenon, <1>7 DEF Keeper

LEMMA WithoutDrops ==
    ASSUME NEW config \in Seq(Navs), NEW n
    PROVE  /\ Without(config, n) \in Seq(Navs)
           /\ ToSet(Without(config, n)) = ToSet(config) \ {n}
           /\ IsInjective(config) => IsInjective(Without(config, n))
<1> DEFINE kept == Keeper(config, n)
           B == {i \in 0 .. Len(config) : KeptSoFar(kept, config, n, i)}
<1>1. Len(config) \in Nat /\ \A i \in 1 .. Len(config) : config[i] \in Navs
    OBVIOUS
<1>2. Keeps(kept, config, n)
    BY KeeperExists
<1> HIDE DEF kept
<1>3. kept[0] = <<>>
    BY <1>1, <1>2 DEF Keeps
<1>4. \A i \in 1 .. Len(config) :
        kept[i] = IF config[i] = n THEN kept[i-1] ELSE Append(kept[i-1], config[i])
  <2>1. \A i \in 1 .. Len(config) : i \in 0 .. Len(config) /\ i # 0
      BY <1>1
  <2>2. QED
      BY Zenon, <1>2, <2>1 DEF Keeps
<1>5. 0 \in B
  <2>1. <<>> \in Seq(Navs) /\ DOMAIN <<>> = {} /\ 1 .. 0 = {} /\ 0 \in 0 .. Len(config)
      BY <1>1
  <2>2. QED
      BY <1>3, <2>1 DEF KeptSoFar, ToSet, IsInjective
<1>6. ASSUME NEW i \in 1 .. Len(config), i - 1 \in B PROVE i \in B
  <2>1. KeptSoFar(kept, config, n, i - 1) /\ i \in 0 .. Len(config)
      BY <1>6, <1>1
  <2>2. {config[j] : j \in 1 .. i} = {config[j] : j \in 1 .. (i - 1)} \union {config[i]}
      BY <1>1
  <2>3. CASE config[i] = n
    <3>1. kept[i] = kept[i-1]
        BY <1>4, <2>3
    <3>2. KeptSoFar(kept, config, n, i)
        BY <2>1, <2>2, <2>3, <3>1 DEF KeptSoFar
    <3>3. QED
        BY <2>1, <3>2
  <2>4. CASE config[i] # n
    <3> DEFINE k == kept[i-1]
    <3>1. kept[i] = Append(k, config[i]) /\ k \in Seq(Navs) /\ config[i] \in Navs
        BY <1>4, <2>4, <2>1, <1>1 DEF KeptSoFar
    <3>2. ToSet(k) = {config[j] : j \in 1 .. (i - 1)} \ {n} /\ (IsInjective(config) => IsInjective(k))
        BY <2>1 DEF KeptSoFar
    <3> HIDE DEF k
    <3>3. Append(k, config[i]) \in Seq(Navs)
        BY <3>1
    <3>4. ToSet(Append(k, config[i])) = ToSet(k) \union {config[i]}
      <4>1. DOMAIN Append(k, config[i]) = DOMAIN k \union {Len(k) + 1} /\ Len(k) + 1 \notin DOMAIN k
          BY <3>1
      <4>2. /\ \A j \in DOMAIN k : Append(k, config[i])[j] = k[j]
            /\ Append(k, config[i])[Len(k) + 1] = config[i]
          BY <3>1
      <4>3. QED
          BY Zenon, <4>1, <4>2 DEF ToSet
    <3>5. ASSUME IsInjective(config) PROVE IsInjective(Append(k, config[i]))
      <4>1. config[i] \notin ToSet(k)
        <5>1. \A j \in 1 .. (i - 1) : j \in DOMAIN config /\ j # i /\ i \in DOMAIN config
            BY <1>1
        <5>2. QED
            BY <3>2, <3>5, <5>1 DEF IsInjective
      <4>2. IsInjective(k) /\ k \in Seq(Navs) /\ \A j \in DOMAIN k : k[j] # config[i]
          BY <3>1, <3>2, <3>5, <4>1 DEF ToSet
      <4>3. QED
          BY <3>1, <4>2 DEF IsInjective
    <3>6. KeptSoFar(kept, config, n, i)
        BY <2>2, <2>4, <3>1, <3>2, <3>3, <3>4, <3>5 DEF KeptSoFar
    <3>7. QED
        BY <2>1, <3>6
  <2>5. QED
      BY <2>3, <2>4
<1>7. B = 0 .. Len(config)
  <2>1. B \in SUBSET (0 .. Len(config))
      OBVIOUS
  <2> HIDE DEF B
  <2>2. QED
      BY <1>1, <1>5, <1>6, <2>1, UpTo
<1>8. KeptSoFar(kept, config, n, Len(config))
    BY <1>1, <1>7
<1>9. {config[j] : j \in 1 .. Len(config)} = ToSet(config)
    BY DEF ToSet
<1>10. QED
    BY <1>8, <1>9, WithoutIs DEF KeptSoFar, kept

LEMMA AppendAdds ==
    ASSUME NEW S, NEW config \in Seq(S), NEW n \in S
    PROVE  /\ Append(config, n) \in Seq(S) /\ ToSet(Append(config, n)) = ToSet(config) \union {n}
           /\ IsInjective(config) /\ n \notin ToSet(config) => IsInjective(Append(config, n))
<1>1. /\ DOMAIN Append(config, n) = DOMAIN config \union {Len(config) + 1}
      /\ \A j \in DOMAIN config : Append(config, n)[j] = config[j] /\ j # Len(config) + 1
      /\ Append(config, n)[Len(config) + 1] = n
    OBVIOUS
<1>2. ToSet(Append(config, n)) = ToSet(config) \union {n}
    BY Zenon, <1>1 DEF ToSet
<1>3. ASSUME IsInjective(config), n \notin ToSet(config) PROVE IsInjective(Append(config, n))
  <2>1. \A j \in DOMAIN config : config[j] # n
      BY Zenon, <1>3 DEF ToSet
  <2>2. QED
      BY <1>1, <1>3, <2>1 DEF IsInjective
<1>4. QED
    BY <1>2, <1>3

-----------------------------------------------------------------------------
(* The windows of a browser, and what they share.                           *)

(* A session moves what the site remembers by a step of the site.            *)
LEMMA PagesMoveSite == [PagesNext]_pagesVars => [SiteNext]_siteVars
<1> SUFFICES ASSUME [PagesNext]_pagesVars PROVE [SiteNext]_siteVars
  OBVIOUS
<1>1. CASE SiteStep
  BY Zenon, <1>1 DEF SiteStep
<1>2. SiteStep \/ UNCHANGED siteVars
  BY Zenon DEF PagesNext, pagesVars, SlidesStep, ListsStep, LoadsStep, NavStep, CompleteStep, TreeStep,
        FrameStep, QueryStep, MatchStep, PanesStep, TogglesStep
<1>4. QED
  BY <1>1, <1>2

WindowFields == {"path", "due", "dictionary", "toasts", "config", "open", "wide", "sidebar",
                 "fullscreen", "level", "absent", "notice", "locale", "target", "dialog"}

StoreFields == {"visited", "closed", "expanded", "sidebar", "fullscreen", "level", "lang"}

(* What a window shows agrees with what its page has read.                   *)
WindowGood(s) ==
    /\ DOMAIN s = WindowFields /\ s.path \in Paths /\ s.sidebar \in BOOLEAN /\ s.wide \in BOOLEAN
    /\ s.fullscreen \in BOOLEAN /\ s.toasts = Toasts \ s.dictionary
    /\ s.config \in Seq(Navs) /\ IsInjective(s.config) /\ ToSet(s.config) \subseteq s.open
    /\ s.open \subseteq ToSet(s.config) \union {Landing[s.path]}
    /\ s.level \in Int /\ s.absent = {l \in Levels : l > s.level}
    /\ s.notice = (s.level < MinLevel[s.path])

StoreSound(store) ==
    /\ DOMAIN store = StoreFields /\ store.expanded \in Seq(Navs) /\ IsInjective(store.expanded)
    /\ store.level \in Nat /\ store.fullscreen \in BOOLEAN

StoreGood(store) == StoreSound(store) /\ (about = "level" => store.level = UserLevel(store))

(* What no window of this session changes, every window has read.            *)
RestAgrees(s, store) ==
    /\ about # "fullscreen" => s.fullscreen = store.fullscreen
    /\ about # "language" => s.locale = store.lang

(* The window that wrote last has read what it wrote.                        *)
LastAgrees(s, store) ==
    /\ about = "navigation" => s.config = store.expanded
    /\ about = "toasts" => s.dictionary = store.closed
    /\ about = "sidebar" => /\ store.sidebar \in {"open", "closed"}
                            /\ s.wide => s.sidebar = (store.sidebar = "open")
    /\ s.fullscreen = store.fullscreen
    /\ about = "level" => s.level = store.level
    /\ s.locale = store.lang

SiteGood ==
    /\ StoreGood(stored) /\ DOMAIN shown = Windows
    /\ \A w \in Windows : WindowGood(shown[w]) /\ RestAgrees(shown[w], stored)
    /\ \A w \in Windows : writer = w => LastAgrees(shown[w], stored)

LEMMA LevelsAre == /\ Cardinality(Levels) \in Nat
                   /\ \A l \in Levels : l \in Nat \ {0}
                   /\ \A store : store.level \in Nat => UserLevel(store) \in Nat
<1>1. Cardinality(Levels) \in Nat
    BY SiteAssumption, FS_CardinalityType
<1>2. QED
    BY <1>1, SiteAssumption DEF UserLevel

LEMMA SiteGoodRemembers == SiteGood => ReloadRestores /\ LevelHonest
<1> SUFFICES ASSUME SiteGood PROVE ReloadRestores /\ LevelHonest
  OBVIOUS
<1>1. ReloadRestores
  <2> SUFFICES ASSUME NEW w \in Windows, writer = w
               PROVE  LET s == shown[w]
                      IN  /\ about = "navigation" =>
                               /\ IsInjective(stored.expanded) /\ ToSet(stored.expanded) \subseteq s.open
                               /\ s.open \subseteq ToSet(stored.expanded) \union {Landing[s.path]}
                          /\ about = "toasts" => s.toasts = Toasts \ stored.closed
                          /\ about = "sidebar" /\ s.wide => s.sidebar = (stored.sidebar = "open")
                          /\ s.fullscreen = stored.fullscreen
                          /\ about = "level" => s.level = stored.level
                          /\ s.locale = stored.lang
      BY Zenon DEF ReloadRestores
  <2>1. WindowGood(shown[w]) /\ LastAgrees(shown[w], stored) /\ StoreGood(stored)
      BY Zenon DEF SiteGood
  <2>2. QED
      BY Zenon, <2>1 DEF WindowGood, LastAgrees, StoreGood, StoreSound
<1>2. LevelHonest
  <2> SUFFICES ASSUME NEW w \in Windows
               PROVE  /\ \A l \in Levels : (l \in shown[w].absent) = (l > shown[w].level)
                      /\ shown[w].notice = (MinLevel[shown[w].path] \in shown[w].absent)
      BY Zenon DEF LevelHonest
  <2>1. WindowGood(shown[w])
      BY Zenon DEF SiteGood
  <2>2. MinLevel[shown[w].path] \in Levels
      BY <2>1, SiteAssumption DEF WindowGood
  <2>2a. \A l \in Levels : l \in Int
      BY LevelsAre
  <2>3. QED
      BY <2>1, <2>2, <2>2a DEF WindowGood
<1>3. QED
    BY <1>1, <1>2

(* A page is loaded with what is stored.                                     *)
LEMMA PageGood ==
    ASSUME NEW store, StoreSound(store), NEW path \in Paths, NEW hl, NEW wide \in BOOLEAN
    PROVE  /\ WindowGood(Page(store, path, hl, wide)) /\ RestAgrees(Page(store, path, hl, wide), store)
           /\ Page(store, path, hl, wide).path = path /\ Page(store, path, hl, wide).wide = wide
           /\ StoreGood(store) /\ ~(about = "sidebar" /\ store.sidebar \notin {"open", "closed"}) =>
                 LastAgrees(Page(store, path, hl, wide), store)
<1> DEFINE s == Page(store, path, hl, wide)
<1>1. /\ DOMAIN s = WindowFields /\ s.path = path /\ s.wide = wide /\ s.sidebar = Sidebar(store, wide)
      /\ s.fullscreen = store.fullscreen
    BY DEF Page, WindowFields
<1>2. /\ s.dictionary = store.closed /\ s.toasts = Toasts \ store.closed
      /\ s.config = store.expanded /\ s.open = ToSet(store.expanded) \union {Landing[path]}
    BY DEF Page
<1>3. /\ s.level = UserLevel(store) /\ s.absent = {l \in Levels : l > UserLevel(store)}
      /\ s.notice = (UserLevel(store) < MinLevel[path]) /\ s.locale = store.lang
    BY DEF Page, toggleVisisbleApis
<1> HIDE DEF s
<1>4. UserLevel(store) \in Int /\ Sidebar(store, wide) \in BOOLEAN
    BY LevelsAre DEF StoreSound, Sidebar
<1>5. WindowGood(s)
    BY <1>1, <1>2, <1>3, <1>4 DEF WindowGood, StoreSound
<1>6. RestAgrees(s, store)
    BY <1>1, <1>3 DEF RestAgrees
<1>7. StoreGood(store) /\ ~(about = "sidebar" /\ store.sidebar \notin {"open", "closed"}) => LastAgrees(s, store)
    BY <1>1, <1>2, <1>3 DEF LastAgrees, StoreGood, Sidebar
<1>8. QED
    BY <1>1, <1>5, <1>6, <1>7 DEF s

SameStore(new, old) ==
    /\ DOMAIN new = StoreFields
    /\ \A f \in StoreFields \ {"visited"} : new[f] = old[f]

LEMMA SameStoreGood ==
    ASSUME NEW new, NEW old, SameStore(new, old)
    PROVE  /\ StoreGood(old) => StoreGood(new)
           /\ \A s : (RestAgrees(s, old) => RestAgrees(s, new)) /\ (LastAgrees(s, old) => LastAgrees(s, new))
<1>1. /\ DOMAIN new = StoreFields /\ new.expanded = old.expanded /\ new.level = old.level /\ new.lang = old.lang
      /\ new.fullscreen = old.fullscreen /\ new.sidebar = old.sidebar /\ new.closed = old.closed
    BY DEF SameStore, StoreFields
<1>2. QED
    BY <1>1 DEF StoreGood, StoreSound, RestAgrees, LastAgrees, UserLevel

LEMMA LoadedSame ==
    ASSUME NEW store, StoreGood(store)
    PROVE  SameStore(Loaded(store), store)
<1>1. CASE about = "level"
  <2>1. Loaded(store) = [store EXCEPT !.level = UserLevel(store)] /\ UserLevel(store) = store.level
      BY <1>1 DEF Loaded, StoreGood, StoreSound
  <2>2. QED
      BY <2>1 DEF SameStore, StoreGood, StoreSound, StoreFields
<1>2. CASE about # "level"
    BY <1>2 DEF Loaded, SameStore, StoreGood, StoreSound
<1>3. QED
    BY <1>1, <1>2

(* Window w shows s now, and the others what they did.                       *)
NowShows(w, s) ==
    /\ DOMAIN shown' = Windows /\ shown'[w] = s
    /\ \A v \in Windows \ {w} : shown'[v] = shown[v]

(* A window moves, and the store with it or not.                             *)
LEMMA WindowMoves ==
    ASSUME SiteGood, NEW w \in Windows, NEW s, NowShows(w, s), about' = about,
           WindowGood(s), RestAgrees(s, stored'), StoreGood(stored'),
           writer' = w => LastAgrees(s, stored'),
           writer' # w => writer' = writer /\ SameStore(stored', stored),
           about # "fullscreen" => stored'.fullscreen = stored.fullscreen,
           about # "language" => stored'.lang = stored.lang
    PROVE  SiteGood'
<1>1. ASSUME NEW v \in Windows PROVE (WindowGood(shown[v]) /\ RestAgrees(shown[v], stored))'
  <2>1. CASE v = w
      BY Zenon, <2>1 DEF NowShows, WindowGood, RestAgrees
  <2>2. CASE v # w
    <3>1. shown'[v] = shown[v] /\ WindowGood(shown[v]) /\ RestAgrees(shown[v], stored)
        BY Zenon, <2>2 DEF NowShows, SiteGood
    <3>2. WindowGood(shown'[v])
        BY <3>1
    <3>3. RestAgrees(shown'[v], stored')
        BY <3>1 DEF RestAgrees
    <3>4. QED
        BY Zenon, <3>2, <3>3 DEF WindowGood, RestAgrees
  <2>3. QED
      BY <2>1, <2>2
<1>2. ASSUME NEW v \in Windows, writer' = v PROVE LastAgrees(shown[v], stored)'
  <2>1. LastAgrees(shown'[v], stored')
    <3>1. CASE v = w
        BY Zenon, <1>2, <3>1 DEF NowShows
    <3>2. CASE v # w
      <4>1. shown'[v] = shown[v] /\ LastAgrees(shown[v], stored) /\ SameStore(stored', stored)
          BY Zenon, <1>2, <3>2 DEF NowShows, SiteGood
      <4>2. LastAgrees(shown[v], stored')
          BY Zenon, <4>1, SameStoreGood
      <4>3. QED
          BY Zenon, <4>1, <4>2
    <3>3. QED
        BY <3>1, <3>2
  <2>2. QED
      BY Zenon, <2>1 DEF LastAgrees
<1>3. StoreGood(stored)'
    BY Zenon DEF StoreGood, StoreSound
<1>4. DOMAIN shown' = Windows
    BY DEF NowShows
<1>5. QED
    BY Zenon, <1>1, <1>2, <1>3, <1>4 DEF SiteGood

-----------------------------------------------------------------------------
(* Pages are loaded, toasts closed, and parts of the navigation opened.     *)

LEMMA ShownExcept ==
    ASSUME NEW w \in Windows, NEW s, DOMAIN shown = Windows, shown' = [shown EXCEPT ![w] = s]
    PROVE  NowShows(w, s)
BY DEF NowShows

(* A window writes, and reads what it wrote.                                 *)
LEMMA WriteGood ==
    ASSUME SiteGood, NEW w \in Windows, NEW store, NEW s, Write(w, store, s), about' = about,
           WindowGood(s), StoreGood(store), LastAgrees(s, store),
           about # "fullscreen" => store.fullscreen = stored.fullscreen,
           about # "language" => store.lang = stored.lang
    PROVE  SiteGood'
<1>1. stored' = store /\ writer' = w /\ shown' = [shown EXCEPT ![w] = s] /\ DOMAIN shown = Windows
    BY Zenon DEF Write, SiteGood
<1>2. NowShows(w, s)
    BY Zenon, <1>1, ShownExcept
<1>3. RestAgrees(s, store)
    BY DEF LastAgrees, RestAgrees
<1>4. WindowGood(s) /\ RestAgrees(s, stored') /\ StoreGood(stored') /\ LastAgrees(s, stored')
    BY Zenon, <1>1, <1>3
<1>5. QED
    BY Zenon, <1>1, <1>2, <1>4, WindowMoves

(* A window changes by itself.                                               *)
LEMMA AloneGood ==
    ASSUME SiteGood, NEW w \in Windows, NEW s, NowShows(w, s), about' = about,
           stored' = stored, writer' = writer,
           WindowGood(s), RestAgrees(s, stored), writer = w => LastAgrees(s, stored)
    PROVE  SiteGood'
<1>1. StoreGood(stored) /\ SameStore(stored, stored)
    BY DEF SiteGood, SameStore, StoreGood, StoreSound
<1>2. RestAgrees(s, stored') /\ StoreGood(stored') /\ (writer' = w => LastAgrees(s, stored'))
      /\ SameStore(stored', stored)
    BY Zenon, <1>1
<1>3. stored'.fullscreen = stored.fullscreen /\ stored'.lang = stored.lang
    OBVIOUS
<1>4. QED
    BY Zenon, <1>2, <1>3, WindowMoves

LEMMA LoadPageGood ==
    ASSUME SiteGood, NEW w \in Windows, LoadPage(w)
    PROVE  SiteGood'
<1>0. WindowGood(shown[w]) /\ StoreGood(stored) /\ DOMAIN shown = Windows
      /\ (writer = w => LastAgrees(shown[w], stored))
    BY Zenon DEF SiteGood
<1>1. about' = about /\ writer' = writer
    BY DEF LoadPage
<1>2. PICK path \in Paths, hl \in IF about = "language" THEN Langs ELSE {stored.lang} :
          shown' = [shown EXCEPT ![w] = Page(stored, path, hl, shown[w].wide)] /\ stored' = Loaded(stored)
  <2>1. shown[w].path \in Paths
      BY <1>0 DEF WindowGood
  <2>2. QED
      BY Zenon, <2>1 DEF LoadPage
<1> DEFINE s == Page(stored, path, hl, shown[w].wide)
<1>3. /\ WindowGood(s) /\ RestAgrees(s, stored)
      /\ ~(about = "sidebar" /\ stored.sidebar \notin {"open", "closed"}) => LastAgrees(s, stored)
  <2>1. shown[w].wide \in BOOLEAN
      BY <1>0 DEF WindowGood
  <2>2. QED
      BY <1>0, <2>1, PageGood DEF StoreGood, StoreSound
<1>4. writer = w => LastAgrees(s, stored)
    BY <1>0, <1>3 DEF LastAgrees
<1>5. NowShows(w, s)
    BY Zenon, <1>0, <1>2, ShownExcept
<1> HIDE DEF s
<1>6. SameStore(stored', stored)
    BY Zenon, <1>0, <1>2, LoadedSame
<1>7. StoreGood(stored') /\ RestAgrees(s, stored') /\ (writer' = w => LastAgrees(s, stored'))
    BY Zenon, <1>0, <1>1, <1>3, <1>4, <1>6, SameStoreGood
<1>8. stored'.fullscreen = stored.fullscreen /\ stored'.lang = stored.lang
    BY <1>6 DEF SameStore, StoreFields
<1>9. QED
    BY Zenon, <1>1, <1>3, <1>5, <1>6, <1>7, <1>8, WindowMoves

LEMMA addCurrectPageGood ==
    ASSUME SiteGood, NEW w \in Windows, addCurrectPage(w)
    PROVE  SiteGood'
<1> DEFINE s == [shown[w] EXCEPT !.due = FALSE]
<1>0. WindowGood(shown[w]) /\ RestAgrees(shown[w], stored) /\ StoreGood(stored) /\ DOMAIN shown = Windows
      /\ (writer = w => LastAgrees(shown[w], stored))
    BY Zenon DEF SiteGood
<1>1. about' = about /\ writer' = writer /\ shown' = [shown EXCEPT ![w] = s]
    BY DEF addCurrectPage
<1>2. SameStore(stored', stored)
    BY <1>0 DEF addCurrectPage, SameStore, StoreGood, StoreSound, StoreFields
<1>3. DOMAIN s = WindowFields /\ \A f \in WindowFields \ {"due"} : s[f] = shown[w][f]
    BY <1>0 DEF WindowGood
<1>4. NowShows(w, s)
    BY Zenon, <1>0, <1>1, ShownExcept
<1> HIDE DEF s
<1>5. /\ s.path = shown[w].path /\ s.dictionary = shown[w].dictionary /\ s.toasts = shown[w].toasts
      /\ s.config = shown[w].config /\ s.open = shown[w].open /\ s.wide = shown[w].wide
      /\ s.sidebar = shown[w].sidebar /\ s.fullscreen = shown[w].fullscreen /\ s.level = shown[w].level
      /\ s.absent = shown[w].absent /\ s.notice = shown[w].notice /\ s.locale = shown[w].locale
    BY <1>3 DEF WindowFields
<1>6. WindowGood(s) /\ RestAgrees(s, stored) /\ (writer = w => LastAgrees(s, stored))
    BY <1>0, <1>3, <1>5 DEF WindowGood, RestAgrees, LastAgrees
<1>7. StoreGood(stored') /\ RestAgrees(s, stored') /\ (writer' = w => LastAgrees(s, stored'))
    BY Zenon, <1>0, <1>1, <1>2, <1>6, SameStoreGood
<1>8. stored'.fullscreen = stored.fullscreen /\ stored'.lang = stored.lang
    BY <1>2 DEF SameStore, StoreFields
<1>9. QED
    BY Zenon, <1>1, <1>2, <1>4, <1>6, <1>7, <1>8, WindowMoves

LEMMA CloseToastGood ==
    ASSUME SiteGood, NEW w \in Windows, CloseToast(w)
    PROVE  SiteGood'
<1>0. WindowGood(shown[w]) /\ RestAgrees(shown[w], stored) /\ StoreGood(stored)
    BY Zenon DEF SiteGood
<1>1. about' = about /\ about = "toasts"
    BY DEF CloseToast
<1>2. PICK t : Write(w, [stored EXCEPT !.closed = shown[w].dictionary \union {t}],
                        [shown[w] EXCEPT !.toasts = @ \ {t}, !.dictionary = shown[w].dictionary \union {t}])
    BY Zenon DEF CloseToast
<1> DEFINE store == [stored EXCEPT !.closed = shown[w].dictionary \union {t}]
           s == [shown[w] EXCEPT !.toasts = @ \ {t}, !.dictionary = shown[w].dictionary \union {t}]
<1>3. /\ DOMAIN s = WindowFields /\ \A f \in WindowFields \ {"toasts", "dictionary"} : s[f] = shown[w][f]
      /\ s.toasts = shown[w].toasts \ {t} /\ s.dictionary = shown[w].dictionary \union {t}
    BY <1>0 DEF WindowGood, WindowFields
<1>4. /\ DOMAIN store = StoreFields /\ \A f \in StoreFields \ {"closed"} : store[f] = stored[f]
      /\ store.closed = shown[w].dictionary \union {t}
    BY <1>0 DEF StoreGood, StoreSound, StoreFields
<1>5. Write(w, store, s)
    BY Zenon, <1>2
<1> HIDE DEF store, s
<1>6. /\ s.path = shown[w].path /\ s.config = shown[w].config /\ s.open = shown[w].open
      /\ s.wide = shown[w].wide /\ s.sidebar = shown[w].sidebar /\ s.fullscreen = shown[w].fullscreen
      /\ s.level = shown[w].level /\ s.absent = shown[w].absent /\ s.notice = shown[w].notice
      /\ s.locale = shown[w].locale
    BY <1>3 DEF WindowFields
<1>7. /\ store.expanded = stored.expanded /\ store.fullscreen = stored.fullscreen
      /\ store.level = stored.level /\ store.lang = stored.lang
    BY <1>4 DEF StoreFields
<1>8. s.toasts = Toasts \ s.dictionary
    BY <1>0, <1>3 DEF WindowGood
<1>9. WindowGood(s)
    BY <1>0, <1>3, <1>6, <1>8 DEF WindowGood
<1>10. StoreGood(store)
    BY <1>0, <1>1, <1>4, <1>7 DEF StoreGood, StoreSound
<1>11. LastAgrees(s, store)
    BY <1>0, <1>1, <1>3, <1>4, <1>6, <1>7 DEF LastAgrees, RestAgrees
<1>12. QED
    BY Zenon, <1>1, <1>5, <1>7, <1>9, <1>10, <1>11, WriteGood

LEMMA ToggleSubNavGood ==
    ASSUME SiteGood, NEW w \in Windows, ToggleSubNav(w)
    PROVE  SiteGood'
<1>0. WindowGood(shown[w]) /\ RestAgrees(shown[w], stored) /\ StoreGood(stored)
    BY Zenon DEF SiteGood
<1>1. about' = about /\ about = "navigation"
    BY DEF ToggleSubNav
<1> DEFINE Opens(n) == n \notin shown[w].open
           Config(n) == Configured(shown[w].config, n, Opens(n))
           Open(n) == IF Opens(n) THEN shown[w].open \union {n} ELSE shown[w].open \ {n}
           Store(n) == [stored EXCEPT !.expanded = Config(n)]
           S(n) == [shown[w] EXCEPT !.config = Config(n), !.open = Open(n)]
<1>2. PICK n \in Navs : Write(w, Store(n), S(n))
    BY DEF ToggleSubNav
<1> DEFINE store == Store(n)
           s == S(n)
           config == Config(n)
           open == Open(n)
<1>3. /\ DOMAIN s = WindowFields /\ \A f \in WindowFields \ {"config", "open"} : s[f] = shown[w][f]
      /\ s.config = config /\ s.open = open
    BY <1>0 DEF WindowGood, WindowFields
<1>4. /\ DOMAIN store = StoreFields /\ \A f \in StoreFields \ {"expanded"} : store[f] = stored[f]
      /\ store.expanded = config
    BY <1>0 DEF StoreGood, StoreSound, StoreFields
<1>5. Write(w, store, s)
    BY Zenon, <1>2
<1>6. /\ config \in Seq(Navs) /\ IsInjective(config) /\ ToSet(config) \subseteq open
      /\ open \subseteq ToSet(config) \union {Landing[shown[w].path]}
  <2> DEFINE c == shown[w].config
  <2>1. /\ c \in Seq(Navs) /\ IsInjective(c) /\ ToSet(c) \subseteq shown[w].open
        /\ shown[w].open \subseteq ToSet(c) \union {Landing[shown[w].path]}
      BY <1>0 DEF WindowGood
  <2> HIDE DEF c
  <2> DEFINE Fits == /\ config \in Seq(Navs) /\ IsInjective(config) /\ ToSet(config) \subseteq open
                     /\ open \subseteq ToSet(config) \union {Landing[shown[w].path]}
  <2>2. ASSUME Opens(n) PROVE Fits
    <3>1. config = Append(c, n) /\ open = shown[w].open \union {n}
        BY <2>2 DEF Configured, c
    <3>2. n \notin ToSet(c)
        BY <2>1, <2>2
    <3>3. /\ Append(c, n) \in Seq(Navs) /\ ToSet(Append(c, n)) = ToSet(c) \union {n}
          /\ IsInjective(Append(c, n))
      <4>1. n \in Navs
          BY <1>2
      <4>2. QED
          BY <2>1, <3>2, <4>1, AppendAdds
    <3> HIDE DEF config, open
    <3>4. QED
        BY <2>1, <3>1, <3>3
  <2>3. ASSUME ~Opens(n) PROVE Fits
    <3>1. config = Without(c, n) /\ open = shown[w].open \ {n}
        BY <2>3 DEF Configured, c
    <3>2. /\ Without(c, n) \in Seq(Navs) /\ ToSet(Without(c, n)) = ToSet(c) \ {n}
          /\ IsInjective(Without(c, n))
        BY Zenon, <2>1, WithoutDrops
    <3> HIDE DEF config, open
    <3>4. QED
        BY <2>1, <3>1, <3>2
  <2>4. QED
      BY Zenon, <2>2, <2>3
<1> HIDE DEF store, s, config, open
<1>7. /\ s.path = shown[w].path /\ s.dictionary = shown[w].dictionary /\ s.toasts = shown[w].toasts
      /\ s.wide = shown[w].wide /\ s.sidebar = shown[w].sidebar /\ s.fullscreen = shown[w].fullscreen
      /\ s.level = shown[w].level /\ s.absent = shown[w].absent /\ s.notice = shown[w].notice
      /\ s.locale = shown[w].locale
    BY <1>3 DEF WindowFields
<1>8. /\ store.fullscreen = stored.fullscreen /\ store.level = stored.level /\ store.lang = stored.lang
    BY <1>4 DEF StoreFields
<1>9. WindowGood(s)
    BY <1>0, <1>3, <1>6, <1>7 DEF WindowGood
<1>10. StoreGood(store)
    BY <1>0, <1>1, <1>4, <1>6, <1>8 DEF StoreGood, StoreSound
<1>11. LastAgrees(s, store)
    BY <1>0, <1>1, <1>3, <1>4, <1>7, <1>8 DEF LastAgrees, RestAgrees
<1>12. QED
    BY Zenon, <1>1, <1>5, <1>8, <1>9, <1>10, <1>11, WriteGood

-----------------------------------------------------------------------------
(* The side bar, full screen, the level and the language.                   *)

SidebarFields == {"sidebar", "wide"}

(* The side bar of a window changes, and the store does not.                 *)
LEMMA SidebarMoves ==
    ASSUME SiteGood, NEW w \in Windows, NEW s, NowShows(w, s), about = "sidebar",
           about' = about, stored' = stored, writer' = writer,
           DOMAIN s = WindowFields, \A f \in WindowFields \ SidebarFields : s[f] = shown[w][f],
           s.sidebar \in BOOLEAN, s.wide \in BOOLEAN,
           stored.sidebar \in {"open", "closed"} /\ s.wide => s.sidebar = (stored.sidebar = "open")
    PROVE  SiteGood'
<1>0. WindowGood(shown[w]) /\ RestAgrees(shown[w], stored)
      /\ (writer = w => LastAgrees(shown[w], stored))
    BY Zenon DEF SiteGood
<1>1. /\ s.path = shown[w].path /\ s.dictionary = shown[w].dictionary /\ s.toasts = shown[w].toasts
      /\ s.config = shown[w].config /\ s.open = shown[w].open /\ s.fullscreen = shown[w].fullscreen
      /\ s.level = shown[w].level /\ s.absent = shown[w].absent /\ s.notice = shown[w].notice
      /\ s.locale = shown[w].locale
    BY DEF WindowFields, SidebarFields
<1>2. WindowGood(s)
    BY <1>0, <1>1 DEF WindowGood
<1>3. RestAgrees(s, stored)
    BY <1>0, <1>1 DEF RestAgrees
<1>4. writer = w => LastAgrees(s, stored)
    BY <1>0, <1>1 DEF LastAgrees
<1>5. QED
    BY Zenon, <1>2, <1>3, <1>4, AloneGood

LEMMA ResizeGood ==
    ASSUME SiteGood, NEW w \in Windows, Resize(w)
    PROVE  SiteGood'
<1>0. WindowGood(shown[w]) /\ DOMAIN shown = Windows
    BY Zenon DEF SiteGood
<1>1. about' = about /\ about = "sidebar" /\ stored' = stored /\ writer' = writer
    BY DEF Resize
<1>2. PICK wide \in BOOLEAN : shown' = [shown EXCEPT ![w].wide = wide, ![w].sidebar = Sidebar(stored, wide)]
    BY Zenon DEF Resize
<1> DEFINE s == [shown[w] EXCEPT !.wide = wide, !.sidebar = Sidebar(stored, wide)]
<1>3. NowShows(w, s)
    BY <1>0, <1>2 DEF NowShows
<1>4. /\ DOMAIN s = WindowFields /\ \A f \in WindowFields \ SidebarFields : s[f] = shown[w][f]
      /\ s.sidebar = Sidebar(stored, wide) /\ s.wide = wide
    BY <1>0 DEF WindowGood, WindowFields, SidebarFields
<1> HIDE DEF s
<1>5. s.sidebar \in BOOLEAN /\ s.wide \in BOOLEAN
    BY <1>4 DEF Sidebar
<1>6. stored.sidebar \in {"open", "closed"} /\ s.wide => s.sidebar = (stored.sidebar = "open")
    BY <1>4 DEF Sidebar
<1>7. QED
    BY Zenon, <1>1, <1>3, <1>4, <1>5, <1>6, SidebarMoves

LEMMA ToggleSidebarGood ==
    ASSUME SiteGood, NEW w \in Windows, ToggleSidebar(w)
    PROVE  SiteGood'
<1>0. WindowGood(shown[w]) /\ RestAgrees(shown[w], stored) /\ StoreGood(stored) /\ DOMAIN shown = Windows
    BY Zenon DEF SiteGood
<1>1. about' = about /\ about = "sidebar"
    BY DEF ToggleSidebar
<1> DEFINE s == [shown[w] EXCEPT !.sidebar = ~@]
<1>2. /\ DOMAIN s = WindowFields /\ \A f \in WindowFields \ SidebarFields : s[f] = shown[w][f]
      /\ s.sidebar = ~shown[w].sidebar /\ s.wide = shown[w].wide
    BY <1>0 DEF WindowGood, WindowFields, SidebarFields
<1>3. s.sidebar \in BOOLEAN /\ s.wide \in BOOLEAN
    BY <1>0, <1>2 DEF WindowGood
<1>4. CASE shown[w].wide
  <2> DEFINE store == [stored EXCEPT !.sidebar = IF shown[w].sidebar THEN "closed" ELSE "open"]
  <2>1. Write(w, store, s)
      BY Zenon, <1>4 DEF ToggleSidebar
  <2>2. /\ DOMAIN store = StoreFields /\ \A f \in StoreFields \ {"sidebar"} : store[f] = stored[f]
        /\ store.sidebar = IF shown[w].sidebar THEN "closed" ELSE "open"
      BY <1>0 DEF StoreGood, StoreSound, StoreFields
  <2> HIDE DEF store, s
  <2>3. /\ s.path = shown[w].path /\ s.dictionary = shown[w].dictionary /\ s.toasts = shown[w].toasts
        /\ s.config = shown[w].config /\ s.open = shown[w].open /\ s.fullscreen = shown[w].fullscreen
        /\ s.level = shown[w].level /\ s.absent = shown[w].absent /\ s.notice = shown[w].notice
        /\ s.locale = shown[w].locale
      BY <1>2 DEF WindowFields, SidebarFields
  <2>4. /\ store.expanded = stored.expanded /\ store.fullscreen = stored.fullscreen
        /\ store.level = stored.level /\ store.lang = stored.lang
      BY <2>2 DEF StoreFields
  <2>5. WindowGood(s)
      BY <1>0, <1>2, <1>3, <2>3 DEF WindowGood
  <2>6. StoreGood(store)
      BY <1>0, <1>1, <2>2, <2>4 DEF StoreGood, StoreSound
  <2>7. s.sidebar = (store.sidebar = "open") /\ store.sidebar \in {"open", "closed"}
      BY <1>2, <2>2, <1>3
  <2>8. LastAgrees(s, store)
      BY <1>0, <1>1, <2>3, <2>4, <2>7 DEF LastAgrees, RestAgrees
  <2>9. QED
      BY Zenon, <1>1, <2>1, <2>4, <2>5, <2>6, <2>8, WriteGood
<1>5. CASE ~shown[w].wide
  <2>1. shown' = [shown EXCEPT ![w].sidebar = ~@] /\ stored' = stored /\ writer' = writer
      BY <1>5 DEF ToggleSidebar
  <2>2. NowShows(w, s)
      BY <1>0, <2>1 DEF NowShows
  <2> HIDE DEF s
  <2>3. QED
      BY Zenon, <1>1, <1>2, <1>3, <1>5, <2>1, <2>2, SidebarMoves
<1>6. QED
    BY <1>4, <1>5

LEMMA ToggleFullscreenGood ==
    ASSUME SiteGood, NEW w \in Windows, ToggleFullscreen(w)
    PROVE  SiteGood'
<1>0. WindowGood(shown[w]) /\ RestAgrees(shown[w], stored) /\ StoreGood(stored)
    BY Zenon DEF SiteGood
<1>1. about' = about /\ about = "fullscreen"
    BY DEF ToggleFullscreen
<1> DEFINE store == [stored EXCEPT !.fullscreen = ~shown[w].fullscreen]
           s == [shown[w] EXCEPT !.fullscreen = ~@]
<1>2. Write(w, store, s)
    BY Zenon DEF ToggleFullscreen
<1>3. /\ DOMAIN s = WindowFields /\ \A f \in WindowFields \ {"fullscreen"} : s[f] = shown[w][f]
      /\ s.fullscreen = ~shown[w].fullscreen
    BY <1>0 DEF WindowGood, WindowFields
<1>4. /\ DOMAIN store = StoreFields /\ \A f \in StoreFields \ {"fullscreen"} : store[f] = stored[f]
      /\ store.fullscreen = ~shown[w].fullscreen
    BY <1>0 DEF StoreGood, StoreSound, StoreFields
<1> HIDE DEF store, s
<1>5. /\ s.path = shown[w].path /\ s.dictionary = shown[w].dictionary /\ s.toasts = shown[w].toasts
      /\ s.config = shown[w].config /\ s.open = shown[w].open /\ s.wide = shown[w].wide
      /\ s.sidebar = shown[w].sidebar /\ s.level = shown[w].level /\ s.absent = shown[w].absent
      /\ s.notice = shown[w].notice /\ s.locale = shown[w].locale
    BY <1>3 DEF WindowFields
<1>6. /\ store.expanded = stored.expanded /\ store.level = stored.level /\ store.lang = stored.lang
    BY <1>4 DEF StoreFields
<1>7. s.fullscreen = store.fullscreen /\ s.fullscreen \in BOOLEAN
    BY <1>3, <1>4
<1>8. WindowGood(s)
    BY <1>0, <1>3, <1>5, <1>7 DEF WindowGood
<1>9. StoreGood(store)
    BY <1>0, <1>1, <1>4, <1>6, <1>7 DEF StoreGood, StoreSound
<1>10. LastAgrees(s, store)
    BY <1>0, <1>1, <1>5, <1>6, <1>7 DEF LastAgrees, RestAgrees
<1>11. QED
    BY Zenon, <1>1, <1>2, <1>6, <1>8, <1>9, <1>10, WriteGood

LEMMA changeApiLevelGood ==
    ASSUME SiteGood, NEW w \in Windows, changeApiLevel(w)
    PROVE  SiteGood'
<1>0. WindowGood(shown[w]) /\ RestAgrees(shown[w], stored) /\ StoreGood(stored)
    BY Zenon DEF SiteGood
<1>1. about' = about /\ about = "level"
    BY DEF changeApiLevel
<1> DEFINE Store(l) == [stored EXCEPT !.level = l]
           S(l) == [shown[w] EXCEPT !.level = l, !.absent = toggleVisisbleApis(l),
                                    !.notice = l < MinLevel[shown[w].path]]
<1>2. PICK l \in Levels : Write(w, Store(l), S(l))
    BY Zenon DEF changeApiLevel
<1> DEFINE store == Store(l)
           s == S(l)
<1>3. /\ DOMAIN s = WindowFields /\ \A f \in WindowFields \ {"level", "absent", "notice"} : s[f] = shown[w][f]
      /\ s.level = l /\ s.absent = {k \in Levels : k > l} /\ s.notice = (l < MinLevel[shown[w].path])
    BY <1>0 DEF WindowGood, WindowFields, toggleVisisbleApis
<1>4. /\ DOMAIN store = StoreFields /\ \A f \in StoreFields \ {"level"} : store[f] = stored[f]
      /\ store.level = l
    BY <1>0 DEF StoreGood, StoreSound, StoreFields
<1>2a. Write(w, store, s)
    BY Zenon, <1>2
<1> HIDE DEF store, s
<1>5. /\ s.path = shown[w].path /\ s.dictionary = shown[w].dictionary /\ s.toasts = shown[w].toasts
      /\ s.config = shown[w].config /\ s.open = shown[w].open /\ s.wide = shown[w].wide
      /\ s.sidebar = shown[w].sidebar /\ s.fullscreen = shown[w].fullscreen /\ s.locale = shown[w].locale
    BY <1>3 DEF WindowFields
<1>6. /\ store.expanded = stored.expanded /\ store.fullscreen = stored.fullscreen /\ store.lang = stored.lang
    BY <1>4 DEF StoreFields
<1>7. l \in Nat \ {0} /\ l \in Int
    BY <1>2, LevelsAre
<1>8. WindowGood(s)
    BY <1>0, <1>3, <1>5, <1>7 DEF WindowGood
<1>9. StoreGood(store)
    BY <1>0, <1>4, <1>6, <1>7 DEF StoreGood, StoreSound, UserLevel
<1>10. LastAgrees(s, store)
    BY <1>0, <1>1, <1>3, <1>4, <1>5, <1>6 DEF LastAgrees, RestAgrees
<1>11. QED
    BY Zenon, <1>1, <1>2a, <1>6, <1>8, <1>9, <1>10, WriteGood

LEMMA changeLangPrefGood ==
    ASSUME SiteGood, NEW w \in Windows, changeLangPref(w)
    PROVE  SiteGood'
<1>0. WindowGood(shown[w]) /\ StoreGood(stored)
    BY Zenon DEF SiteGood
<1>1. about' = about /\ about = "language"
    BY DEF changeLangPref
<1> DEFINE Store(lang) == [stored EXCEPT !.lang = lang]
<1>2. PICK lang \in Langs : Write(w, Store(lang), Page(Store(lang), shown[w].path, lang, shown[w].wide))
    BY Zenon DEF changeLangPref
<1> DEFINE store == Store(lang)
<1>4. DOMAIN store = StoreFields /\ \A f \in StoreFields \ {"lang"} : store[f] = stored[f]
    BY <1>0 DEF StoreGood, StoreSound, StoreFields
<1> HIDE DEF store
<1>6. store.expanded = stored.expanded /\ store.fullscreen = stored.fullscreen /\ store.level = stored.level
    BY <1>4 DEF StoreFields
<1>7. StoreGood(store)
    BY <1>0, <1>1, <1>4, <1>6 DEF StoreGood, StoreSound
<1> DEFINE s == Page(store, shown[w].path, lang, shown[w].wide)
<1>8. shown[w].path \in Paths /\ shown[w].wide \in BOOLEAN
    BY <1>0 DEF WindowGood
<1>9. WindowGood(s) /\ LastAgrees(s, store)
    BY <1>1, <1>7, <1>8, PageGood DEF StoreGood
<1>10. Write(w, store, s)
    BY Zenon, <1>2 DEF store
<1> HIDE DEF s
<1>11. QED
    BY Zenon, <1>1, <1>6, <1>7, <1>9, <1>10, WriteGood

LEMMA SiteGoodStays == SiteGood /\ [SiteNext]_siteVars => SiteGood'
<1> SUFFICES ASSUME SiteGood, [SiteNext]_siteVars PROVE SiteGood'
  OBVIOUS
<1>1. CASE SiteNext
  <2>1. PICK w \in Windows : LoadPage(w) \/ addCurrectPage(w) \/ CloseToast(w) \/ ToggleSubNav(w)
              \/ ToggleSidebar(w) \/ Resize(w) \/ ToggleFullscreen(w)
              \/ changeApiLevel(w) \/ changeLangPref(w)
      BY Zenon, <1>1 DEF SiteNext
  <2>2. QED
      BY Zenon, <2>1, LoadPageGood, addCurrectPageGood, CloseToastGood, ToggleSubNavGood, ToggleSidebarGood,
         ResizeGood, ToggleFullscreenGood, changeApiLevelGood, changeLangPrefGood
<1>2. CASE UNCHANGED siteVars
    BY <1>2 DEF siteVars, SiteGood, StoreGood, StoreSound, WindowGood, RestAgrees, LastAgrees
<1>3. QED
    BY <1>1, <1>2

LEMMA FirstWindows ==
    ASSUME NEW path \in Paths, NEW wide \in BOOLEAN,
           shown = [w \in Windows |-> Page(EmptyStore, path, DefaultLang, wide)],
           SameStore(stored, [EmptyStore EXCEPT !.level = stored.level]), stored.level \in Nat,
           about = "level" => stored.level = UserLevel(stored), writer = NoWindow
    PROVE  SiteGood
<1>1. /\ EmptyStore.sidebar = "unset" /\ DOMAIN EmptyStore = StoreFields /\ EmptyStore.expanded = <<>>
      /\ EmptyStore.level = 0 /\ EmptyStore.fullscreen = FALSE /\ EmptyStore.lang = DefaultLang
    BY DEF EmptyStore, StoreFields
<1>2. EmptyStore.expanded \in Seq(Navs) /\ IsInjective(EmptyStore.expanded) /\ EmptyStore.level \in Nat
    BY <1>1 DEF IsInjective
<1>2a. EmptyStore.fullscreen \in BOOLEAN
    BY Zenon, <1>1
<1>3. StoreSound(EmptyStore)
    BY Zenon, <1>1, <1>2, <1>2a DEF StoreSound
<1> DEFINE s == Page(EmptyStore, path, DefaultLang, wide)
<1>4. WindowGood(s) /\ RestAgrees(s, EmptyStore)
    BY <1>3, PageGood
<1>5. /\ DOMAIN stored = StoreFields /\ stored.expanded = EmptyStore.expanded
      /\ stored.fullscreen = EmptyStore.fullscreen /\ stored.lang = EmptyStore.lang
    BY <1>1 DEF SameStore, StoreFields
<1>6. StoreGood(stored)
    BY <1>1, <1>2, <1>5 DEF StoreGood, StoreSound
<1>7. RestAgrees(s, stored)
    BY <1>4, <1>5 DEF RestAgrees
<1>8. DOMAIN shown = Windows /\ \A w \in Windows : shown[w] = s /\ writer # w
    BY SiteAssumption
<1> HIDE DEF s
<1>9. QED
    BY Zenon, <1>4, <1>6, <1>7, <1>8 DEF SiteGood

LEMMA SiteStarts == SiteInit \/ SiteRest => SiteGood
<1>1. DOMAIN EmptyStore = StoreFields /\ EmptyStore.level = 0
    BY DEF EmptyStore, StoreFields
<1>3. ASSUME SiteInit PROVE SiteGood
  <2>1. writer = NoWindow /\ stored = Loaded(EmptyStore)
      BY <1>3 DEF SiteInit
  <2>2. PICK wide \in BOOLEAN, path \in Paths :
            shown = [w \in Windows |-> Page(EmptyStore, path, DefaultLang, wide)]
      BY Zenon, <1>3 DEF SiteInit
  <2>3. /\ stored.level = IF about = "level" THEN UserLevel(EmptyStore) ELSE 0
        /\ SameStore(stored, [EmptyStore EXCEPT !.level = stored.level])
      BY <1>1, <2>1 DEF Loaded, SameStore, StoreFields
  <2>4. stored.level \in Nat
      BY <1>1, <2>3, LevelsAre
  <2>5. about = "level" => stored.level = UserLevel(stored)
      BY <1>1, <2>3, LevelsAre DEF UserLevel
  <2>6. QED
      BY Zenon, <2>1, <2>2, <2>3, <2>4, <2>5, FirstWindows
<1>4. ASSUME SiteRest PROVE SiteGood
  <2>1. writer = NoWindow /\ stored = EmptyStore /\ about = "visits"
      BY <1>4 DEF SiteRest
  <2>2. (CHOOSE p \in Paths : TRUE) \in Paths
      BY SiteAssumption
  <2>3. shown = [w \in Windows |-> Page(EmptyStore, CHOOSE p \in Paths : TRUE, DefaultLang, TRUE)]
      BY Zenon, <1>4 DEF SiteRest
  <2>4. /\ stored.level = 0 /\ SameStore(stored, [EmptyStore EXCEPT !.level = stored.level])
      BY <1>1, <2>1 DEF SameStore, StoreFields
  <2>5. stored.level \in Nat /\ about # "level"
      BY <2>1, <2>4
  <2>6. QED
      BY <2>1, <2>2, <2>3, <2>4, <2>5, FirstWindows
<1>5. QED
    BY <1>3, <1>4

-----------------------------------------------------------------------------
(* The pages visited last.                                                  *)

(* The pages visited: those that the store keeps (v), and all of them (t).   *)
VisitSet == [path : Paths, hit : Nat]

VisitsOf(t, q) == {i \in DOMAIN t : t[i] = q}

IsLast(t, q, i) == i \in DOMAIN t /\ t[i] = q /\ \A j \in DOMAIN t : t[j] = q => j <= i

PathsOf(v) == {v[i].path : i \in DOMAIN v}

TrailGood(t) ==
    /\ t \in Seq(Paths) /\ IsFiniteSet(ToSet(t))
    /\ \A q \in ToSet(t) : \E i : IsLast(t, q, i)

InOrder(v, t) ==
    \A i, j \in DOMAIN v : i < j =>
       \A a, b : IsLast(t, v[i].path, a) /\ IsLast(t, v[j].path, b) => a < b

Before(q, v, t) == \A i \in DOMAIN v : \A a, b : IsLast(t, q, a) /\ IsLast(t, v[i].path, b) => a < b

(* The hits of a page kept are its visits, or fewer once a page was lost.    *)
Counted(e, t) ==
    /\ e.hit <= Cardinality(VisitsOf(t, e.path))
    /\ Cardinality(ToSet(t)) <= PAGES_TO_STORE_ => e.hit = Cardinality(VisitsOf(t, e.path))

KeepsLatest(v, t) ==
    /\ v \in Seq(VisitSet) /\ PathsOf(v) \subseteq ToSet(t) /\ InOrder(v, t)
    /\ \A q \in ToSet(t) \ PathsOf(v) : Before(q, v, t)

VisitsGood(v, t) ==
    /\ TrailGood(t) /\ KeepsLatest(v, t)
    /\ Len(v) = IF Cardinality(ToSet(t)) < PAGES_TO_STORE_ THEN Cardinality(ToSet(t)) ELSE PAGES_TO_STORE_
    /\ Cardinality(ToSet(t)) <= PAGES_TO_STORE_ => ToSet(t) \subseteq PathsOf(v)
    /\ \A i \in DOMAIN v : Counted(v[i], t)

(* What one more visit changes.                                              *)
OneMore(u, t, p) ==
    /\ TrailGood(u) /\ ToSet(u) = ToSet(t) \union {p} /\ IsLast(u, p, Len(t) + 1)
    /\ \A q, i : q # p => (IsLast(u, q, i) <=> IsLast(t, q, i))
    /\ \A q : q # p => VisitsOf(u, q) = VisitsOf(t, q)
    /\ VisitsOf(u, p) = VisitsOf(t, p) \union {Len(t) + 1}
    /\ \A q, i : IsLast(t, q, i) => i < Len(t) + 1

LEMMA TrailGrows ==
    ASSUME NEW t, TrailGood(t), NEW p \in Paths, NEW u, u = Append(t, p)
    PROVE  OneMore(u, t, p)
<1>1. /\ t \in Seq(Paths) /\ Len(t) \in Nat /\ DOMAIN t = 1 .. Len(t) /\ u \in Seq(Paths)
      /\ DOMAIN u = DOMAIN t \union {Len(t) + 1} /\ Len(t) + 1 \notin DOMAIN t
      /\ u[Len(t) + 1] = p /\ \A i \in DOMAIN t : u[i] = t[i]
    BY DEF TrailGood
<1>2. ToSet(u) = ToSet(t) \union {p}
  <2>1. /\ DOMAIN u = DOMAIN t \union {Len(t) + 1} /\ u[Len(t) + 1] = p
        /\ \A i \in DOMAIN t : u[i] = t[i]
    BY <1>1
  <2>2. ToSet(u) \subseteq ToSet(t) \union {p}
    BY <2>1 DEF ToSet
  <2>3. p \in ToSet(u) /\ ToSet(t) \subseteq ToSet(u)
    BY <2>1 DEF ToSet
  <2> QED
    BY <2>2, <2>3
<1>3. \A q, i : q # p => (IsLast(u, q, i) <=> IsLast(t, q, i))
    BY <1>1 DEF IsLast
<1>4. (\A q : q # p => VisitsOf(u, q) = VisitsOf(t, q)) /\ VisitsOf(u, p) = VisitsOf(t, p) \union {Len(t) + 1}
    BY <1>1 DEF VisitsOf
<1>5. \A q, i : IsLast(t, q, i) => i < Len(t) + 1
    BY <1>1 DEF IsLast
<1>6. IsLast(u, p, Len(t) + 1)
    BY <1>1 DEF IsLast
<1>7. IsFiniteSet(ToSet(u))
    BY <1>2, FS_AddElement DEF TrailGood
<1>8. \A q \in ToSet(u) : \E i : IsLast(u, q, i)
    BY Zenon, <1>2, <1>3, <1>6 DEF TrailGood
<1>9. QED
    BY Zenon, <1>1, <1>2, <1>3, <1>4, <1>5, <1>6, <1>7, <1>8 DEF TrailGood, OneMore

(* The page visited now comes after those that are kept.                     *)
ReadyFor(v, t, p) ==
    /\ v \in Seq(VisitSet) /\ p \notin PathsOf(v) /\ PathsOf(v) \subseteq ToSet(t) /\ InOrder(v, t)
    /\ \A q \in ToSet(t) \ (PathsOf(v) \union {p}) : Before(q, v, t)

EndsWith(x, v, p, h) ==
    /\ PathsOf(x) = PathsOf(v) \union {p} /\ Len(x) = Len(v) + 1
    /\ DOMAIN x = DOMAIN v \union {Len(v) + 1} /\ \A i \in DOMAIN v : x[i] = v[i]
    /\ x[Len(v) + 1].path = p /\ x[Len(v) + 1].hit = h

LEMMA LatestAtTheEnd ==
    ASSUME NEW t, TrailGood(t), NEW p \in Paths, NEW v, ReadyFor(v, t, p),
           NEW h \in Nat, NEW x, x = Append(v, [path |-> p, hit |-> h]), NEW u, u = Append(t, p)
    PROVE  KeepsLatest(x, u) /\ EndsWith(x, v, p, h)
<1>0. /\ v \in Seq(VisitSet) /\ p \notin PathsOf(v) /\ PathsOf(v) \subseteq ToSet(t) /\ InOrder(v, t)
      /\ \A q \in ToSet(t) \ (PathsOf(v) \union {p}) : Before(q, v, t)
    BY Zenon DEF ReadyFor
<1>1. [path |-> p, hit |-> h] \in VisitSet
    BY DEF VisitSet
<1>2. /\ x \in Seq(VisitSet) /\ Len(v) \in Nat /\ Len(x) = Len(v) + 1 /\ DOMAIN v = 1 .. Len(v)
      /\ DOMAIN x = DOMAIN v \union {Len(v) + 1} /\ x[Len(v) + 1] = [path |-> p, hit |-> h]
      /\ \A i \in DOMAIN v : x[i] = v[i] /\ i \in Nat /\ i < Len(v) + 1
    BY <1>0, <1>1
<1>3. x[Len(v) + 1].path = p /\ x[Len(v) + 1].hit = h
    BY <1>2
<1>4. PathsOf(x) = PathsOf(v) \union {p}
  <2>1. \A q \in PathsOf(x) : q \in PathsOf(v) \/ q = p
      BY <1>2, <1>3 DEF PathsOf
  <2>2. \A q \in PathsOf(v) : q \in PathsOf(x)
      BY <1>2 DEF PathsOf
  <2>3. p \in PathsOf(x)
      BY <1>2, <1>3 DEF PathsOf
  <2>4. QED
      BY <2>1, <2>2, <2>3
<1>5. /\ ToSet(u) = ToSet(t) \union {p} /\ IsLast(u, p, Len(t) + 1)
      /\ \A q, i : q # p => (IsLast(u, q, i) <=> IsLast(t, q, i))
      /\ \A q, i : IsLast(t, q, i) => i < Len(t) + 1
  <2>1. OneMore(u, t, p)
      BY Zenon, TrailGrows
  <2>2. QED
      BY Zenon, <2>1 DEF OneMore
<1>6. \A i \in DOMAIN v : v[i].path # p /\ v[i].path \in PathsOf(v)
    BY Zenon, <1>0 DEF PathsOf
<1>7. \A a : IsLast(u, p, a) => a = Len(t) + 1
  <2>1. \A i, j : IsLast(u, p, i) /\ IsLast(u, p, j) => i <= j /\ j <= i
      BY Zenon DEF IsLast
  <2>2. u \in Seq(Paths)
      BY TrailGrows DEF TrailGood, OneMore
  <2>3. \A i : IsLast(u, p, i) => i \in Int
      BY <2>2 DEF IsLast
  <2> SUFFICES ASSUME NEW a, IsLast(u, p, a) PROVE a = Len(t) + 1
      OBVIOUS
  <2>4. a \in Int /\ Len(t) + 1 \in Int /\ a <= Len(t) + 1 /\ Len(t) + 1 <= a
      BY Zenon, <1>5, <2>1, <2>3
  <2>5. QED
      BY <2>4
<1>8. ASSUME NEW q, q # p, Before(q, v, t) PROVE Before(q, x, u)
  <2> SUFFICES ASSUME NEW i \in DOMAIN x, NEW a, NEW b, IsLast(u, q, a), IsLast(u, x[i].path, b)
               PROVE  a < b
      BY Zenon DEF Before
  <2>1. IsLast(t, q, a)
      BY Zenon, <1>5, <1>8
  <2>2. CASE i = Len(v) + 1
    <3>1. b = Len(t) + 1
        BY Zenon, <1>3, <1>7, <2>2
    <3>2. QED
        BY Zenon, <1>5, <2>1, <3>1
  <2>3. CASE i \in DOMAIN v
    <3>1. IsLast(t, v[i].path, b)
        BY Zenon, <1>2, <1>5, <1>6, <2>3
    <3>2. QED
        BY Zenon, <1>8, <2>1, <2>3, <3>1 DEF Before
  <2>4. QED
      BY <1>2, <2>2, <2>3
<1>9. InOrder(x, u)
  <2> SUFFICES ASSUME NEW i \in DOMAIN x, NEW j \in DOMAIN x, i < j, NEW a, NEW b,
                      IsLast(u, x[i].path, a), IsLast(u, x[j].path, b)
               PROVE  a < b
      BY Zenon DEF InOrder
  <2>1. i \in DOMAIN v
      BY <1>2
  <2>2. IsLast(t, v[i].path, a) /\ x[i] = v[i]
      BY Zenon, <1>2, <1>5, <1>6, <2>1
  <2>3. CASE j = Len(v) + 1
    <3>1. b = Len(t) + 1
        BY Zenon, <1>3, <1>7, <2>3
    <3>2. QED
        BY Zenon, <1>5, <2>2, <3>1
  <2>4. CASE j \in DOMAIN v
    <3>1. IsLast(t, v[j].path, b)
        BY Zenon, <1>2, <1>5, <1>6, <2>4
    <3>2. QED
        BY Zenon, <1>0, <2>1, <2>2, <2>4, <3>1 DEF InOrder
  <2>5. QED
      BY <1>2, <2>3, <2>4
<1>10. \A q \in ToSet(u) \ PathsOf(x) : Before(q, x, u)
    BY Zenon, <1>0, <1>4, <1>5, <1>8
<1>11. PathsOf(x) \subseteq ToSet(u)
    BY Zenon, <1>0, <1>4, <1>5
<1>12. KeepsLatest(x, u)
    BY Zenon, <1>2, <1>9, <1>10, <1>11 DEF KeepsLatest
<1>13. QED
    BY Zenon, <1>2, <1>3, <1>4, <1>12 DEF EndsWith

(* No page is kept twice.                                                    *)
LEMMA KeptOnce ==
    ASSUME NEW t, TrailGood(t), NEW v, KeepsLatest(v, t), NEW i \in DOMAIN v, NEW j \in DOMAIN v,
           v[i].path = v[j].path
    PROVE  i = j
<1>1. DOMAIN v = 1 .. Len(v) /\ Len(v) \in Nat
    BY DEF KeepsLatest
<1>2. v[i].path \in ToSet(t)
    BY Zenon DEF KeepsLatest, PathsOf
<1>3. PICK a : IsLast(t, v[i].path, a)
    BY Zenon, <1>2 DEF TrailGood
<1>4. a \in Int
    BY <1>3 DEF IsLast, TrailGood
<1>5. i < j \/ j < i => a < a
    BY Zenon, <1>3 DEF KeepsLatest, InOrder
<1>6. QED
    BY <1>1, <1>4, <1>5

(* v without its k-th page.                                                  *)
Drops(u, v, k) ==
    /\ u \in Seq(VisitSet) /\ Len(u) = Len(v) - 1
    /\ \A i \in 1 .. Len(v) - 1 : u[i] = v[IF i < k THEN i ELSE i + 1]

LEMMA RemoveDrops ==
    ASSUME NEW v \in Seq(VisitSet), NEW k \in DOMAIN v
    PROVE  Drops(RemoveAt(v, k), v, k)
<1> DEFINE r == RemoveAt(v, k)
<1>1. /\ r \in Seq(VisitSet) /\ Len(r) = Len(v) - 1
      /\ \A i \in 1 .. Len(v) - 1 : r[i] = IF i < k THEN v[i] ELSE v[i + 1]
    BY Removed
<1> HIDE DEF r
<1>2. \A i \in 1 .. Len(v) - 1 : r[i] = v[IF i < k THEN i ELSE i + 1]
    BY <1>1
<1>3. QED
    BY <1>1, <1>2 DEF Drops, r

LEMMA TailDrops ==
    ASSUME NEW v \in Seq(VisitSet), v # <<>>
    PROVE  Drops(Tail(v), v, 1)
<1>1. /\ Tail(v) \in Seq(VisitSet) /\ Len(Tail(v)) = Len(v) - 1
      /\ \A i \in 1 .. Len(Tail(v)) : Tail(v)[i] = v[i + 1]
    BY HeadTailProperties
<1>2. \A i \in 1 .. Len(v) - 1 : ~(i < 1)
    OBVIOUS
<1>3. QED
    BY <1>1, <1>2 DEF Drops

(* What is left when a page is dropped is still in order.                    *)
LeftOf(u, v, k, t) ==
    /\ PathsOf(u) = PathsOf(v) \ {v[k].path} /\ InOrder(u, t)
    /\ \A q : Before(q, v, t) => Before(q, u, t)
    /\ k = 1 => Before(v[k].path, u, t)
    /\ \A i \in DOMAIN u : \E j \in DOMAIN v : u[i] = v[j]

LEMMA DroppedKept ==
    ASSUME NEW t, TrailGood(t), NEW v, KeepsLatest(v, t), NEW k \in DOMAIN v, NEW u, Drops(u, v, k)
    PROVE  LeftOf(u, v, k, t)
<1> DEFINE Place(i) == IF i < k THEN i ELSE i + 1
<1>1. /\ v \in Seq(VisitSet) /\ Len(v) \in Nat /\ DOMAIN v = 1 .. Len(v) /\ k \in 1 .. Len(v)
      /\ DOMAIN u = 1 .. Len(v) - 1 /\ \A i \in DOMAIN u : u[i] = v[Place(i)]
    BY DEF KeepsLatest, Drops
<1>2. /\ \A i \in DOMAIN u : Place(i) \in DOMAIN v \ {k}
      /\ \A i, j \in DOMAIN u : i < j => Place(i) < Place(j)
      /\ \A j \in DOMAIN v \ {k} : \E i \in DOMAIN u : Place(i) = j
  <2>1. \A i \in DOMAIN u : Place(i) \in DOMAIN v \ {k}
      BY <1>1
  <2>2. \A i, j \in DOMAIN u : i < j => Place(i) < Place(j)
      BY <1>1
  <2>3. ASSUME NEW j \in DOMAIN v \ {k} PROVE \E i \in DOMAIN u : Place(i) = j
    <3>1. CASE j < k
      <4>1. j \in DOMAIN u /\ Place(j) = j
          BY <1>1, <3>1
      <4>2. QED
          BY <4>1
    <3>2. CASE k < j
      <4>1. j - 1 \in DOMAIN u /\ Place(j - 1) = j
          BY <1>1, <3>2
      <4>2. QED
          BY <4>1
    <3>3. QED
        BY <1>1, <3>1, <3>2
  <2>4. QED
      BY <2>1, <2>2, <2>3
<1> HIDE DEF Place
<1>3. PathsOf(u) = PathsOf(v) \ {v[k].path}
  <2>1. \A j \in DOMAIN v \ {k} : v[j].path # v[k].path
      BY Zenon, KeptOnce
  <2>2. PathsOf(u) = {v[j].path : j \in DOMAIN v \ {k}}
    <3>1. \A i \in DOMAIN u : u[i].path \in {v[j].path : j \in DOMAIN v \ {k}}
        BY <1>1, <1>2
    <3>2. \A j \in DOMAIN v \ {k} : v[j].path \in PathsOf(u)
        BY <1>1, <1>2 DEF PathsOf
    <3>3. QED
        BY <3>1, <3>2 DEF PathsOf
  <2>3. QED
      BY Zenon, <2>1, <2>2 DEF PathsOf
<1>4. InOrder(u, t)
  <2> SUFFICES ASSUME NEW i \in DOMAIN u, NEW j \in DOMAIN u, i < j, NEW a, NEW b,
                      IsLast(t, u[i].path, a), IsLast(t, u[j].path, b)
               PROVE  a < b
      BY Zenon DEF InOrder
  <2>1. Place(i) \in DOMAIN v /\ Place(j) \in DOMAIN v /\ Place(i) < Place(j)
      BY Zenon, <1>2
  <2>2. IsLast(t, v[Place(i)].path, a) /\ IsLast(t, v[Place(j)].path, b)
      BY Zenon, <1>1
  <2>3. QED
      BY Zenon, <2>1, <2>2 DEF KeepsLatest, InOrder
<1>5. \A q : Before(q, v, t) => Before(q, u, t)
    BY Zenon, <1>1, <1>2 DEF Before
<1>6. ASSUME k = 1 PROVE Before(v[k].path, u, t)
  <2> SUFFICES ASSUME NEW i \in DOMAIN u, NEW a, NEW b,
                      IsLast(t, v[k].path, a), IsLast(t, u[i].path, b)
               PROVE  a < b
      BY Zenon DEF Before
  <2>1. Place(i) \in DOMAIN v /\ k < Place(i)
      BY <1>1, <1>2, <1>6
  <2>2. IsLast(t, v[Place(i)].path, b)
      BY Zenon, <1>1
  <2>3. QED
      BY Zenon, <2>1, <2>2 DEF KeepsLatest, InOrder
<1>7. QED
    BY Zenon, <1>1, <1>2, <1>3, <1>4, <1>5, <1>6 DEF LeftOf

-----------------------------------------------------------------------------
(* One more visit.                                                          *)

Known(v, p) == {i \in DOMAIN v : v[i].path = p}

(* The list after a visit: the page that is known is taken out, the first    *)
(* one when the list is full, or none.                                       *)
LEMMA VisitedIs ==
    ASSUME NEW t, TrailGood(t), NEW v, KeepsLatest(v, t), NEW p
    PROVE  /\ \A k \in Known(v, p) :
                Visited(v, p) = Append(RemoveAt(v, k), [path |-> p, hit |-> v[k].hit + 1])
           /\ Known(v, p) = {} =>
                Visited(v, p) = Append(IF Len(v) >= PAGES_TO_STORE_ THEN Tail(v) ELSE v, [path |-> p, hit |-> 1])
<1>1. ASSUME NEW k \in Known(v, p)
      PROVE  Visited(v, p) = Append(RemoveAt(v, k), [path |-> p, hit |-> v[k].hit + 1])
  <2> DEFINE at == {i \in DOMAIN v : v[i].path = p}
             i == CHOOSE i \in at : \A j \in at : j <= i
  <2>1. k \in at /\ \A j \in at : j = k
      BY Zenon, KeptOnce DEF Known
  <2>2. k <= k
      BY DEF Known, KeepsLatest
  <2>3. i \in at
      BY Zenon, <2>1, <2>2
  <2>4. i = k
      BY Zenon, <2>1, <2>3
  <2>5. Visited(v, p) = Append(RemoveAt(v, i), [path |-> p, hit |-> v[i].hit + 1])
      BY Zenon, <2>1 DEF Visited
  <2> HIDE DEF i
  <2>6. QED
      BY Zenon, <2>4, <2>5
<1>2. ASSUME Known(v, p) = {}
      PROVE  Visited(v, p) = Append(IF Len(v) >= PAGES_TO_STORE_ THEN Tail(v) ELSE v, [path |-> p, hit |-> 1])
    BY Zenon, <1>2 DEF Visited, Known
<1>3. QED
    BY <1>1, <1>2

(* The pages kept but for this one are counted as they were.                 *)
LEMMA CountsStay ==
    ASSUME NEW t, TrailGood(t), NEW p \in Paths, NEW u, u = Append(t, p), NEW e, Counted(e, t), e.path # p
    PROVE  Counted(e, u)
<1>0. OneMore(u, t, p)
    BY Zenon, TrailGrows
<1>1. VisitsOf(u, e.path) = VisitsOf(t, e.path) /\ ToSet(u) = ToSet(t) \union {p}
    BY Zenon, <1>0 DEF OneMore
<1>2. IsFiniteSet(ToSet(t))
    BY DEF TrailGood
<1>3. Cardinality(ToSet(t)) \in Nat /\ Cardinality(ToSet(u)) \in Nat /\ Cardinality(ToSet(t)) <= Cardinality(ToSet(u))
  <2>1. Cardinality(ToSet(t)) \in Nat
      BY <1>2, FS_CardinalityType
  <2>2. Cardinality(ToSet(u)) = IF p \in ToSet(t) THEN Cardinality(ToSet(t)) ELSE Cardinality(ToSet(t)) + 1
      BY <1>1, <1>2, FS_AddElement
  <2>3. QED
      BY <2>1, <2>2
<1>4. PAGES_TO_STORE_ \in Nat
    BY SiteAssumption
<1>5. QED
    BY <1>1, <1>3, <1>4 DEF Counted

(* One more visit is counted.                                                *)
LEMMA VisitsCounted ==
    ASSUME NEW t, TrailGood(t), NEW p \in Paths, NEW u, u = Append(t, p)
    PROVE  /\ Cardinality(VisitsOf(t, p)) \in Nat
           /\ Cardinality(VisitsOf(u, p)) = Cardinality(VisitsOf(t, p)) + 1
           /\ p \notin ToSet(t) => Cardinality(VisitsOf(t, p)) = 0
<1>0. OneMore(u, t, p)
    BY Zenon, TrailGrows
<1>1. VisitsOf(u, p) = VisitsOf(t, p) \union {Len(t) + 1}
    BY Zenon, <1>0 DEF OneMore
<1>2. t \in Seq(Paths) /\ Len(t) \in Nat /\ DOMAIN t = 1 .. Len(t)
    BY DEF TrailGood
<1>3. IsFiniteSet(DOMAIN t)
    BY <1>2, FS_Interval
<1>4. VisitsOf(t, p) \in SUBSET (DOMAIN t) /\ Len(t) + 1 \notin VisitsOf(t, p)
    BY <1>2 DEF VisitsOf
<1>5. IsFiniteSet(VisitsOf(t, p))
    BY <1>3, <1>4, FS_Subset
<1>6. Cardinality(VisitsOf(u, p)) = Cardinality(VisitsOf(t, p)) + 1
    BY <1>1, <1>4, <1>5, FS_AddElement
<1>7. p \notin ToSet(t) => VisitsOf(t, p) = {}
    BY Zenon DEF VisitsOf, ToSet
<1>8. QED
    BY <1>5, <1>6, <1>7, FS_EmptySet, FS_CardinalityType

LEMMA VisitKnown ==
    ASSUME NEW t, NEW v, VisitsGood(v, t), NEW p \in Paths, NEW k \in DOMAIN v, v[k].path = p,
           NEW u, u = Append(t, p), NEW x, x = Append(RemoveAt(v, k), [path |-> p, hit |-> v[k].hit + 1])
    PROVE  VisitsGood(x, u)
<1> DEFINE r == RemoveAt(v, k)
<1>1. /\ TrailGood(t) /\ KeepsLatest(v, t) /\ v \in Seq(VisitSet) /\ Len(v) \in Nat /\ DOMAIN v = 1 .. Len(v)
      /\ k \in 1 .. Len(v)
    BY DEF VisitsGood, KeepsLatest
<1>2. v[k].hit \in Nat
  <2>1. v[k] \in VisitSet
      BY <1>1
  <2>2. QED
      BY <2>1 DEF VisitSet
<1>3. Drops(r, v, k)
    BY <1>1, RemoveDrops
<1> HIDE DEF r
<1>4. /\ PathsOf(r) = PathsOf(v) \ {p} /\ InOrder(r, t)
      /\ \A q : Before(q, v, t) => Before(q, r, t)
      /\ \A i \in DOMAIN r : \E j \in DOMAIN v : r[i] = v[j]
  <2>1. LeftOf(r, v, k, t)
      BY Zenon, <1>1, <1>3, DroppedKept
  <2>2. QED
      BY Zenon, <2>1 DEF LeftOf
<1>5. r \in Seq(VisitSet) /\ Len(r) = Len(v) - 1 /\ DOMAIN r = 1 .. Len(v) - 1
    BY <1>1, <1>3 DEF Drops
<1>6. p \in PathsOf(v) /\ PathsOf(v) \subseteq ToSet(t) /\ p \in ToSet(t)
    BY Zenon, <1>1 DEF PathsOf, KeepsLatest
<1>7. \A q \in ToSet(t) \ (PathsOf(r) \union {p}) : Before(q, r, t)
    BY Zenon, <1>1, <1>4 DEF KeepsLatest
<1>8. v[k].hit + 1 \in Nat /\ p \notin PathsOf(r) /\ PathsOf(r) \subseteq ToSet(t)
    BY <1>2, <1>4, <1>6
<1>9. x = Append(r, [path |-> p, hit |-> v[k].hit + 1])
    BY DEF r
<1>9a. ReadyFor(r, t, p)
    BY Zenon, <1>4, <1>5, <1>7, <1>8 DEF ReadyFor
<1>9b. KeepsLatest(x, u) /\ EndsWith(x, r, p, v[k].hit + 1) /\ OneMore(u, t, p)
    BY Zenon, <1>1, <1>8, <1>9, <1>9a, LatestAtTheEnd, TrailGrows
<1>10. /\ KeepsLatest(x, u) /\ PathsOf(x) = PathsOf(r) \union {p} /\ Len(x) = Len(r) + 1
       /\ DOMAIN x = DOMAIN r \union {Len(r) + 1} /\ \A i \in DOMAIN r : x[i] = r[i]
       /\ x[Len(r) + 1].path = p /\ x[Len(r) + 1].hit = v[k].hit + 1
    BY Zenon, <1>9b DEF EndsWith
<1>11. TrailGood(u) /\ ToSet(u) = ToSet(t)
  <2>1. TrailGood(u) /\ ToSet(u) = ToSet(t) \union {p}
      BY Zenon, <1>9b DEF OneMore
  <2>2. QED
      BY <1>6, <2>1
<1>12. PathsOf(x) = PathsOf(v)
  <2>1. PathsOf(x) = PathsOf(r) \union {p} /\ PathsOf(r) = PathsOf(v) \ {p}
      BY Zenon, <1>4, <1>10
  <2>2. QED
      BY <1>6, <2>1
<1>13. Len(x) = Len(v)
  <2>1. Len(x) = Len(r) + 1 /\ Len(r) = Len(v) - 1 /\ Len(v) \in Nat
      BY Zenon, <1>1, <1>5, <1>10
  <2>2. QED
      BY <2>1
<1>14. \A i \in DOMAIN r : Counted(x[i], u)
  <2> SUFFICES ASSUME NEW i \in DOMAIN r PROVE Counted(x[i], u)
      OBVIOUS
  <2>1. x[i] = r[i] /\ r[i].path \in PathsOf(r)
      BY Zenon, <1>10 DEF PathsOf
  <2>2. PICK j \in DOMAIN v : r[i] = v[j]
      BY Zenon, <1>4
  <2>3. Counted(r[i], t)
      BY Zenon, <2>2 DEF VisitsGood
  <2>4. r[i].path # p
      BY <1>8, <2>1
  <2>5. QED
      BY Zenon, <1>1, <2>1, <2>3, <2>4, CountsStay
<1>15. Counted(x[Len(r) + 1], u)
  <2>1. Counted(v[k], t)
      BY Zenon DEF VisitsGood
  <2>2. Cardinality(VisitsOf(t, p)) \in Nat /\ Cardinality(VisitsOf(u, p)) = Cardinality(VisitsOf(t, p)) + 1
      BY Zenon, <1>1, VisitsCounted
  <2>4. QED
      BY <1>2, <1>10, <1>11, <2>1, <2>2 DEF Counted
<1>16. \A i \in DOMAIN x : Counted(x[i], u)
    BY Zenon, <1>10, <1>14, <1>15
<1>17. QED
    BY Zenon, <1>10, <1>11, <1>12, <1>13, <1>16 DEF VisitsGood

LEMMA VisitNew ==
    ASSUME NEW t, NEW v, VisitsGood(v, t), NEW p \in Paths, p \notin PathsOf(v),
           NEW u, u = Append(t, p), NEW r, r = IF Len(v) >= PAGES_TO_STORE_ THEN Tail(v) ELSE v,
           NEW x, x = Append(r, [path |-> p, hit |-> 1])
    PROVE  VisitsGood(x, u)
<1> DEFINE n == Cardinality(ToSet(t))
<1>1. /\ TrailGood(t) /\ KeepsLatest(v, t) /\ v \in Seq(VisitSet) /\ Len(v) \in Nat /\ DOMAIN v = 1 .. Len(v)
      /\ IsFiniteSet(ToSet(t)) /\ PathsOf(v) \subseteq ToSet(t)
    BY DEF VisitsGood, KeepsLatest, TrailGood
<1>2. n \in Nat /\ PAGES_TO_STORE_ \in Nat \ {0}
    BY <1>1, FS_CardinalityType, SiteAssumption
<1>3. Len(v) = (IF n < PAGES_TO_STORE_ THEN n ELSE PAGES_TO_STORE_) /\ (n <= PAGES_TO_STORE_ => ToSet(t) \subseteq PathsOf(v))
    BY DEF VisitsGood
<1>4. TrailGood(u) /\ ToSet(u) = ToSet(t) \union {p}
  <2>1. OneMore(u, t, p)
      BY Zenon, <1>1, TrailGrows
  <2>2. QED
      BY Zenon, <2>1 DEF OneMore
<1>5. Cardinality(ToSet(u)) = IF p \in ToSet(t) THEN n ELSE n + 1
    BY <1>1, <1>4, FS_AddElement
<1>6. /\ r \in Seq(VisitSet) /\ PathsOf(r) \subseteq PathsOf(v) /\ InOrder(r, t)
      /\ \A q \in ToSet(t) \ (PathsOf(r) \union {p}) : Before(q, r, t)
      /\ \A i \in DOMAIN r : \E j \in DOMAIN v : r[i] = v[j]
      /\ Len(r) = IF n < PAGES_TO_STORE_ THEN n ELSE PAGES_TO_STORE_ - 1
      /\ n < PAGES_TO_STORE_ => r = v
  <2>1. CASE n < PAGES_TO_STORE_
    <3>1. r = v /\ Len(r) = n
        BY <1>1, <1>2, <1>3, <2>1
    <3>2. QED
        BY <1>1, <2>1, <3>1 DEF KeepsLatest
  <2>2. CASE ~(n < PAGES_TO_STORE_)
    <3>1. r = Tail(v) /\ Len(v) = PAGES_TO_STORE_ /\ v # <<>> /\ 1 \in DOMAIN v
        BY <1>1, <1>2, <1>3, <2>2
    <3>2. Drops(r, v, 1)
        BY <1>1, <3>1, TailDrops
    <3>3. /\ PathsOf(r) = PathsOf(v) \ {v[1].path} /\ InOrder(r, t)
          /\ \A q : Before(q, v, t) => Before(q, r, t)
          /\ Before(v[1].path, r, t)
          /\ \A i \in DOMAIN r : \E j \in DOMAIN v : r[i] = v[j]
      <4>1. LeftOf(r, v, 1, t)
          BY Zenon, <1>1, <3>1, <3>2, DroppedKept
      <4>2. QED
          BY Zenon, <4>1 DEF LeftOf
    <3>4. r \in Seq(VisitSet) /\ Len(r) = PAGES_TO_STORE_ - 1
        BY <3>1, <3>2 DEF Drops
    <3>5. ASSUME NEW q \in ToSet(t) \ (PathsOf(r) \union {p}) PROVE Before(q, r, t)
      <4>1. CASE q = v[1].path
          BY Zenon, <3>3, <4>1
      <4>2. CASE q # v[1].path
        <5>1. q \in ToSet(t) \ PathsOf(v)
            BY <3>3, <3>5, <4>2
        <5>2. QED
            BY Zenon, <1>1, <3>3, <5>1 DEF KeepsLatest
      <4>3. QED
          BY <4>1, <4>2
    <3>6. PathsOf(r) \subseteq PathsOf(v)
        BY <3>3
    <3>7. QED
        BY Zenon, <2>2, <3>3, <3>4, <3>5, <3>6
  <2>3. QED
      BY <2>1, <2>2
<1>7. p \notin PathsOf(r) /\ PathsOf(r) \subseteq ToSet(t) /\ 1 \in Nat
    BY <1>1, <1>6
<1>7a. ReadyFor(r, t, p)
    BY Zenon, <1>6, <1>7 DEF ReadyFor
<1>7b. KeepsLatest(x, u) /\ EndsWith(x, r, p, 1)
    BY Zenon, <1>1, <1>7, <1>7a, LatestAtTheEnd
<1>8. /\ KeepsLatest(x, u) /\ PathsOf(x) = PathsOf(r) \union {p} /\ Len(x) = Len(r) + 1
      /\ DOMAIN x = DOMAIN r \union {Len(r) + 1} /\ \A i \in DOMAIN r : x[i] = r[i]
      /\ x[Len(r) + 1].path = p /\ x[Len(r) + 1].hit = 1
    BY Zenon, <1>7b DEF EndsWith
<1> HIDE DEF n
<1>9. /\ Len(x) = IF Cardinality(ToSet(u)) < PAGES_TO_STORE_ THEN Cardinality(ToSet(u)) ELSE PAGES_TO_STORE_
      /\ Cardinality(ToSet(u)) <= PAGES_TO_STORE_ => ToSet(u) \subseteq PathsOf(x) /\ p \notin ToSet(t)
  <2>1. CASE n < PAGES_TO_STORE_
    <3>1. ToSet(t) \subseteq PathsOf(v) /\ p \notin ToSet(t)
        BY <1>2, <1>3, <2>1
    <3>2. Cardinality(ToSet(u)) = n + 1 /\ Len(x) = n + 1
        BY <1>5, <1>6, <1>8, <2>1, <3>1
    <3>3. ToSet(u) \subseteq PathsOf(x)
        BY <1>4, <1>6, <1>8, <2>1, <3>1
    <3>4. QED
        BY <1>2, <2>1, <3>1, <3>2, <3>3
  <2>2. CASE ~(n < PAGES_TO_STORE_)
    <3>1. Cardinality(ToSet(u)) > PAGES_TO_STORE_ /\ Cardinality(ToSet(u)) \in Nat
      <4>1. n = PAGES_TO_STORE_ => p \notin ToSet(t)
          BY <1>2, <1>3
      <4>2. QED
          BY <1>2, <1>5, <2>2, <4>1
    <3>2. Len(x) = PAGES_TO_STORE_
        BY <1>2, <1>6, <1>8, <2>2
    <3>3. QED
        BY <1>2, <3>1, <3>2
  <2>3. QED
      BY <2>1, <2>2
<1>10. \A i \in DOMAIN r : Counted(x[i], u)
  <2> SUFFICES ASSUME NEW i \in DOMAIN r PROVE Counted(x[i], u)
      OBVIOUS
  <2>1. x[i] = r[i] /\ r[i].path \in PathsOf(r)
      BY Zenon, <1>8 DEF PathsOf
  <2>2. PICK j \in DOMAIN v : r[i] = v[j]
      BY Zenon, <1>6
  <2>3. Counted(r[i], t)
      BY Zenon, <2>2 DEF VisitsGood
  <2>4. r[i].path # p
      BY <1>7, <2>1
  <2>5. QED
      BY Zenon, <1>1, <2>1, <2>3, <2>4, CountsStay
<1>11. Counted(x[Len(r) + 1], u)
  <2>1. /\ Cardinality(VisitsOf(t, p)) \in Nat /\ Cardinality(VisitsOf(u, p)) = Cardinality(VisitsOf(t, p)) + 1
        /\ p \notin ToSet(t) => Cardinality(VisitsOf(t, p)) = 0
      BY Zenon, <1>1, VisitsCounted
  <2>3. QED
      BY <1>8, <1>9, <2>1 DEF Counted
<1>12. \A i \in DOMAIN x : Counted(x[i], u)
    BY Zenon, <1>8, <1>10, <1>11
<1>13. QED
    BY Zenon, <1>4, <1>8, <1>9, <1>12 DEF VisitsGood

(* The list keeps the latest pages through one more visit.                   *)
LEMMA VisitedGood ==
    ASSUME NEW t, NEW v, VisitsGood(v, t), NEW p \in Paths
    PROVE  VisitsGood(Visited(v, p), Append(t, p))
<1>1. TrailGood(t) /\ KeepsLatest(v, t)
    BY DEF VisitsGood
<1>2. CASE Known(v, p) = {}
  <2>1. p \notin PathsOf(v)
      BY Zenon, <1>2 DEF Known, PathsOf
  <2>2. Visited(v, p) = Append(IF Len(v) >= PAGES_TO_STORE_ THEN Tail(v) ELSE v, [path |-> p, hit |-> 1])
      BY Zenon, <1>1, <1>2, VisitedIs
  <2>3. QED
      BY Zenon, <2>1, <2>2, VisitNew
<1>3. CASE Known(v, p) # {}
  <2>1. PICK k : k \in Known(v, p)
      BY Zenon, <1>3
  <2>2. k \in DOMAIN v /\ v[k].path = p
      BY Zenon, <2>1 DEF Known
  <2>3. Visited(v, p) = Append(RemoveAt(v, k), [path |-> p, hit |-> v[k].hit + 1])
      BY Zenon, <1>1, <2>1, VisitedIs
  <2>4. QED
      BY Zenon, <2>2, <2>3, VisitKnown
<1>4. QED
    BY <1>2, <1>3

LEMMA NoVisits == VisitsGood(<<>>, <<>>)
<1>1. <<>> \in Seq(Paths) /\ <<>> \in Seq(VisitSet) /\ ToSet(<<>>) = {} /\ PathsOf(<<>>) = {} /\ Len(<<>>) = 0
    BY DEF ToSet, PathsOf
<1>2. IsFiniteSet(ToSet(<<>>)) /\ Cardinality(ToSet(<<>>)) = 0
    BY <1>1, FS_EmptySet
<1>3. \A i \in DOMAIN <<>> : FALSE
    OBVIOUS
<1>4. TrailGood(<<>>)
    BY <1>1, <1>2 DEF TrailGood
<1>5. KeepsLatest(<<>>, <<>>)
    BY <1>1, <1>3 DEF KeepsLatest, InOrder
<1>6. 0 < PAGES_TO_STORE_
    BY SiteAssumption
<1>7. QED
    BY <1>1, <1>2, <1>3, <1>4, <1>5, <1>6 DEF VisitsGood

-----------------------------------------------------------------------------
(* The site remembers.                                                      *)

(* A step of the site keeps the list right.                                  *)
LEMMA VisitsStay ==
    SiteGood /\ VisitsGood(stored.visited, trail) /\ [SiteNext]_siteVars => VisitsGood(stored'.visited, trail')
<1> SUFFICES ASSUME SiteGood, VisitsGood(stored.visited, trail), [SiteNext]_siteVars
             PROVE  VisitsGood(stored'.visited, trail')
  OBVIOUS
<1> DEFINE Same == trail' = trail /\ stored'.visited = stored.visited
<1>1. ASSUME Same PROVE VisitsGood(stored'.visited, trail')
    BY Zenon, <1>1
<1>2. CASE UNCHANGED siteVars
    BY Zenon, <1>1, <1>2 DEF siteVars
<1>3. ASSUME NEW w \in Windows, addCurrectPage(w) PROVE VisitsGood(stored'.visited, trail')
  <2>1. CASE shown[w].path \in Fronts
      BY Zenon, <1>1, <1>3, <2>1 DEF addCurrectPage
  <2>2. CASE shown[w].path \notin Fronts
    <3>1. stored' = [stored EXCEPT !.visited = Visited(@, shown[w].path)] /\ trail' = Append(trail, shown[w].path)
        BY Zenon, <1>3, <2>2 DEF addCurrectPage
    <3>2. DOMAIN stored = StoreFields /\ shown[w].path \in Paths
        BY DEF SiteGood, StoreGood, StoreSound, WindowGood
    <3>3. stored'.visited = Visited(stored.visited, shown[w].path)
        BY <3>1, <3>2 DEF StoreFields
    <3>4. VisitsGood(Visited(stored.visited, shown[w].path), Append(trail, shown[w].path))
        BY Zenon, <3>2, VisitedGood
    <3>5. QED
        BY Zenon, <3>1, <3>3, <3>4
  <2>3. QED
      BY <2>1, <2>2
<1>4. DOMAIN stored = StoreFields /\ StoreGood(stored)
    BY DEF SiteGood, StoreGood, StoreSound
<1>5. ASSUME NEW w \in Windows, LoadPage(w) PROVE Same
  <2>1. stored' = Loaded(stored) /\ trail' = trail
      BY Zenon, <1>5 DEF LoadPage
  <2>2. Loaded(stored).visited = stored.visited
      BY <1>4 DEF Loaded, StoreFields
  <2>3. QED
      BY Zenon, <2>1, <2>2
<1>6. ASSUME NEW w \in Windows, CloseToast(w) PROVE Same
  <2>1. PICK d : stored' = [stored EXCEPT !.closed = d]
      BY Zenon, <1>6 DEF CloseToast, Write
  <2>2. QED
      BY <1>4, <1>6, <2>1 DEF StoreFields, CloseToast
<1>7. ASSUME NEW w \in Windows, ToggleSubNav(w) PROVE Same
  <2>1. PICK d : stored' = [stored EXCEPT !.expanded = d]
      BY Zenon, <1>7 DEF ToggleSubNav, Write
  <2>2. QED
      BY <1>4, <1>7, <2>1 DEF StoreFields, ToggleSubNav
<1>8. ASSUME NEW w \in Windows, ToggleSidebar(w) PROVE Same
    BY <1>4, <1>8 DEF StoreFields, ToggleSidebar, Write
<1>9. ASSUME NEW w \in Windows, Resize(w) PROVE Same
    BY <1>9 DEF Resize
<1>10. ASSUME NEW w \in Windows, ToggleFullscreen(w) PROVE Same
    BY <1>4, <1>10 DEF StoreFields, ToggleFullscreen, Write
<1>11. ASSUME NEW w \in Windows, changeApiLevel(w) PROVE Same
  <2>1. PICK d : stored' = [stored EXCEPT !.level = d]
      BY Zenon, <1>11 DEF changeApiLevel, Write
  <2>2. QED
      BY <1>4, <1>11, <2>1 DEF StoreFields, changeApiLevel
<1>12. ASSUME NEW w \in Windows, changeLangPref(w) PROVE Same
  <2>1. PICK d : stored' = [stored EXCEPT !.lang = d]
      BY Zenon, <1>12 DEF changeLangPref, Write
  <2>2. QED
      BY <1>4, <1>12, <2>1 DEF StoreFields, changeLangPref
<1> HIDE DEF Same
<1>13. QED
    BY Zenon, <1>1, <1>2, <1>3, <1>5, <1>6, <1>7, <1>8, <1>9, <1>10, <1>11, <1>12 DEF SiteNext

LEMMA VisitsGoodAreRecent == VisitsGood(stored.visited, trail) => VisitsAreRecent
<1> SUFFICES ASSUME VisitsGood(stored.visited, trail) PROVE VisitsAreRecent
  OBVIOUS
<1> DEFINE v == stored.visited
           at(path) == CHOOSE i \in Occurrences(path) : \A j \in Occurrences(path) : j <= i
           paths == [i \in DOMAIN v |-> v[i].path]
<1>1. TrailGood(trail) /\ KeepsLatest(v, trail)
    BY DEF VisitsGood
<1>2. /\ DOMAIN v = 1 .. Len(v) /\ Len(v) \in Nat /\ DOMAIN paths = DOMAIN v
      /\ \A i \in DOMAIN v : paths[i] = v[i].path
    BY <1>1 DEF KeepsLatest
<1>3. Len(paths) = Len(v)
    BY <1>2
<1>4. ToSet(paths) = PathsOf(v)
    BY <1>2 DEF ToSet, PathsOf
<1>5. \A q \in ToSet(trail) : IsLast(trail, q, at(q))
  <2> SUFFICES ASSUME NEW q \in ToSet(trail) PROVE IsLast(trail, q, at(q))
      OBVIOUS
  <2>1. PICK i : IsLast(trail, q, i)
      BY Zenon, <1>1 DEF TrailGood
  <2>2. i \in Occurrences(q) /\ \A j \in Occurrences(q) : j <= i
      BY Zenon, <2>1 DEF IsLast, Occurrences
  <2>3. at(q) \in Occurrences(q) /\ \A j \in Occurrences(q) : j <= at(q)
      BY Zenon, <2>2
  <2> HIDE DEF at
  <2>4. QED
      BY Zenon, <2>3 DEF IsLast, Occurrences
<1>6. \A i \in DOMAIN v : v[i].path \in ToSet(trail)
    BY Zenon, <1>1 DEF KeepsLatest, PathsOf
<1>7. Len(paths) = IF Cardinality(ToSet(trail)) < PAGES_TO_STORE_
                   THEN Cardinality(ToSet(trail)) ELSE PAGES_TO_STORE_
    BY Zenon, <1>3 DEF VisitsGood
<1> HIDE DEF at
<1>8. \A i, j \in DOMAIN paths : i < j => at(paths[i]) < at(paths[j])
    BY Zenon, <1>1, <1>2, <1>5, <1>6 DEF KeepsLatest, InOrder
<1>9. \A lost \in ToSet(trail) \ ToSet(paths) : \A i \in DOMAIN paths : at(lost) < at(paths[i])
    BY Zenon, <1>1, <1>2, <1>4, <1>5, <1>6 DEF KeepsLatest, Before
<1>10. \A i \in DOMAIN paths :
         /\ v[i].hit <= Cardinality(Occurrences(paths[i]))
         /\ Cardinality(ToSet(trail)) <= PAGES_TO_STORE_ => v[i].hit = Cardinality(Occurrences(paths[i]))
  <2> SUFFICES ASSUME NEW i \in DOMAIN v
               PROVE  /\ v[i].hit <= Cardinality(Occurrences(paths[i]))
                      /\ Cardinality(ToSet(trail)) <= PAGES_TO_STORE_ => v[i].hit = Cardinality(Occurrences(paths[i]))
      BY Zenon, <1>2
  <2>1. Counted(v[i], trail)
      BY Zenon DEF VisitsGood
  <2>2. Occurrences(paths[i]) = VisitsOf(trail, v[i].path)
      BY Zenon, <1>2 DEF Occurrences, VisitsOf
  <2>3. QED
      BY Zenon, <2>1, <2>2 DEF Counted
<1> HIDE DEF paths, v
<1>11. QED
    BY Zenon, <1>7, <1>8, <1>9, <1>10 DEF VisitsAreRecent, at, paths, v

(* What is kept by every step: of the windows and the store, of the pages    *)
(* visited, and of the panes and their sizes.                                *)
SiteInv ==
    /\ SiteGood /\ VisitsGood(stored.visited, trail)
    /\ PanesGood(panes) /\ SizesGood(panes)

LEMMA SiteInvStarts == PagesInit => SiteInv
<1> SUFFICES ASSUME PagesInit PROVE SiteInv
  OBVIOUS
<1>1. (SiteInit \/ SiteRest) /\ (PanesInit \/ PanesRest)
    BY Zenon DEF PagesInit
<1>2. SiteGood /\ PanesGood(panes) /\ SizesGood(panes)
    BY Zenon, <1>1, SiteStarts, PanesStart, SizesStart
<1>3. (stored = EmptyStore \/ stored = Loaded(EmptyStore)) /\ trail = <<>>
    BY Zenon, <1>1 DEF SiteInit, SiteRest
<1>4. EmptyStore.visited = <<>> /\ DOMAIN EmptyStore = StoreFields
    BY DEF EmptyStore, StoreFields
<1>5. Loaded(EmptyStore).visited = <<>>
    BY <1>4 DEF Loaded, StoreFields
<1>6. VisitsGood(stored.visited, trail)
    BY Zenon, <1>3, <1>4, <1>5, NoVisits
<1>7. QED
    BY <1>2, <1>6 DEF SiteInv

LEMMA SiteInvKept == SiteInv /\ [PagesNext]_pagesVars => SiteInv'
<1> SUFFICES ASSUME SiteInv, [PagesNext]_pagesVars PROVE SiteInv'
  OBVIOUS
<1>1. [SiteNext]_siteVars /\ [PanesNext]_panes
    BY Zenon, PagesMoveSite, PagesMovePanes
<1>2. SiteGood' /\ VisitsGood(stored'.visited, trail')
    BY Zenon, <1>1, SiteGoodStays, VisitsStay DEF SiteInv
<1>3. PanesGood(panes') /\ SizesGood(panes')
    BY Zenon, <1>1, PanesKept, SizesKeptOn DEF SiteInv
<1>4. QED
    BY <1>2, <1>3 DEF SiteInv

LEMMA SiteInvRemembers == SiteInv => SiteRemembers
BY Zenon, SiteGoodRemembers, VisitsGoodAreRecent, SizesGoodAreKept DEF SiteInv, SiteRemembers

(* However the windows of a browser take turns, and however many pages,      *)
(* toasts, levels and parts of the navigation there are: the store keeps the *)
(* pages visited last, each once and in order, a reload changes nothing in   *)
(* the window that wrote last, what is greyed out is what the level lacks,   *)
(* and the cookies keep the sizes that the panes were given (templates-sdk   *)
(* docs.js and templates-pdk android-developer-docs.js).                     *)
THEOREM SiteAlwaysRemembers == PagesSpec => []SiteRemembers
<1>1. PagesSpec => []SiteInv
    BY SiteInvStarts, SiteInvKept, PTL DEF PagesSpec
<1>2. QED
    BY <1>1, SiteInvRemembers, PTL

-----------------------------------------------------------------------------
(* The trees of the Google reference.                                       *)

LEMMA PagesMoveTrees == [PagesNext]_pagesVars => [TreesNext]_trees
<1> SUFFICES ASSUME [PagesNext]_pagesVars PROVE [TreesNext]_trees
  OBVIOUS
<1>1. CASE LoadsStep
  BY Zenon, <1>1 DEF LoadsStep
<1>2. LoadsStep \/ UNCHANGED loadsVars
  BY Zenon DEF PagesNext, pagesVars, SlidesStep, ListsStep, TogglesStep, NavStep, CompleteStep, TreeStep,
        FrameStep, QueryStep, SiteStep, MatchStep, PanesStep
<1>3. UNCHANGED loadsVars => UNCHANGED trees
  BY Zenon DEF loadsVars
<1>4. QED
  BY <1>1, <1>2, <1>3

(* The trail of a node and the tree it is in exist for nodes without cycles. *)
Nodes == DOMAIN TreeParent

LEMMA GoogleTreeShape ==
    /\ NoCycles(Nodes, TreeParent) /\ PageNode \in Nodes
    /\ \A n \in Nodes : TreeParent[n] \in Nodes <=> TreeParent[n] \notin Trees
    /\ \A n \in Nodes : TreeParent[n] \in Nodes \union Trees
BY LoadsAssumption DEF NoCycles, Nodes

IsRoot(f) == f = [n \in Nodes |-> IF TreeParent[n] \in Trees THEN TreeParent[n] ELSE f[TreeParent[n]]]

LEMMA RootOfParent ==
    \A n \in Nodes : TreeParent[n] \in Nodes => Root[n] = Root[TreeParent[n]]
<1> DEFINE V == Nodes \union Trees
           rule == [n \in Nodes |-> [v \in V |-> v]]
           base == [n \in Nodes |-> TreeParent[n]]
<1>1. base \in [Nodes -> V] /\ rule \in UpRules(Nodes, V)
    BY GoogleTreeShape DEF UpRules
<1>2. \A n \in Nodes, v \in V : rule[n][v] = v
    OBVIOUS
<1>3. \A n \in Nodes : base[n] = TreeParent[n]
    OBVIOUS
<1> HIDE DEF V, rule, base
<1>4. PICK f : FollowsUp(f, Nodes, TreeParent, V, base, rule)
    BY Zenon, <1>1, GoogleTreeShape, UpwardRecursionExists
<1>5. \A n \in Nodes : f[n] = IF TreeParent[n] \in Trees THEN TreeParent[n] ELSE f[TreeParent[n]]
  <2> TAKE n \in Nodes
  <2>1. CASE TreeParent[n] \in Trees
    <3>1. f[n] = base[n]
        BY Zenon, <1>4, <2>1, GoogleTreeShape DEF FollowsUp
    <3>2. QED
        BY <1>3, <2>1, <3>1
  <2>2. CASE TreeParent[n] \in Nodes
    <3>1. f[n] = rule[n][f[TreeParent[n]]] /\ f[TreeParent[n]] \in V
        BY <1>4, <2>2 DEF FollowsUp
    <3>2. QED
        BY <1>2, <2>2, <3>1, GoogleTreeShape
  <2>3. QED
      BY <2>1, <2>2, GoogleTreeShape
<1>6. f = [n \in Nodes |-> f[n]]
    BY <1>4 DEF FollowsUp
<1>7. IsRoot(f)
    BY Zenon, <1>5, <1>6 DEF IsRoot
<1>8. IsRoot(Root)
    BY Zenon, <1>7 DEF Root, IsRoot, Nodes
<1>9. QED
    BY <1>8, GoogleTreeShape DEF IsRoot

IsTrail(f) ==
    f = [n \in Nodes |-> IF TreeParent[n] \in Trees THEN <<>> ELSE Append(f[TreeParent[n]], TreeParent[n])]

LEMMA TrailOfPage == Ancestors[PageNode] \in Seq(Nodes)
<1> DEFINE V == Seq(Nodes)
           rule == [n \in Nodes |-> [v \in V |-> IF TreeParent[n] \in Nodes THEN Append(v, TreeParent[n]) ELSE v]]
           base == [n \in Nodes |-> <<>>]
<1>1. base \in [Nodes -> V] /\ rule \in UpRules(Nodes, V)
  <2>1. \A n \in Nodes, v \in V : TreeParent[n] \in Nodes => Append(v, TreeParent[n]) \in V
      OBVIOUS
  <2>2. <<>> \in V
      OBVIOUS
  <2> HIDE DEF V
  <2>3. QED
      BY <2>1, <2>2 DEF UpRules
<1>2. \A n \in Nodes, v \in V :
        rule[n][v] = IF TreeParent[n] \in Nodes THEN Append(v, TreeParent[n]) ELSE v
    BY Zenon
<1>3. \A n \in Nodes : base[n] = <<>>
    BY Zenon
<1> HIDE DEF V, rule, base
<1>4. PICK f : FollowsUp(f, Nodes, TreeParent, V, base, rule)
    BY Zenon, <1>1, GoogleTreeShape, UpwardRecursionExists
<1>5. \A n \in Nodes : f[n] = IF TreeParent[n] \in Trees THEN <<>> ELSE Append(f[TreeParent[n]], TreeParent[n])
  <2> TAKE n \in Nodes
  <2>1. CASE TreeParent[n] \in Trees
    <3>1. f[n] = base[n]
        BY Zenon, <1>4, <2>1, GoogleTreeShape DEF FollowsUp
    <3>2. QED
        BY <1>3, <2>1, <3>1
  <2>2. CASE TreeParent[n] \in Nodes
    <3>1. f[n] = rule[n][f[TreeParent[n]]] /\ f[TreeParent[n]] \in V
        BY <1>4, <2>2 DEF FollowsUp
    <3>2. rule[n][f[TreeParent[n]]] = Append(f[TreeParent[n]], TreeParent[n])
        BY <1>2, <2>2, <3>1
    <3>3. TreeParent[n] \notin Trees
        BY <2>2, GoogleTreeShape
    <3>4. QED
        BY Zenon, <3>1, <3>2, <3>3
  <2>3. QED
      BY <2>1, <2>2, GoogleTreeShape
<1>6. f = [n \in Nodes |-> f[n]]
    BY <1>4 DEF FollowsUp
<1>7. IsTrail(f)
    BY Zenon, <1>5, <1>6 DEF IsTrail
<1>8. IsTrail(Ancestors)
    BY Zenon, <1>7 DEF Ancestors, IsTrail, Nodes
<1> DEFINE B == {n \in Nodes : Ancestors[n] \in Seq(Nodes)}
<1>9. \A n \in Nodes : (TreeParent[n] \in Nodes => TreeParent[n] \in B) => n \in B
  <2> TAKE n \in Nodes
  <2>1. Ancestors[n] = IF TreeParent[n] \in Trees THEN <<>>
                       ELSE Append(Ancestors[TreeParent[n]], TreeParent[n])
      BY Zenon, <1>8 DEF IsTrail
  <2>2. CASE TreeParent[n] \in Trees
    <3>1. Ancestors[n] = <<>>
        BY <2>1, <2>2
    <3>2. <<>> \in Seq(Nodes)
        OBVIOUS
    <3>3. QED
        BY <3>1, <3>2
  <2>3. CASE TreeParent[n] \in B
    <3>1. Ancestors[n] = Append(Ancestors[TreeParent[n]], TreeParent[n])
        BY <2>1, <2>3, GoogleTreeShape
    <3> DEFINE a == Ancestors[TreeParent[n]]
    <3>2. a \in Seq(Nodes) /\ TreeParent[n] \in Nodes
        BY <2>3
    <3> HIDE DEF a
    <3>3. Append(a, TreeParent[n]) \in Seq(Nodes)
        BY <3>2
    <3>4. QED
        BY <3>1, <3>3 DEF a
  <2>4. QED
      BY <2>2, <2>3, GoogleTreeShape
<1>10. Nodes \subseteq B
  <2> HIDE DEF B
  <2>1. QED
      BY <1>9, GoogleTreeShape, FromTheTop
<1>11. QED
    BY <1>10, GoogleTreeShape

LEMMA PlaceInRepetition ==
    ASSUME NEW L \in Nat \ {0}, NEW k \in Nat, NEW j \in 0 .. L - 1
    PROVE  (k * L + j) % L = j
<1> DEFINE x == k * L + j
           q == x \div L
           r == x % L
<1>1. x \in Nat
    OBVIOUS
<1>2. q \in Int /\ r \in 0 .. L - 1 /\ x = L * q + r
  <2> HIDE DEF x
  <2>1. QED
      BY <1>1
<1>3. L * (q - k) = j - r
  <2> HIDE DEF q, r
  <2>1. QED
      BY <1>2
<1> HIDE DEF q, r, x
<1>4. q - k = 0
  <2>1. CASE q - k >= 1
    <3>1. L * (q - k) >= L
        BY <1>2, <2>1
    <3>2. QED
        BY <1>2, <1>3, <3>1
  <2>2. CASE q - k <= -1
    <3>1. L * (k - q) >= L
        BY <1>2, <2>2
    <3>2. L * (k - q) = r - j
        BY <1>2, <1>3
    <3>3. QED
        BY <1>2, <3>2, <3>1
  <2>3. QED
      BY <1>2, <2>1, <2>2
<1>5. j = r
    BY <1>2, <1>3, <1>4
<1>6. QED
    BY <1>5 DEF r, x

(* The crumbs are the trail, once for each time the page was highlighted.    *)
Repeats(c, a, k) ==
    /\ Len(c) = k * Len(a)
    /\ \A i \in DOMAIN c : c[i] = a[1 + ((i - 1) % Len(a))]

LEMMA RepeatedOnceMore ==
    ASSUME NEW S, NEW a \in Seq(S), NEW c \in Seq(S), NEW k \in Nat, Repeats(c, a, k)
    PROVE  Repeats(c \o a, a, k + 1)
<1>1. Len(c \o a) = Len(c) + Len(a) /\ Len(a) \in Nat /\ Len(c) \in Nat /\ DOMAIN (c \o a) = 1 .. Len(c) + Len(a)
    OBVIOUS
<1>2. Len(c \o a) = (k + 1) * Len(a)
    BY <1>1 DEF Repeats
<1>3. \A i \in 1 .. Len(c) + Len(a) : (c \o a)[i] = a[1 + ((i - 1) % Len(a))]
  <2> TAKE i \in 1 .. Len(c) + Len(a)
  <2>1. CASE i <= Len(c)
    <3>1. (c \o a)[i] = c[i] /\ i \in DOMAIN c
        BY <2>1
    <3>2. QED
        BY <3>1 DEF Repeats
  <2>2. CASE i > Len(c)
    <3> DEFINE j == i - Len(c) - 1
    <3>1. (c \o a)[i] = a[i - Len(c)]
        BY <2>2
    <3>2. Len(a) \in Nat \ {0} /\ j \in 0 .. Len(a) - 1 /\ i - Len(c) = 1 + j /\ i - 1 = Len(c) + j
        BY <2>2, <1>1
    <3>3. Len(c) = k * Len(a)
        BY DEF Repeats
    <3> HIDE DEF j
    <3>4. (k * Len(a) + j) % Len(a) = j
        BY <3>2, PlaceInRepetition
    <3>5. QED
        BY <3>1, <3>2, <3>3, <3>4
  <2>3. QED
      BY <1>1, <2>1, <2>2
<1>4. QED
    BY <1>1, <1>2, <1>3 DEF Repeats

TreesFields == {"loaded", "nodes", "selected", "expanded", "crumbs", "lit"}

(* The nodes in the page are those of the trees that are loaded.             *)
GoogleGood(t) ==
    /\ DOMAIN t = TreesFields /\ t.crumbs \in Seq(Nodes) /\ t.lit \in Nat
    /\ t.nodes = {n \in Nodes : Root[n] \in t.loaded}
    /\ t.selected = {PageNode} \intersect t.nodes
    /\ t.expanded = IF t.selected = {} THEN {} ELSE ToSet(Ancestors[PageNode])
    /\ Repeats(t.crumbs, Ancestors[PageNode], t.lit)

LEMMA GoogleStarts == TreesInit => GoogleGood(trees)
<1> SUFFICES ASSUME TreesInit PROVE GoogleGood(trees)
    OBVIOUS
<1>1. /\ trees = [loaded |-> {}, nodes |-> {}, selected |-> {}, expanded |-> {}, crumbs |-> <<>>, lit |-> 0]
    BY DEF TreesInit
<1>2. Repeats(<<>>, Ancestors[PageNode], 0)
  <2>1. Len(Ancestors[PageNode]) \in Nat /\ Len(<<>>) = 0 /\ DOMAIN <<>> = {}
      BY TrailOfPage
  <2>2. QED
      BY <2>1 DEF Repeats
<1>3. QED
    BY <1>1, <1>2 DEF GoogleGood, TreesFields

LEMMA GoogleStays == GoogleGood(trees) /\ [TreesNext]_trees => GoogleGood(trees')
<1> SUFFICES ASSUME GoogleGood(trees), NEW t \in Trees, init_google_navtree(t)
             PROVE  GoogleGood(trees')
    BY DEF TreesNext
<1> DEFINE a == Ancestors[PageNode]
           read == [trees EXCEPT !.loaded = @ \union {t},
                                 !.nodes = @ \union {n \in DOMAIN TreeParent : Root[n] = t}]
           plain == IF read.selected = {} THEN read ELSE [read EXCEPT !.selected = {}, !.expanded = {}]
<1>1. trees' = IF PageNode \notin read.nodes THEN plain
               ELSE [plain EXCEPT !.selected = {PageNode}, !.expanded = @ \union ToSet(a),
                                  !.crumbs = @ \o a, !.lit = @ + 1]
  <2> HIDE DEF a
  <2>1. read.nodes = plain.nodes
      BY DEF GoogleGood, TreesFields
  <2>2. QED
      BY Zenon DEF init_google_navtree, Highlighted, a
<1>2. /\ DOMAIN read = TreesFields /\ read.crumbs = trees.crumbs /\ read.lit = trees.lit
      /\ read.loaded = trees.loaded \union {t} /\ read.selected = trees.selected /\ read.expanded = trees.expanded
      /\ read.nodes = trees.nodes \union {n \in Nodes : Root[n] = t}
    BY DEF GoogleGood, TreesFields, Nodes
<1> HIDE DEF read
<1>3. /\ DOMAIN plain = TreesFields /\ plain.crumbs = trees.crumbs /\ plain.lit = trees.lit
      /\ plain.loaded = read.loaded /\ plain.nodes = read.nodes
      /\ plain.selected = {} /\ plain.expanded = {}
    BY <1>2 DEF GoogleGood, TreesFields
<1> HIDE DEF plain
<1>4. read.nodes = {n \in Nodes : Root[n] \in read.loaded}
    BY <1>2 DEF GoogleGood
<1>5. a \in Seq(Nodes) /\ trees.crumbs \in Seq(Nodes) /\ trees.lit \in Nat /\ Repeats(trees.crumbs, a, trees.lit)
    BY TrailOfPage DEF GoogleGood
<1> HIDE DEF a
<1>6. CASE PageNode \notin read.nodes
  <2>1. trees' = plain
      BY <1>1, <1>6
  <2>2. QED
      BY <2>1, <1>3, <1>4, <1>5, <1>6 DEF GoogleGood, a
<1>7. CASE PageNode \in read.nodes
  <2>1. /\ DOMAIN trees' = TreesFields /\ trees'.crumbs = trees.crumbs \o a /\ trees'.lit = trees.lit + 1
        /\ trees'.loaded = read.loaded /\ trees'.nodes = read.nodes /\ trees'.selected = {PageNode}
        /\ trees'.expanded = ToSet(a)
      BY <1>1, <1>3, <1>7 DEF TreesFields
  <2>2. Repeats(trees.crumbs \o a, a, trees.lit + 1) /\ trees.crumbs \o a \in Seq(Nodes)
      BY <1>5, RepeatedOnceMore
  <2>3. QED
      BY <2>1, <2>2, <1>4, <1>5, <1>7 DEF GoogleGood, a
<1>8. QED
    BY <1>6, <1>7

LEMMA GoogleGoodHighlights == GoogleGood(trees) => PageHighlighted
<1> SUFFICES ASSUME GoogleGood(trees) PROVE PageHighlighted
    OBVIOUS
<1>1. \A n \in trees.nodes : TreeParent[n] \in trees.nodes \union Trees
    BY GoogleTreeShape, RootOfParent DEF GoogleGood
<1>2. QED
    BY <1>1 DEF GoogleGood, PageHighlighted, Repeats

-----------------------------------------------------------------------------
(* The way to a page.                                                       *)

LEMMA PagesMoveTree == [PagesNext]_pagesVars => [TreeNext]_tree
<1> SUFFICES ASSUME [PagesNext]_pagesVars PROVE [TreeNext]_tree
  OBVIOUS
<1>1. CASE TreeStep
  BY Zenon, <1>1 DEF TreeStep
<1>2. TreeStep \/ UNCHANGED tree
  BY Zenon DEF PagesNext, pagesVars, SlidesStep, ListsStep, TogglesStep, NavStep, CompleteStep, LoadsStep,
        FrameStep, QueryStep, SiteStep, MatchStep, PanesStep
<1>3. QED
  BY <1>1, <1>2

(* The path to a node: it begins at the top, and goes down.                  *)
PathTo(p, n) ==
    /\ p \in Seq(TreeNodes) /\ p # <<>> /\ p[Len(p)] = n
    /\ \A k \in 1 .. Len(p) : Mom[p[k]] = IF k = 1 THEN NoMom ELSE p[k-1]

LEMMA PathEnds == ASSUME NEW n \in TreeNodes, Mom[n] = NoMom PROVE PathTo(<<n>>, n)
BY DEF PathTo

LEMMA PathGoesOn ==
    ASSUME NEW n \in TreeNodes, Mom[n] \in TreeNodes, NEW p, PathTo(p, Mom[n])
    PROVE  PathTo(Append(p, n), n)
<1> DEFINE q == Append(p, n)
<1>1. p \in Seq(TreeNodes) /\ p # <<>> /\ p[Len(p)] = Mom[n] /\ Len(p) \in Nat
    BY DEF PathTo
<1>2. q \in Seq(TreeNodes) /\ Len(q) = Len(p) + 1 /\ q[Len(p) + 1] = n /\ \A k \in 1 .. Len(p) : q[k] = p[k]
    BY <1>1
<1>3. Len(p) >= 1
    BY <1>1, EmptySeq
<1> HIDE DEF q
<1>4. \A k \in 1 .. Len(q) : Mom[q[k]] = IF k = 1 THEN NoMom ELSE q[k-1]
  <2> TAKE k \in 1 .. Len(q)
  <2>1. CASE k = Len(p) + 1
      BY <1>1, <1>2, <1>3, <2>1
  <2>2. CASE k \in 1 .. Len(p)
    <3>1. q[k] = p[k] /\ (k # 1 => q[k-1] = p[k-1])
        BY <1>2, <2>2
    <3>2. QED
        BY <2>2, <3>1 DEF PathTo
  <2>3. QED
      BY <1>1, <1>2, <2>1, <2>2
<1>5. q # <<>>
    BY <1>1, <1>2
<1>6. QED
    BY <1>2, <1>4, <1>5 DEF PathTo, q

IsPath(f) ==
    f = [n \in TreeNodes \union {NoMom} |-> IF n = NoMom THEN <<>> ELSE Append(f[Mom[n]], n)]

LEMMA TreeShape ==
    /\ NoCycles(TreeNodes, Mom) /\ NoMom \notin TreeNodes
    /\ \A n \in TreeNodes : Mom[n] \in TreeNodes <=> Mom[n] # NoMom
BY TreeAssumption DEF NoCycles

LEMMA FindPageIsPath == IsPath(find_page)
<1> DEFINE V == Seq(TreeNodes)
           rule == [n \in TreeNodes |-> [v \in V |-> Append(v, n)]]
           base == [n \in TreeNodes |-> <<n>>]
<1>1. base \in [TreeNodes -> V] /\ rule \in UpRules(TreeNodes, V)
  <2>1. \A n \in TreeNodes, v \in V : Append(v, n) \in V
      OBVIOUS
  <2>2. \A n \in TreeNodes : <<n>> \in V
      OBVIOUS
  <2> HIDE DEF V
  <2>3. QED
      BY <2>1, <2>2 DEF UpRules
<1>2. \A n \in TreeNodes, v \in V : rule[n][v] = Append(v, n)
    BY Zenon
<1>3. \A n \in TreeNodes : base[n] = <<n>>
    BY Zenon
<1>4. \A n : Append(<<>>, n) = <<n>>
    OBVIOUS
<1> HIDE DEF V, rule, base
<1>5. PICK f : FollowsUp(f, TreeNodes, Mom, V, base, rule)
    BY Zenon, <1>1, TreeShape, UpwardRecursionExists
<1> DEFINE g == [n \in TreeNodes \union {NoMom} |-> IF n = NoMom THEN <<>> ELSE f[n]]
<1>6. \A n \in TreeNodes : g[n] = Append(g[Mom[n]], n)
  <2> TAKE n \in TreeNodes
  <2>0. g[n] = f[n]
      BY TreeShape
  <2>1. CASE Mom[n] = NoMom
    <3>1. f[n] = base[n]
        BY Zenon, <1>5, <2>1, TreeShape DEF FollowsUp
    <3>2. g[Mom[n]] = <<>>
        BY <2>1
    <3>3. QED
        BY Zenon, <1>3, <1>4, <2>0, <3>1, <3>2
  <2>2. CASE Mom[n] \in TreeNodes
    <3>1. f[n] = rule[n][f[Mom[n]]] /\ f[Mom[n]] \in V
        BY <1>5, <2>2 DEF FollowsUp
    <3>2. g[Mom[n]] = f[Mom[n]]
        BY <2>2, TreeShape
    <3>3. QED
        BY Zenon, <1>2, <2>0, <3>1, <3>2
  <2>3. QED
      BY <2>1, <2>2, TreeShape
<1>7. g[NoMom] = <<>>
    OBVIOUS
<1>8. g = [n \in TreeNodes \union {NoMom} |-> g[n]]
    OBVIOUS
<1> HIDE DEF g
<1>9. \A n \in TreeNodes \union {NoMom} : g[n] = IF n = NoMom THEN <<>> ELSE Append(g[Mom[n]], n)
    BY Zenon, <1>6, <1>7
<1>10. IsPath(g)
    BY Zenon, <1>8, <1>9 DEF IsPath
<1>11. QED
    BY Zenon, <1>10 DEF find_page, IsPath

LEMMA FindPageLeadsDown ==
    /\ find_page[NoMom] = <<>>
    /\ \A n \in TreeNodes : PathTo(find_page[n], n)
<1>1. find_page[NoMom] = <<>>
    BY Zenon, FindPageIsPath DEF IsPath
<1>2. \A n \in TreeNodes : find_page[n] = Append(find_page[Mom[n]], n)
    BY Zenon, FindPageIsPath, TreeShape DEF IsPath
<1> DEFINE B == {n \in TreeNodes : PathTo(find_page[n], n)}
<1>3. \A n \in TreeNodes : (Mom[n] \in TreeNodes => Mom[n] \in B) => n \in B
  <2> TAKE n \in TreeNodes
  <2>1. CASE Mom[n] = NoMom
    <3>1. Append(<<>>, n) = <<n>>
        OBVIOUS
    <3>2. QED
        BY Zenon, <1>1, <1>2, <2>1, <3>1, PathEnds
  <2>2. CASE Mom[n] \in B
      BY Zenon, <1>2, <2>2, PathGoesOn
  <2>3. QED
      BY <2>1, <2>2, TreeShape
<1>4. TreeNodes \subseteq B
  <2> HIDE DEF B
  <2>1. QED
      BY Zenon, <1>3, TreeShape, FromTheTop
<1>5. QED
    BY Zenon, <1>1, <1>4

-----------------------------------------------------------------------------
(* The lists of nodes of a tree.                                            *)

LEMMA BranchesAreNodes ==
    /\ Branches \subseteq TreeNodes
    /\ \A n : NodesUnder(n) \subseteq TreeNodes
    /\ \A n \in TreeNodes : Mom[n] # NoMom => Mom[n] \in Branches /\ n \in NodesUnder(Mom[n])
BY TreeAssumption DEF Branches, NodesUnder

Ways == {"down", "up"}

(* The lists of nodes, and the trees, that there are.                        *)
NodeLists ==
    [made : SUBSET TreeNodes, open : SUBSET Branches, shown : SUBSET Branches, grey : SUBSET TreeNodes,
     levelled : BOOLEAN, sliding : [Branches -> Seq(Ways)]]

TreesKnown ==
    [pref : {"tree", "panels"}, nav : {"tree", "panels"}, visible : {"tree", "panels"}, requests : Nat,
     failed : BOOLEAN, lists : Seq(NodeLists), level : ApiLevels, page : TreeNodes \union {NoMom},
     uses : Nat]

(* Where the animations of a node end is what its flag says.                 *)
EndsOpen(l, n) ==
    IF l.sliding[n] = <<>> THEN (n \in l.shown) = (n \in l.open)
    ELSE l.sliding[n][Len(l.sliding[n])] = IF n \in l.open THEN "down" ELSE "up"

ListHonest(l) == /\ \A n \in Branches : EndsOpen(l, n)
                 /\ \A n \in l.open : NodesUnder(n) \subseteq l.made

GreyFits(l, level) == l.levelled => l.grey = {n \in l.made : NodeLevel[n] > level}

AllHonest(t) == \A i \in DOMAIN t.lists : ListHonest(t.lists[i]) /\ GreyFits(t.lists[i], t.level)

(* A node that is sent down or up.                                           *)
Sent(l, node, way, made) ==
    [l EXCEPT !.made = made, !.open = IF way = "down" THEN l.open \union {node} ELSE l.open \ {node},
              !.sliding = [l.sliding EXCEPT ![node] = Append(l.sliding[node], way)]]

IsSent(m, l, node, way, made) ==
    /\ m \in NodeLists
    /\ m.made = made /\ m.open = IF way = "down" THEN l.open \union {node} ELSE l.open \ {node}
    /\ m.shown = l.shown /\ m.grey = l.grey /\ m.levelled = l.levelled
    /\ m.sliding = [l.sliding EXCEPT ![node] = Append(l.sliding[node], way)]

LEMMA SentFields ==
    ASSUME NEW l \in NodeLists, NEW node \in Branches, NEW way \in Ways, NEW made \in SUBSET TreeNodes
    PROVE  IsSent(Sent(l, node, way, made), l, node, way, made)
<1> DEFINE m == Sent(l, node, way, made)
           opens == IF way = "down" THEN l.open \union {node} ELSE l.open \ {node}
           slides == [l.sliding EXCEPT ![node] = Append(l.sliding[node], way)]
<1>1. l.sliding \in [Branches -> Seq(Ways)] /\ l.open \subseteq Branches
    BY DEF NodeLists
<1>2. slides \in [Branches -> Seq(Ways)] /\ opens \subseteq Branches
  <2>1. Append(l.sliding[node], way) \in Seq(Ways)
      BY <1>1
  <2>2. QED
      BY <1>1, <2>1
<1>0. m = [l EXCEPT !.made = made, !.open = opens, !.sliding = slides]
    BY Zenon DEF Sent
<1> HIDE DEF m, opens, slides
<1>3. /\ m.made = made /\ m.open = opens
      /\ m.shown = l.shown /\ m.grey = l.grey /\ m.levelled = l.levelled
      /\ m.sliding = slides
      /\ m = [made |-> m.made, open |-> m.open, shown |-> m.shown, grey |-> m.grey,
              levelled |-> m.levelled, sliding |-> m.sliding]
    BY <1>0 DEF NodeLists
<1>4. m \in NodeLists
  <2>1. /\ m.made \in SUBSET TreeNodes /\ m.open \in SUBSET Branches /\ m.shown \in SUBSET Branches
        /\ m.grey \in SUBSET TreeNodes /\ m.levelled \in BOOLEAN /\ m.sliding \in [Branches -> Seq(Ways)]
      BY <1>1, <1>2, <1>3 DEF NodeLists
  <2>2. QED
      BY <1>3, <2>1 DEF NodeLists
<1>5. QED
    BY Zenon, <1>3, <1>4 DEF m, opens, slides, IsSent

LEMMA SentHonest ==
    ASSUME NEW l \in NodeLists, ListHonest(l), NEW node \in Branches, NEW way \in Ways,
           NEW made \in SUBSET TreeNodes, l.made \subseteq made,
           way = "down" => NodesUnder(node) \subseteq made
    PROVE  Sent(l, node, way, made) \in NodeLists /\ ListHonest(Sent(l, node, way, made))
<1> DEFINE m == Sent(l, node, way, made)
<1>1. /\ m \in NodeLists /\ m.made = made
      /\ m.open = IF way = "down" THEN l.open \union {node} ELSE l.open \ {node}
      /\ m.shown = l.shown /\ m.sliding = [l.sliding EXCEPT ![node] = Append(l.sliding[node], way)]
  <2>1. IsSent(m, l, node, way, made)
      BY SentFields
  <2> HIDE DEF m
  <2>2. QED
      BY Zenon, <2>1 DEF IsSent
<1> HIDE DEF m
<1>2. l.sliding \in [Branches -> Seq(Ways)] /\ l.open \subseteq Branches
    BY DEF NodeLists
<1>3. EndsOpen(m, node)
  <2> DEFINE s == l.sliding[node]
  <2>1. s \in Seq(Ways)
      BY <1>2
  <2>2. m.sliding[node] = Append(s, way)
      BY <1>1, <1>2
  <2> HIDE DEF s
  <2>3. Append(s, way) # <<>> /\ Append(s, way)[Len(Append(s, way))] = way
      BY <2>1
  <2>4. way = IF node \in m.open THEN "down" ELSE "up"
      BY <1>1 DEF Ways
  <2>5. QED
      BY Zenon, <2>2, <2>3, <2>4 DEF EndsOpen
<1>4. \A n \in Branches \ {node} : EndsOpen(m, n)
  <2> TAKE n \in Branches \ {node}
  <2>1. m.sliding[n] = l.sliding[n] /\ (n \in m.open <=> n \in l.open) /\ m.shown = l.shown
      BY <1>1, <1>2
  <2>2. EndsOpen(l, n)
      BY DEF ListHonest
  <2>3. QED
      BY <2>1, <2>2 DEF EndsOpen
<1>5. \A n \in m.open : NodesUnder(n) \subseteq m.made
  <2>1. \A n \in l.open : NodesUnder(n) \subseteq l.made
      BY DEF ListHonest
  <2>2. QED
      BY <1>1, <2>1
<1>6. QED
    BY <1>1, <1>3, <1>4, <1>5 DEF ListHonest, m

(* One of the lists changes.                                                 *)
OneList(t, i, l) == [t EXCEPT !.lists = [@ EXCEPT ![i] = l]]

SameTree(u, t) ==
    /\ u.pref = t.pref /\ u.nav = t.nav /\ u.visible = t.visible /\ u.requests = t.requests
    /\ u.failed = t.failed /\ u.level = t.level /\ u.page = t.page /\ u.uses = t.uses
    /\ DOMAIN u.lists = DOMAIN t.lists /\ Len(u.lists) = Len(t.lists)
    /\ \A j \in DOMAIN t.lists : t.lists[j].made \subseteq u.lists[j].made

LEMMA OneListChanges ==
    ASSUME NEW t \in TreesKnown, NEW i \in DOMAIN t.lists, NEW l \in NodeLists, t.lists[i].made \subseteq l.made
    PROVE  /\ OneList(t, i, l) \in TreesKnown /\ SameTree(OneList(t, i, l), t)
           /\ OneList(t, i, l).lists[i] = l
           /\ \A j \in DOMAIN t.lists \ {i} : OneList(t, i, l).lists[j] = t.lists[j]
<1> DEFINE u == OneList(t, i, l)
           w == [t.lists EXCEPT ![i] = l]
<1>1. t.lists \in Seq(NodeLists)
    BY DEF TreesKnown
<1>2. /\ w \in Seq(NodeLists) /\ DOMAIN w = DOMAIN t.lists /\ Len(w) = Len(t.lists) /\ w[i] = l
      /\ \A j \in DOMAIN t.lists \ {i} : w[j] = t.lists[j]
    BY <1>1
<1> HIDE DEF w
<1>3. /\ u.pref = t.pref /\ u.nav = t.nav /\ u.visible = t.visible /\ u.requests = t.requests
      /\ u.failed = t.failed /\ u.level = t.level /\ u.page = t.page /\ u.uses = t.uses
      /\ u.lists = w /\ u \in TreesKnown
    BY <1>2 DEF TreesKnown, OneList, w
<1> HIDE DEF u
<1>4. \A j \in DOMAIN t.lists : t.lists[j].made \subseteq u.lists[j].made
    BY <1>2, <1>3
<1>5. QED
    BY <1>2, <1>3, <1>4 DEF SameTree, u

LEMMA LevelsFit ==
    ASSUME NEW t \in TreesKnown, \A i \in DOMAIN t.lists : ListHonest(t.lists[i])
    PROVE  LevelsApplied(t) \in TreesKnown /\ AllHonest(LevelsApplied(t)) /\ SameTree(LevelsApplied(t), t)
<1> DEFINE u == LevelsApplied(t)
           fit(l) == [l EXCEPT !.grey = {n \in l.made : NodeLevel[n] > t.level}, !.levelled = TRUE]
           w == [i \in DOMAIN t.lists |-> fit(t.lists[i])]
<1>1. t.lists \in Seq(NodeLists)
    BY DEF TreesKnown
<1>2. \A l \in NodeLists : /\ fit(l) \in NodeLists /\ fit(l).made = l.made /\ fit(l).open = l.open
                           /\ fit(l).shown = l.shown /\ fit(l).sliding = l.sliding
                           /\ fit(l).grey = {n \in l.made : NodeLevel[n] > t.level}
    BY DEF NodeLists
<1>3. u = [t EXCEPT !.lists = w]
    BY Zenon DEF LevelsApplied
<1> HIDE DEF fit
<1>4. \A i \in DOMAIN t.lists : t.lists[i] \in NodeLists /\ w[i] = fit(t.lists[i])
    BY <1>1
<1>5. w \in Seq(NodeLists) /\ DOMAIN w = DOMAIN t.lists /\ Len(w) = Len(t.lists)
  <2>1. DOMAIN t.lists = 1 .. Len(t.lists) /\ Len(t.lists) \in Nat
      BY <1>1
  <2>2. w \in [1 .. Len(t.lists) -> NodeLists]
      BY <1>2, <1>4, <2>1
  <2> HIDE DEF w
  <2>3. QED
      BY <2>1, <2>2
<1> HIDE DEF w
<1>6. /\ u.pref = t.pref /\ u.nav = t.nav /\ u.visible = t.visible /\ u.requests = t.requests
      /\ u.failed = t.failed /\ u.level = t.level /\ u.page = t.page /\ u.uses = t.uses
      /\ u.lists = w /\ u \in TreesKnown
    BY <1>3, <1>5 DEF TreesKnown
<1> HIDE DEF u
<1>7. SameTree(u, t)
    BY <1>2, <1>4, <1>5, <1>6 DEF SameTree
<1>8. \A i \in DOMAIN t.lists : ListHonest(w[i]) /\ GreyFits(w[i], t.level)
  <2> TAKE i \in DOMAIN t.lists
  <2>1. /\ w[i].made = t.lists[i].made /\ w[i].open = t.lists[i].open
        /\ w[i].shown = t.lists[i].shown /\ w[i].sliding = t.lists[i].sliding
        /\ w[i].grey = {n \in t.lists[i].made : NodeLevel[n] > t.level}
      BY Zenon, <1>2, <1>4
  <2>2. ListHonest(t.lists[i])
      OBVIOUS
  <2>3. QED
      BY <2>1, <2>2 DEF ListHonest, EndsOpen, GreyFits
<1>9. QED
    BY <1>5, <1>6, <1>7, <1>8 DEF AllHonest, u

-----------------------------------------------------------------------------
(* Opening and closing a node.                                              *)

(* What a click does to the list with the node.                              *)
LEMMA OneListTwice ==
    ASSUME NEW t \in TreesKnown, NEW i \in DOMAIN t.lists, NEW l \in NodeLists, NEW m \in NodeLists
    PROVE  OneList(OneList(t, i, l), i, m) = OneList(t, i, m)
<1> DEFINE u == OneList(t, i, l)
           w == [t.lists EXCEPT ![i] = l]
           v == [t.lists EXCEPT ![i] = m]
<1>1. t.lists \in Seq(NodeLists)
    BY DEF TreesKnown
<1>2. [w EXCEPT ![i] = m] = v
    BY <1>1
<1>3. u = [t EXCEPT !.lists = w] /\ OneList(t, i, m) = [t EXCEPT !.lists = v]
    BY Zenon DEF OneList
<1>4. OneList(u, i, m) = [u EXCEPT !.lists = [u.lists EXCEPT ![i] = m]]
    BY Zenon DEF OneList
<1> HIDE DEF w, v, u
<1>5. u.lists = w
    BY <1>3 DEF TreesKnown
<1>6. OneList(u, i, m) = [u EXCEPT !.lists = v]
    BY Zenon, <1>2, <1>4, <1>5
<1>7. [u EXCEPT !.lists = v] = [t EXCEPT !.lists = v]
    BY <1>3 DEF TreesKnown
<1>8. QED
    BY Zenon, <1>3, <1>6, <1>7 DEF u

SentDown(t, i, node) ==
    [t EXCEPT !.lists[i].made = @ \union NodesUnder(node), !.lists[i].open = @ \union {node},
              !.lists[i].sliding[node] = Append(@, "down")]

SentUp(t, i, node) ==
    [t EXCEPT !.lists[i].open = @ \ {node}, !.lists[i].sliding[node] = Append(@, "up")]

(* Two stages of a change to one list.                                       *)
LEMMA ThenOneList ==
    ASSUME NEW t \in TreesKnown, NEW i \in DOMAIN t.lists, NEW l \in NodeLists, t.lists[i].made \subseteq l.made
    PROVE  /\ OneList(t, i, l).lists[i] = l
           /\ \A m \in NodeLists : OneList(OneList(t, i, l), i, m) = OneList(t, i, m)
BY Zenon, OneListTwice, OneListChanges

LEMMA MadeOnly ==
    ASSUME NEW l \in NodeLists, NEW made \in SUBSET TreeNodes
    PROVE  [l EXCEPT !.made = made] \in NodeLists /\ [l EXCEPT !.made = made].made = made
           /\ [l EXCEPT !.made = made].open = l.open
BY DEF NodeLists

LEMMA OpenOnly ==
    ASSUME NEW l \in NodeLists, NEW open \in SUBSET Branches
    PROVE  [l EXCEPT !.open = open] \in NodeLists /\ [l EXCEPT !.open = open].made = l.made
           /\ [l EXCEPT !.open = open].sliding = l.sliding
BY DEF NodeLists

LEMMA SlidingOnly ==
    ASSUME NEW l \in NodeLists, NEW node \in Branches, NEW way \in Ways
    PROVE  [l EXCEPT !.sliding = [l.sliding EXCEPT ![node] = Append(l.sliding[node], way)]] \in NodeLists
<1> DEFINE s == [l.sliding EXCEPT ![node] = Append(l.sliding[node], way)]
<1>1. s \in [Branches -> Seq(Ways)]
  <2>1. l.sliding \in [Branches -> Seq(Ways)]
      BY DEF NodeLists
  <2>2. Append(l.sliding[node], way) \in Seq(Ways)
      BY <2>1
  <2>3. QED
      BY <2>1, <2>2
<1> HIDE DEF s
<1>2. [l EXCEPT !.sliding = s] \in NodeLists
    BY <1>1 DEF NodeLists
<1>3. QED
    BY Zenon, <1>2 DEF s

LEMMA UpIsSent ==
    ASSUME NEW t \in TreesKnown, NEW i \in DOMAIN t.lists, NEW node \in Branches
    PROVE  SentUp(t, i, node) = OneList(t, i, Sent(t.lists[i], node, "up", t.lists[i].made))
<1> DEFINE l == t.lists[i]
           l2 == [l EXCEPT !.open = l.open \ {node}]
           l3 == [l2 EXCEPT !.sliding = [l2.sliding EXCEPT ![node] = Append(l2.sliding[node], "up")]]
           u2 == [t EXCEPT !.lists[i].open = @ \ {node}]
           u3 == [u2 EXCEPT !.lists[i].sliding[node] = Append(@, "up")]
           k == u2.lists[i]
<1>1. SentUp(t, i, node) = u3
    BY Zenon DEF SentUp
<1>2. u2 = OneList(t, i, l2)
    BY Zenon DEF OneList
<1>3. u3 = OneList(u2, i, [k EXCEPT !.sliding = [k.sliding EXCEPT ![node] = Append(k.sliding[node], "up")]])
    BY Zenon DEF OneList
<1>4. l \in NodeLists /\ l.open \ {node} \in SUBSET Branches
  <2>1. l \in NodeLists
      BY DEF TreesKnown
  <2>2. QED
      BY <2>1 DEF NodeLists
<1> HIDE DEF u3, u2, k
<1>5. l2 \in NodeLists /\ l2.made = l.made /\ l2.sliding = l.sliding
    BY <1>4, OpenOnly
<1>6. Sent(l, node, "up", l.made) = l3
  <2>1. Sent(l, node, "up", l.made) = [[l EXCEPT !.made = l.made] EXCEPT !.open = l.open \ {node},
                !.sliding = [l.sliding EXCEPT ![node] = Append(l.sliding[node], "up")]]
      BY DEF Sent
  <2>2. [l EXCEPT !.made = l.made] = l
      BY <1>4 DEF NodeLists
  <2>3. l3 = [l EXCEPT !.open = l.open \ {node},
                !.sliding = [l.sliding EXCEPT ![node] = Append(l.sliding[node], "up")]]
      BY Zenon, <1>5
  <2>4. QED
      BY Zenon, <2>1, <2>2, <2>3
<1>7. l3 \in NodeLists
    BY <1>5, SlidingOnly DEF Ways
<1> HIDE DEF l2
<1>8. k = l2
    BY Zenon, <1>2, <1>4, <1>5, OneListChanges DEF k
<1> HIDE DEF l3
<1>9. u3 = OneList(u2, i, l3)
    BY Zenon, <1>3, <1>8 DEF l3
<1>10. u3 = OneList(t, i, l3)
    BY Zenon, <1>2, <1>4, <1>5, <1>7, <1>9, OneListTwice
<1>11. QED
    BY Zenon, <1>1, <1>6, <1>10

LEMMA DownIsSent ==
    ASSUME NEW t \in TreesKnown, NEW i \in DOMAIN t.lists, NEW node \in Branches
    PROVE  SentDown(t, i, node)
             = OneList(t, i, Sent(t.lists[i], node, "down", t.lists[i].made \union NodesUnder(node)))
<1> DEFINE l == t.lists[i]
           made == l.made \union NodesUnder(node)
           l1 == [l EXCEPT !.made = made]
           l2 == [l1 EXCEPT !.open = l1.open \union {node}]
           l3 == [l2 EXCEPT !.sliding = [l2.sliding EXCEPT ![node] = Append(l2.sliding[node], "down")]]
           u1 == [t EXCEPT !.lists[i].made = @ \union NodesUnder(node)]
           u2 == [u1 EXCEPT !.lists[i].open = @ \union {node}]
           u3 == [u2 EXCEPT !.lists[i].sliding[node] = Append(@, "down")]
           j == u1.lists[i]
           k == u2.lists[i]
<1>1. SentDown(t, i, node) = u3
    BY Zenon DEF SentDown
<1>2. u1 = OneList(t, i, l1)
    BY Zenon DEF OneList
<1>3. u2 = OneList(u1, i, [j EXCEPT !.open = j.open \union {node}])
    BY Zenon DEF OneList
<1>4. u3 = OneList(u2, i, [k EXCEPT !.sliding = [k.sliding EXCEPT ![node] = Append(k.sliding[node], "down")]])
    BY Zenon DEF OneList
<1> HIDE DEF u3, u2, u1, k, j
<1>5. l \in NodeLists /\ made \in SUBSET TreeNodes /\ l.open \union {node} \in SUBSET Branches
      /\ l.made \subseteq made
  <2>1. l \in NodeLists
      BY DEF TreesKnown
  <2>2. QED
      BY <2>1, BranchesAreNodes DEF NodeLists
<1> HIDE DEF made
<1>6. l1 \in NodeLists /\ l1.made = made /\ l1.open = l.open
    BY <1>5, MadeOnly
<1>7. l2 \in NodeLists /\ l2.made = made /\ l2.sliding = l1.sliding
    BY <1>5, <1>6, OpenOnly
<1>8. l3 \in NodeLists
    BY <1>7, SlidingOnly DEF Ways
<1>9. Sent(l, node, "down", made) = l3
  <2>1. l1.sliding = l.sliding
      BY <1>5 DEF NodeLists
  <2>2. l3 = [l EXCEPT !.made = made, !.open = l.open \union {node},
                !.sliding = [l.sliding EXCEPT ![node] = Append(l.sliding[node], "down")]]
      BY Zenon, <1>6, <1>7, <2>1
  <2>3. QED
      BY Zenon, <2>2 DEF Sent
<1> HIDE DEF l3, l2, l1
<1>10. j = l1
    BY Zenon, <1>2, <1>5, <1>6, OneListChanges DEF j
<1>11. u2 = OneList(u1, i, l2)
    BY Zenon, <1>3, <1>10 DEF l2
<1>12. u2 = OneList(t, i, l2)
    BY Zenon, <1>2, <1>5, <1>6, <1>7, <1>11, OneListTwice
<1>13. k = l2
    BY Zenon, <1>12, <1>5, <1>7, OneListChanges DEF k
<1>14. u3 = OneList(u2, i, l3)
    BY Zenon, <1>4, <1>13 DEF l3
<1>15. u3 = OneList(t, i, l3)
    BY Zenon, <1>12, <1>5, <1>7, <1>8, <1>14, OneListTwice
<1>16. QED
    BY Zenon, <1>1, <1>9, <1>15 DEF made

(* What expand_node and collapse_node make of an honest tree.                *)
Expands(u, t, i, node) ==
    /\ u \in TreesKnown /\ AllHonest(u) /\ SameTree(u, t)
    /\ node \in Branches => NodesUnder(node) \subseteq u.lists[i].made

LEMMA OthersHonest ==
    ASSUME NEW t \in TreesKnown, AllHonest(t), NEW i \in DOMAIN t.lists, NEW l \in NodeLists,
           t.lists[i].made \subseteq l.made, ListHonest(l)
    PROVE  \A j \in DOMAIN OneList(t, i, l).lists : ListHonest(OneList(t, i, l).lists[j])
<1> DEFINE u == OneList(t, i, l)
<1>0. /\ SameTree(u, t) /\ u.lists[i] = l
      /\ \A j \in DOMAIN t.lists \ {i} : u.lists[j] = t.lists[j]
    BY Zenon, OneListChanges
<1> HIDE DEF u
<1>1. /\ DOMAIN u.lists = DOMAIN t.lists /\ u.lists[i] = l
      /\ \A j \in DOMAIN t.lists \ {i} : u.lists[j] = t.lists[j]
    BY <1>0 DEF SameTree
<1>2. \A j \in DOMAIN t.lists : ListHonest(t.lists[j])
    BY Zenon DEF AllHonest
<1>3. QED
    BY Zenon, <1>1, <1>2 DEF u

LEMMA SameTreeTwice ==
    ASSUME NEW t, NEW u, NEW v, SameTree(u, t), SameTree(v, u)
    PROVE  SameTree(v, t)
BY DEF SameTree

LEMMA ExpandKeeps ==
    ASSUME NEW t \in TreesKnown, AllHonest(t), NEW i \in DOMAIN t.lists, NEW node \in TreeNodes
    PROVE  Expands(expand_node(t, i, node), t, i, node)
<1> DEFINE l == t.lists[i]
           made == l.made \union NodesUnder(node)
           m == Sent(l, node, "down", made)
<1>0. l \in NodeLists /\ ListHonest(l) /\ l.made \subseteq made
    BY DEF TreesKnown, AllHonest
<1>1. CASE node \notin Branches \/ node \in l.open
  <2>1. expand_node(t, i, node) = t
      BY Zenon, <1>1 DEF expand_node
  <2>2. SameTree(t, t)
      BY Zenon DEF SameTree
  <2>3. node \in Branches => NodesUnder(node) \subseteq l.made
      BY <1>0, <1>1 DEF ListHonest
  <2>4. QED
      BY Zenon, <2>1, <2>2, <2>3 DEF Expands
<1>2. CASE node \in Branches /\ node \notin l.open
  <2> DEFINE u == OneList(t, i, m)
  <2>1. expand_node(t, i, node) = LevelsApplied(u)
    <3>1. expand_node(t, i, node) = LevelsApplied(SentDown(t, i, node))
        BY Zenon, <1>2 DEF expand_node, SentDown
    <3>2. QED
        BY Zenon, <1>2, <3>1, DownIsSent
  <2>2. m \in NodeLists /\ ListHonest(m) /\ m.made = made
    <3>1. made \in SUBSET TreeNodes /\ NodesUnder(node) \subseteq made /\ "down" \in Ways
        BY <1>0, BranchesAreNodes DEF NodeLists, Ways
    <3> HIDE DEF made
    <3>2. m \in NodeLists /\ ListHonest(m)
        BY <1>0, <1>2, <3>1, SentHonest
    <3>3. IsSent(m, l, node, "down", made)
        BY <1>0, <1>2, <3>1, SentFields
    <3>4. QED
        BY Zenon, <3>2, <3>3 DEF IsSent
  <2> HIDE DEF m
  <2>3. l.made \subseteq m.made
      BY Zenon, <1>0, <2>2
  <2>4. u \in TreesKnown /\ SameTree(u, t) /\ u.lists[i] = m
      BY <2>2, <2>3, OneListChanges
  <2>5. \A j \in DOMAIN u.lists : ListHonest(u.lists[j])
      BY Zenon, <2>2, <2>3, OthersHonest
  <2> HIDE DEF u
  <2>6. LevelsApplied(u) \in TreesKnown /\ AllHonest(LevelsApplied(u)) /\ SameTree(LevelsApplied(u), u)
      BY <2>4, <2>5, LevelsFit
  <2> DEFINE v == LevelsApplied(u)
  <2> HIDE DEF v
  <2>7. SameTree(v, t)
      BY Zenon, <2>4, <2>6, SameTreeTwice DEF v
  <2>8. NodesUnder(node) \subseteq v.lists[i].made
      BY <2>2, <2>4, <2>6 DEF SameTree, v
  <2>9. QED
      BY Zenon, <2>1, <2>6, <2>7, <2>8 DEF Expands, v
<1>3. QED
    BY <1>1, <1>2

LEMMA CollapseKeeps ==
    ASSUME NEW t \in TreesKnown, AllHonest(t), NEW i \in DOMAIN t.lists, NEW node \in Branches
    PROVE  /\ collapse_node(t, i, node) \in TreesKnown /\ AllHonest(collapse_node(t, i, node))
           /\ SameTree(collapse_node(t, i, node), t)
<1> DEFINE l == t.lists[i]
           m == Sent(l, node, "up", l.made)
           u == OneList(t, i, m)
<1>1. collapse_node(t, i, node) = u
  <2>1. collapse_node(t, i, node) = SentUp(t, i, node)
      BY Zenon DEF collapse_node, SentUp
  <2>2. QED
      BY Zenon, <2>1, UpIsSent
<1>2. l \in NodeLists /\ ListHonest(l) /\ GreyFits(l, t.level) /\ l.made \in SUBSET TreeNodes
  <2>1. l \in NodeLists
      BY DEF TreesKnown
  <2>2. QED
      BY <2>1 DEF AllHonest, NodeLists
<1>3. "up" \in Ways /\ ~("up" = "down")
    BY DEF Ways
<1>4. m \in NodeLists /\ ListHonest(m)
    BY <1>2, <1>3, SentHonest
<1>5. m.made = l.made /\ m.grey = l.grey /\ m.levelled = l.levelled
  <2>1. IsSent(m, l, node, "up", l.made)
      BY <1>2, <1>3, SentFields
  <2>2. QED
      BY Zenon, <2>1 DEF IsSent
<1> HIDE DEF m
<1>6. /\ u \in TreesKnown /\ SameTree(u, t) /\ u.lists[i] = m
      /\ \A j \in DOMAIN t.lists \ {i} : u.lists[j] = t.lists[j]
    BY <1>4, <1>5, OneListChanges
<1>7. \A j \in DOMAIN u.lists : ListHonest(u.lists[j])
    BY <1>4, <1>5, OthersHonest
<1> HIDE DEF u
<1>8. GreyFits(m, t.level)
    BY <1>2, <1>5 DEF GreyFits
<1>9. DOMAIN u.lists = DOMAIN t.lists /\ u.level = t.level
    BY <1>6 DEF SameTree
<1>10. \A j \in DOMAIN t.lists : GreyFits(t.lists[j], t.level)
    BY DEF AllHonest
<1>11. AllHonest(u)
    BY Zenon, <1>6, <1>7, <1>8, <1>9, <1>10 DEF AllHonest
<1>12. QED
    BY Zenon, <1>1, <1>6, <1>11

-----------------------------------------------------------------------------
(* A tree that arrives.                                                     *)

(* This page is among the nodes of every list, and the navigation is one.    *)
PageIn(t) == t.page # NoMom => \A j \in DOMAIN t.lists : t.page \in t.lists[j].made

OneNavigation(t) ==
    /\ t.visible = t.pref /\ t.nav = t.pref
    /\ t.visible = "tree" /\ ~t.failed => t.lists # <<>> \/ t.requests > 0

TreeGood(t) == t \in TreesKnown /\ AllHonest(t) /\ PageIn(t) /\ OneNavigation(t)

LEMMA SameTreeIsGood ==
    ASSUME NEW t, TreeGood(t), NEW u \in TreesKnown, AllHonest(u), SameTree(u, t)
    PROVE  TreeGood(u)
<1>1. t.lists \in Seq(NodeLists) /\ u.lists \in Seq(NodeLists) /\ Len(u.lists) = Len(t.lists)
    BY DEF TreeGood, TreesKnown, SameTree
<1>2. u.lists = <<>> <=> t.lists = <<>>
    BY <1>1
<1>3. PageIn(u)
    BY DEF PageIn, SameTree, TreeGood
<1>4. OneNavigation(u)
    BY <1>2 DEF OneNavigation, SameTree, TreeGood
<1>5. QED
    BY <1>3, <1>4 DEF TreeGood

LEMMA UseKeeps == ASSUME NEW t, TreeGood(t) PROVE TreeGood(UseTree(t)) /\ UseTree(t).lists = t.lists
<1> DEFINE u == UseTree(t)
<1>1. /\ u.pref = t.pref /\ u.nav = t.nav /\ u.visible = t.visible /\ u.requests = t.requests
      /\ u.failed = t.failed /\ u.level = t.level /\ u.page = t.page /\ u.lists = t.lists
      /\ u \in TreesKnown
    BY DEF TreeGood, TreesKnown, UseTree
<1> HIDE DEF u
<1>2. QED
    BY <1>1 DEF TreeGood, AllHonest, PageIn, OneNavigation, u

(* A list that has just been appended.                                       *)
TopList == [made |-> NodesUnder(NoMom), open |-> {}, shown |-> {}, grey |-> {},
            levelled |-> FALSE, sliding |-> [n \in Branches |-> <<>>]]

WithTop(t) == [t EXCEPT !.lists = Append(@, TopList), !.requests = @ - 1]

LEMMA TopIsHonest == TopList \in NodeLists /\ ListHonest(TopList) /\ ~TopList.levelled
                     /\ TopList.made = NodesUnder(NoMom)
<1>1. <<>> \in Seq(Ways)
    OBVIOUS
<1>2. TopList.sliding \in [Branches -> Seq(Ways)] /\ \A n \in Branches : TopList.sliding[n] = <<>>
    BY <1>1 DEF TopList
<1>3. TopList \in NodeLists
    BY <1>2, BranchesAreNodes DEF TopList, NodeLists
<1>4. TopList.shown = {} /\ TopList.open = {} /\ ~TopList.levelled /\ TopList.made = NodesUnder(NoMom)
    BY DEF TopList
<1>5. ListHonest(TopList)
    BY <1>2, <1>4 DEF ListHonest, EndsOpen
<1>6. QED
    BY <1>3, <1>4, <1>5

LEMMA TopAppended ==
    ASSUME NEW t, TreeGood(t), t.requests > 0
    PROVE  LET u == WithTop(t)
           IN  /\ u \in TreesKnown /\ AllHonest(u) /\ u.requests = t.requests - 1
               /\ u.pref = t.pref /\ u.nav = t.nav /\ u.visible = t.visible /\ u.page = t.page
               /\ Len(u.lists) = Len(t.lists) + 1 /\ Len(t.lists) \in Nat
               /\ DOMAIN u.lists = 1 .. Len(t.lists) + 1
               /\ u.lists[Len(t.lists) + 1] = TopList
               /\ \A j \in 1 .. Len(t.lists) : u.lists[j] = t.lists[j] /\ j \in DOMAIN t.lists
<1> DEFINE u == WithTop(t)
           w == Append(t.lists, TopList)
<1>1. t \in TreesKnown /\ t.lists \in Seq(NodeLists) /\ TopList \in NodeLists
    BY TopIsHonest DEF TreeGood, TreesKnown
<1>2. /\ w \in Seq(NodeLists) /\ Len(w) = Len(t.lists) + 1 /\ Len(t.lists) \in Nat
      /\ DOMAIN w = 1 .. Len(t.lists) + 1 /\ w[Len(t.lists) + 1] = TopList
      /\ \A j \in 1 .. Len(t.lists) : w[j] = t.lists[j] /\ j \in DOMAIN t.lists
  <2> HIDE DEF TopList
  <2>1. QED
      BY <1>1
<1>3. u = [t EXCEPT !.lists = w, !.requests = t.requests - 1]
    BY Zenon DEF WithTop
<1> HIDE DEF w, TopList, u
<1>4. t.requests - 1 \in Nat
    BY <1>1 DEF TreesKnown
<1>5. /\ u.pref = t.pref /\ u.nav = t.nav /\ u.visible = t.visible /\ u.page = t.page
      /\ u.level = t.level /\ u.lists = w /\ u.requests = t.requests - 1 /\ u \in TreesKnown
    BY <1>1, <1>2, <1>3, <1>4 DEF TreesKnown
<1>6. \A j \in 1 .. Len(t.lists) + 1 : ListHonest(w[j]) /\ GreyFits(w[j], t.level)
  <2> TAKE j \in 1 .. Len(t.lists) + 1
  <2>1. CASE j = Len(t.lists) + 1
      BY <1>2, <2>1, TopIsHonest DEF GreyFits
  <2>2. CASE j \in 1 .. Len(t.lists)
    <3>1. w[j] = t.lists[j] /\ j \in DOMAIN t.lists
        BY <1>2, <2>2
    <3>2. ListHonest(t.lists[j]) /\ GreyFits(t.lists[j], t.level)
        BY Zenon, <3>1 DEF TreeGood, AllHonest
    <3>3. QED
        BY Zenon, <3>1, <3>2
  <2>3. QED
      BY <1>2, <2>1, <2>2
<1>7. AllHonest(u)
    BY Zenon, <1>2, <1>5, <1>6 DEF AllHonest
<1>8. QED
    BY Zenon, <1>2, <1>5, <1>7 DEF u

(* The nodes on the way to the page are opened one by one.                   *)
Opens(f, top, i, path) ==
    f = [k \in 0 .. Len(path) |-> IF k = 0 THEN top ELSE expand_node(f[k-1], i, path[k])]

Opener(top, i, path) == CHOOSE f : Opens(f, top, i, path)

LEMMA InitNavtreeIs ==
    ASSUME NEW t
    PROVE  init_navtree(t) = Opener(WithTop(t), Len(WithTop(t).lists), find_page[t.page])[Len(find_page[t.page])]
BY Zenon DEF init_navtree, Opener, Opens, WithTop, TopList

SoFar(u, top) == u \in TreesKnown /\ AllHonest(u) /\ SameTree(u, top)

LEMMA OpenerOpens ==
    ASSUME NEW top \in TreesKnown, AllHonest(top), NEW i \in DOMAIN top.lists, NEW path \in Seq(TreeNodes)
    PROVE  Opens(Opener(top, i, path), top, i, path)
<1> DEFINE R == {u \in TreesKnown : SoFar(u, top)}
           n == Len(path)
           h == [k \in 1 .. n |-> [u \in R |-> expand_node(u, i, path[k])]]
<1>1. n \in Nat /\ \A k \in 1 .. n : path[k] \in TreeNodes
    OBVIOUS
<1>2. top \in R
    BY DEF SoFar, SameTree
<1>3. \A k \in 1 .. n, u \in R : expand_node(u, i, path[k]) \in R
  <2> TAKE k \in 1 .. n, u \in R
  <2>1. u \in TreesKnown /\ AllHonest(u) /\ SameTree(u, top) /\ i \in DOMAIN u.lists
      BY DEF SoFar, SameTree
  <2>2. path[k] \in TreeNodes
      BY <1>1
  <2>3. Expands(expand_node(u, i, path[k]), u, i, path[k])
      BY Zenon, <2>1, <2>2, ExpandKeeps
  <2>4. QED
      BY Zenon, <2>1, <2>3, SameTreeTwice DEF Expands, SoFar
<1> HIDE DEF R, n
<1>4. h \in Rules(n, R) /\ \A k \in 1 .. n, u \in R : h[k][u] = expand_node(u, i, path[k])
  <2>1. \A k \in 1 .. n : [u \in R |-> expand_node(u, i, path[k])] \in [R -> R]
      BY <1>3
  <2>2. QED
      BY Zenon, <2>1 DEF Rules
<1> HIDE DEF h
<1>5. PICK f : Follows(f, n, R, top, h)
    BY <1>1, <1>2, <1>4, RecursionExists
<1>6. f \in [0 .. n -> R] /\ f[0] = top /\ \A k \in 1 .. n : f[k] = h[k][f[k-1]] /\ f[k-1] \in R
  <2>1. \A k \in 1 .. n : k - 1 \in 0 .. n
      BY <1>1
  <2>2. QED
      BY <1>5, <2>1 DEF Follows
<1>7. \A k \in 0 .. n : f[k] = IF k = 0 THEN top ELSE expand_node(f[k-1], i, path[k])
  <2>1. \A k \in 0 .. n : k = 0 \/ k \in 1 .. n
      BY <1>1
  <2>2. QED
      BY Zenon, <1>4, <1>6, <2>1
<1>8. f = [k \in 0 .. n |-> f[k]]
    BY <1>6
<1>9. Opens(f, top, i, path)
    BY Zenon, <1>7, <1>8 DEF Opens, n
<1>10. QED
    BY Zenon, <1>9 DEF Opener

(* After k of them the next one is there.                                    *)
OpenedTo(u, top, i, path, k) ==
    SoFar(u, top) /\ (k > 0 /\ path[k] \in Branches => NodesUnder(path[k]) \subseteq u.lists[i].made)

LEMMA OpensToPage ==
    ASSUME NEW top \in TreesKnown, AllHonest(top), NEW i \in DOMAIN top.lists,
           top.lists[i].made = NodesUnder(NoMom), NEW n \in TreeNodes, NEW path, PathTo(path, n)
    PROVE  /\ SoFar(Opener(top, i, path)[Len(path)], top)
           /\ n \in Opener(top, i, path)[Len(path)].lists[i].made
<1> DEFINE f == Opener(top, i, path)
           m == Len(path)
           B == {k \in 0 .. m : OpenedTo(f[k], top, i, path, k)}
<1>1. path \in Seq(TreeNodes) /\ m \in Nat \ {0} /\ path[m] = n /\ \A k \in 1 .. m : path[k] \in TreeNodes
  <2>1. path \in Seq(TreeNodes) /\ path # <<>> /\ path[m] = n
      BY DEF PathTo
  <2>2. QED
      BY <2>1, EmptySeq
<1>2. Opens(f, top, i, path)
    BY <1>1, OpenerOpens
<1> HIDE DEF f
<1>3. f[0] = top /\ \A k \in 1 .. m : f[k] = expand_node(f[k-1], i, path[k])
  <2>1. 0 \in 0 .. m /\ \A k \in 1 .. m : k \in 0 .. m /\ k # 0
      BY <1>1
  <2>2. QED
      BY Zenon, <1>2, <2>1 DEF Opens
<1>4. 0 \in B
    BY <1>1, <1>3 DEF OpenedTo, SoFar, SameTree
<1>5. ASSUME NEW k \in 1 .. m, k - 1 \in B PROVE k \in B
  <2> DEFINE u == f[k-1]
  <2>1. u \in TreesKnown /\ AllHonest(u) /\ SameTree(u, top) /\ i \in DOMAIN u.lists
      BY <1>5 DEF OpenedTo, SoFar, SameTree
  <2>2. path[k] \in TreeNodes
      BY <1>1
  <2> HIDE DEF u
  <2>3. Expands(expand_node(u, i, path[k]), u, i, path[k])
      BY Zenon, <2>1, <2>2, ExpandKeeps
  <2>4. f[k] = expand_node(u, i, path[k])
      BY Zenon, <1>3 DEF u
  <2>5. OpenedTo(f[k], top, i, path, k)
      BY Zenon, <2>1, <2>3, <2>4, SameTreeTwice DEF Expands, OpenedTo, SoFar
  <2>6. k \in 0 .. m
      BY <1>1
  <2>7. QED
      BY Zenon, <2>5, <2>6
<1>6. B = 0 .. m
  <2>1. B \in SUBSET (0 .. m)
      OBVIOUS
  <2> HIDE DEF B
  <2>2. QED
      BY <1>1, <1>4, <1>5, <2>1, UpTo
<1>7. \A k \in 0 .. m : OpenedTo(f[k], top, i, path, k)
    BY <1>6
<1>8. SoFar(f[m], top)
    BY <1>1, <1>7 DEF OpenedTo
<1>9. n \in f[m].lists[i].made
  <2>1. CASE m = 1
    <3>1. Mom[n] = NoMom
        BY <1>1, <2>1 DEF PathTo
    <3>2. n \in top.lists[i].made
        BY <3>1 DEF NodesUnder
    <3>3. QED
        BY <1>8, <3>2 DEF SoFar, SameTree
  <2>2. CASE m # 1
    <3>1. m - 1 \in 1 .. m /\ m - 1 \in 0 .. m /\ m - 1 > 0 /\ m \in 1 .. m
      <4>1. m \in Nat \ {0} /\ m # 1
          BY <1>1, <2>2
      <4> HIDE DEF m
      <4>2. QED
          BY <4>1
    <3>2. Mom[n] = path[m-1] /\ path[m-1] \in TreeNodes
        BY <1>1, <2>2, <3>1 DEF PathTo
    <3>3. path[m-1] \in Branches /\ n \in NodesUnder(path[m-1])
        BY <3>2, BranchesAreNodes, TreeShape
    <3>4. n \in f[m-1].lists[i].made
        BY <1>7, <3>1, <3>3 DEF OpenedTo
    <3>5. SoFar(f[m-1], top)
        BY <1>7, <3>1 DEF OpenedTo
    <3>6. Expands(f[m], f[m-1], i, path[m])
      <4>1. f[m-1] \in TreesKnown /\ AllHonest(f[m-1]) /\ i \in DOMAIN f[m-1].lists
          BY <3>5 DEF SoFar, SameTree
      <4>2. f[m] = expand_node(f[m-1], i, path[m])
          BY <1>3, <3>1
      <4>3. QED
          BY <1>1, <3>1, <4>1, <4>2, ExpandKeeps
    <3>7. i \in DOMAIN f[m-1].lists
        BY <3>5 DEF SoFar, SameTree
    <3>8. QED
        BY <3>4, <3>6, <3>7 DEF Expands, SameTree
  <2>3. QED
      BY <2>1, <2>2
<1>10. QED
    BY Zenon, <1>8, <1>9 DEF f

LEMMA InitNavtreeKeeps ==
    ASSUME NEW t, TreeGood(t), t.requests > 0
    PROVE  TreeGood(init_navtree(t))
<1> DEFINE top == WithTop(t)
           i == Len(top.lists)
           path == find_page[t.page]
           u == init_navtree(t)
<1>1. /\ top \in TreesKnown /\ AllHonest(top) /\ top.requests = t.requests - 1
      /\ top.pref = t.pref /\ top.nav = t.nav /\ top.visible = t.visible /\ top.page = t.page
      /\ Len(top.lists) = Len(t.lists) + 1 /\ Len(t.lists) \in Nat
      /\ DOMAIN top.lists = 1 .. Len(t.lists) + 1
      /\ top.lists[Len(t.lists) + 1] = TopList
      /\ \A j \in 1 .. Len(t.lists) : top.lists[j] = t.lists[j] /\ j \in DOMAIN t.lists
    BY Zenon, TopAppended
<1>2. u = Opener(top, i, path)[Len(path)]
    BY Zenon, InitNavtreeIs
<1> HIDE DEF top, u
<1>3. i \in DOMAIN top.lists /\ top.lists[i].made = NodesUnder(NoMom) /\ i = Len(t.lists) + 1
    BY <1>1, TopIsHonest
<1>4. t.page \in TreeNodes \union {NoMom}
    BY DEF TreeGood, TreesKnown
<1>5. SoFar(u, top) /\ (t.page # NoMom => t.page \in u.lists[i].made)
  <2>1. CASE t.page = NoMom
    <3>1. path = <<>> /\ Len(path) = 0 /\ path \in Seq(TreeNodes)
        BY <2>1, FindPageLeadsDown
    <3> HIDE DEF i, path
    <3>2. Opens(Opener(top, i, path), top, i, path)
        BY <1>1, <1>3, <3>1, OpenerOpens DEF i
    <3>3. 0 \in 0 .. Len(path)
        BY <3>1
    <3>4. u = top
        BY Zenon, <1>2, <3>1, <3>2, <3>3 DEF Opens
    <3>5. SameTree(top, top)
        BY Zenon DEF SameTree
    <3>6. QED
        BY Zenon, <1>1, <2>1, <3>4, <3>5 DEF SoFar
  <2>2. CASE t.page \in TreeNodes
    <3>1. PathTo(path, t.page)
        BY Zenon, <2>2, FindPageLeadsDown
    <3> HIDE DEF path
    <3>2. QED
        BY Zenon, <1>1, <1>2, <1>3, <2>2, <3>1, OpensToPage
  <2>3. QED
      BY <1>4, <2>1, <2>2
<1> HIDE DEF i
<1>6. u \in TreesKnown /\ AllHonest(u) /\ SameTree(u, top)
    BY <1>5 DEF SoFar
<1>7. PageIn(u)
  <2>1. u.page = t.page /\ DOMAIN u.lists = 1 .. Len(t.lists) + 1
      BY <1>1, <1>6 DEF SameTree
  <2>2. ASSUME NEW j \in 1 .. Len(t.lists) + 1, t.page # NoMom PROVE t.page \in u.lists[j].made
    <3>1. CASE j = Len(t.lists) + 1
        BY <1>3, <1>5, <2>2, <3>1
    <3>2. CASE j \in 1 .. Len(t.lists)
      <4>1. top.lists[j] = t.lists[j] /\ j \in DOMAIN t.lists /\ j \in DOMAIN top.lists
          BY <1>1, <3>2
      <4>2. t.page \in t.lists[j].made
          BY <2>2, <4>1 DEF TreeGood, PageIn
      <4>3. QED
          BY <1>6, <4>1, <4>2 DEF SameTree
    <3>3. QED
        BY <1>1, <2>2, <3>1, <3>2
  <2>3. QED
      BY Zenon, <2>1, <2>2 DEF PageIn
<1>8. OneNavigation(u)
  <2>1. u.lists \in Seq(NodeLists) /\ Len(u.lists) = Len(t.lists) + 1
      BY <1>1, <1>6 DEF SameTree, TreesKnown
  <2>2. u.lists # <<>>
      BY <2>1, <1>1
  <2>3. u.visible = u.pref /\ u.nav = u.pref
      BY <1>1, <1>6 DEF SameTree, TreeGood, OneNavigation
  <2>4. QED
      BY <2>2, <2>3 DEF OneNavigation
<1>9. QED
    BY Zenon, <1>6, <1>7, <1>8 DEF TreeGood, u

-----------------------------------------------------------------------------
(* The trees together.                                                      *)

LEMMA LoadedIsGood ==
    ASSUME NEW pref \in {"tree", "panels"}, NEW level \in ApiLevels, NEW p \in TreeNodes \union {NoMom}, NEW k \in Nat
    PROVE  TreeGood(LoadedTree(pref, level, p, k))
<1> DEFINE t == LoadedTree(pref, level, p, k)
<1>1. t \in TreesKnown /\ t.lists = <<>> /\ t.visible = pref /\ t.nav = pref /\ t.pref = pref
      /\ (pref = "tree" => t.requests > 0)
  <2>1. <<>> \in Seq(NodeLists)
      OBVIOUS
  <2>2. (IF pref = "tree" THEN 1 ELSE 0) \in Nat
      OBVIOUS
  <2>3. QED
      BY <2>1, <2>2 DEF LoadedTree, TreesKnown
<1> HIDE DEF t
<1>2. DOMAIN t.lists = {}
    BY <1>1
<1>3. AllHonest(t) /\ PageIn(t) /\ OneNavigation(t)
    BY <1>1, <1>2 DEF AllHonest, PageIn, OneNavigation
<1>4. QED
    BY Zenon, <1>1, <1>3 DEF TreeGood, t

LEMMA TreeStarts == TreeInit \/ TreeRest => TreeGood(tree)
<1>1. ASSUME TreeInit PROVE TreeGood(tree)
    BY <1>1, LoadedIsGood DEF TreeInit
<1>2. ASSUME TreeRest PROVE TreeGood(tree)
  <2>1. (CHOOSE l \in ApiLevels : TRUE) \in ApiLevels
      BY TreeAssumption
  <2>2. QED
      BY <1>2, <2>1, LoadedIsGood DEF TreeRest
<1>3. QED
    BY <1>1, <1>2

LEMMA LevelsKeep ==
    ASSUME NEW t, TreeGood(t) PROVE TreeGood(LevelsApplied(t))
<1>1. t \in TreesKnown /\ \A i \in DOMAIN t.lists : ListHonest(t.lists[i])
    BY Zenon DEF TreeGood, AllHonest
<1>2. LevelsApplied(t) \in TreesKnown /\ AllHonest(LevelsApplied(t)) /\ SameTree(LevelsApplied(t), t)
    BY <1>1, LevelsFit
<1>3. QED
    BY Zenon, <1>2, SameTreeIsGood

(* A change of level, which spoils what is grey until it is applied.         *)
LEMMA RelevelKeeps ==
    ASSUME NEW t, TreeGood(t), NEW level \in ApiLevels
    PROVE  TreeGood(LevelsApplied([t EXCEPT !.level = level]))
<1> DEFINE u == [t EXCEPT !.level = level]
<1>1. /\ u.pref = t.pref /\ u.nav = t.nav /\ u.visible = t.visible /\ u.requests = t.requests
      /\ u.failed = t.failed /\ u.page = t.page /\ u.uses = t.uses /\ u.lists = t.lists /\ u \in TreesKnown
    BY DEF TreeGood, TreesKnown
<1> HIDE DEF u
<1>2. \A i \in DOMAIN u.lists : ListHonest(u.lists[i])
    BY <1>1 DEF TreeGood, AllHonest
<1> DEFINE v == LevelsApplied(u)
<1>3. v \in TreesKnown /\ AllHonest(v) /\ SameTree(v, u)
    BY <1>1, <1>2, LevelsFit
<1> HIDE DEF v
<1>4. t.lists \in Seq(NodeLists) /\ v.lists \in Seq(NodeLists) /\ Len(v.lists) = Len(t.lists)
    BY <1>1, <1>3 DEF TreeGood, TreesKnown, SameTree
<1>5. v.lists = <<>> <=> t.lists = <<>>
    BY <1>4
<1>6. PageIn(v)
    BY <1>1, <1>3 DEF PageIn, SameTree, TreeGood
<1>7. OneNavigation(v)
    BY <1>1, <1>3, <1>5 DEF OneNavigation, SameTree, TreeGood
<1>8. QED
    BY <1>3, <1>6, <1>7 DEF TreeGood, u, v

LEMMA SwapKeeps == ASSUME TreeGood(tree), swapNav PROVE TreeGood(tree')
<1> DEFINE t == UseTree(tree)
           to == IF tree.nav = "tree" THEN "panels" ELSE "tree"
           swap == [t EXCEPT !.nav = to, !.pref = to,
                             !.visible = IF @ = "tree" THEN "panels" ELSE "tree"]
           asks == [swap EXCEPT !.requests = @ + 1]
<1>1. tree' = IF to = "panels" THEN swap ELSE LevelsApplied(asks)
    BY Zenon DEF swapNav
<1>2. TreeGood(t) /\ t.nav = tree.nav
  <2>1. t.nav = tree.nav
      BY DEF UseTree, TreeGood, TreesKnown
  <2>2. QED
      BY Zenon, <2>1, UseKeeps
<1> HIDE DEF t
<1>3. t \in TreesKnown /\ t.visible = t.pref /\ t.nav = t.pref
    BY <1>2 DEF TreeGood, OneNavigation
<1>4. to \in {"tree", "panels"} /\ (t.nav \in {"tree", "panels"}) /\ to = IF t.nav = "tree" THEN "panels" ELSE "tree"
    BY <1>2, <1>3 DEF TreesKnown
<1> HIDE DEF to
<1>5. /\ swap.pref = to /\ swap.nav = to /\ swap.visible = to /\ swap.requests = t.requests
      /\ swap.failed = t.failed /\ swap.level = t.level /\ swap.page = t.page /\ swap.lists = t.lists
      /\ swap \in TreesKnown
    BY <1>3, <1>4 DEF TreesKnown
<1>6. /\ asks.pref = to /\ asks.nav = to /\ asks.visible = to /\ asks.requests = t.requests + 1
      /\ asks.failed = t.failed /\ asks.level = t.level /\ asks.page = t.page /\ asks.lists = t.lists
      /\ asks \in TreesKnown /\ asks.requests > 0
  <2> HIDE DEF swap
  <2>1. t.requests \in Nat
      BY <1>3 DEF TreesKnown
  <2>2. QED
      BY <1>5, <2>1 DEF TreesKnown
<1> HIDE DEF swap, asks
<1>7. CASE to = "panels"
  <2>1. TreeGood(swap)
      BY <1>2, <1>5, <1>7 DEF TreeGood, AllHonest, PageIn, OneNavigation
  <2>2. QED
      BY <1>1, <1>7, <2>1
<1>8. CASE to # "panels"
  <2>1. TreeGood(asks)
      BY <1>2, <1>6 DEF TreeGood, AllHonest, PageIn, OneNavigation
  <2>2. QED
      BY Zenon, <1>1, <1>8, <2>1, LevelsKeep
<1>9. QED
    BY <1>7, <1>8

LEMMA FailKeeps == ASSUME TreeGood(tree), NavtreeFails PROVE TreeGood(tree')
<1>1. /\ tree'.pref = tree.pref /\ tree'.nav = tree.nav /\ tree'.visible = tree.visible
      /\ tree'.failed = TRUE /\ tree'.level = tree.level /\ tree'.page = tree.page /\ tree'.lists = tree.lists
      /\ tree' \in TreesKnown
  <2>1. tree.requests - 1 \in Nat
      BY DEF NavtreeFails, TreeGood, TreesKnown
  <2>2. QED
      BY <2>1 DEF NavtreeFails, TreeGood, TreesKnown
<1>2. QED
    BY <1>1 DEF TreeGood, AllHonest, PageIn, OneNavigation

LEMMA ToggleKeeps == ASSUME TreeGood(tree), ToggleNode PROVE TreeGood(tree')
<1> DEFINE t == UseTree(tree)
<1>1. TreeGood(t) /\ t.lists = tree.lists
    BY Zenon, UseKeeps
<1>2. PICK i \in DOMAIN tree.lists : \E node \in Branches \intersect tree.lists[i].made :
         tree' = IF node \in tree.lists[i].open THEN collapse_node(t, i, node) ELSE expand_node(t, i, node)
    BY Zenon DEF ToggleNode
<1>3. PICK node \in Branches :
         tree' = IF node \in tree.lists[i].open THEN collapse_node(t, i, node) ELSE expand_node(t, i, node)
    BY <1>2
<1> HIDE DEF t
<1>4. i \in DOMAIN t.lists /\ t \in TreesKnown /\ AllHonest(t) /\ node \in TreeNodes
    BY <1>1, BranchesAreNodes DEF TreeGood
<1>5. tree' \in TreesKnown /\ AllHonest(tree') /\ SameTree(tree', t)
  <2>1. CASE node \in tree.lists[i].open
      BY Zenon, <1>3, <1>4, <2>1, CollapseKeeps
  <2>2. CASE node \notin tree.lists[i].open
      BY Zenon, <1>3, <1>4, <2>2, ExpandKeeps DEF Expands
  <2>3. QED
      BY <2>1, <2>2
<1>6. QED
    BY Zenon, <1>1, <1>5, SameTreeIsGood

LEMMA LevelChangeKeeps == ASSUME TreeGood(tree), ChangeLevel PROVE TreeGood(tree')
<1>1. PICK level \in ApiLevels : tree' = LevelsApplied([UseTree(tree) EXCEPT !.level = level])
    BY Zenon DEF ChangeLevel
<1>2. TreeGood(UseTree(tree))
    BY Zenon, UseKeeps
<1>3. QED
    BY Zenon, <1>1, <1>2, RelevelKeeps

LEMMA NextPageKeeps == ASSUME TreeGood(tree), chooseDefaultNav PROVE TreeGood(tree')
<1>1. PICK p \in TreeNodes \union {NoMom} : tree' = LoadedTree(tree.pref, tree.level, p, tree.uses + 1)
    BY Zenon DEF chooseDefaultNav
<1>2. tree.pref \in {"tree", "panels"} /\ tree.level \in ApiLevels /\ tree.uses + 1 \in Nat
    BY DEF TreeGood, TreesKnown
<1>3. QED
    BY Zenon, <1>1, <1>2, LoadedIsGood

(* An animation begins.                                                      *)
Slid(l, node) ==
    [l EXCEPT !.sliding = [l.sliding EXCEPT ![node] = Tail(l.sliding[node])],
              !.shown = IF Head(l.sliding[node]) = "down" THEN l.shown \union {node} ELSE l.shown \ {node}]

LEMMA SlidHonest ==
    ASSUME NEW l \in NodeLists, ListHonest(l), NEW node \in Branches, l.sliding[node] # <<>>
    PROVE  /\ Slid(l, node) \in NodeLists /\ ListHonest(Slid(l, node)) /\ Slid(l, node).made = l.made
           /\ Slid(l, node).grey = l.grey /\ Slid(l, node).levelled = l.levelled
<1> DEFINE m == Slid(l, node)
           s == l.sliding[node]
           slides == [l.sliding EXCEPT ![node] = Tail(s)]
           shows == IF Head(s) = "down" THEN l.shown \union {node} ELSE l.shown \ {node}
<1>1. l.sliding \in [Branches -> Seq(Ways)] /\ l.shown \subseteq Branches /\ s \in Seq(Ways)
    BY DEF NodeLists
<1>2. /\ Tail(s) \in Seq(Ways) /\ Head(s) \in Ways
      /\ Tail(s) = <<>> => s[Len(s)] = Head(s)
      /\ Tail(s) # <<>> => Tail(s)[Len(Tail(s))] = s[Len(s)]
  <2> HIDE DEF s
  <2>1. s # <<>>
      BY DEF s
  <2>2. QED
      BY <1>1, <2>1, LastOfTail
<1>3. m = [l EXCEPT !.sliding = slides, !.shown = shows]
    BY Zenon DEF Slid
<1> HIDE DEF s
<1>4. slides \in [Branches -> Seq(Ways)] /\ shows \subseteq Branches
    BY <1>1, <1>2
<1>5. slides[node] = Tail(s) /\ (\A n \in Branches \ {node} : slides[n] = l.sliding[n] /\ (n \in shows <=> n \in l.shown))
      /\ (node \in shows <=> Head(s) = "down")
    BY <1>1
<1> HIDE DEF m, slides, shows
<1>6. /\ m.sliding = slides /\ m.shown = shows /\ m.made = l.made /\ m.open = l.open
      /\ m.grey = l.grey /\ m.levelled = l.levelled /\ m \in NodeLists
    BY <1>3, <1>4 DEF NodeLists
<1>7. EndsOpen(m, node)
  <2>1. s[Len(s)] = IF node \in l.open THEN "down" ELSE "up"
      BY Zenon DEF ListHonest, EndsOpen, s
  <2>2. CASE Tail(s) = <<>>
    <3>1. (node \in m.shown) = (node \in m.open)
        BY <1>2, <1>5, <1>6, <2>1, <2>2
    <3>2. QED
        BY Zenon, <1>5, <1>6, <2>2, <3>1 DEF EndsOpen
  <2>3. CASE Tail(s) # <<>>
      BY Zenon, <1>2, <1>5, <1>6, <2>1, <2>3 DEF EndsOpen
  <2>4. QED
      BY <2>2, <2>3
<1>8. \A n \in Branches \ {node} : EndsOpen(m, n)
  <2> TAKE n \in Branches \ {node}
  <2>1. m.sliding[n] = l.sliding[n] /\ m.open = l.open /\ (n \in m.shown <=> n \in l.shown)
      BY <1>5, <1>6
  <2>2. EndsOpen(l, n)
      BY DEF ListHonest
  <2>3. QED
      BY <2>1, <2>2 DEF EndsOpen
<1>9. ListHonest(m)
    BY <1>6, <1>7, <1>8 DEF ListHonest
<1>10. QED
    BY Zenon, <1>6, <1>9 DEF m

LEMMA SlideKeeps == ASSUME TreeGood(tree), NodeSlides PROVE TreeGood(tree')
<1>1. PICK i \in DOMAIN tree.lists : \E node \in Branches :
        LET queue == tree.lists[i].sliding[node]
        IN  /\ queue # <<>>
            /\ tree' = [tree EXCEPT !.lists[i].sliding[node] = Tail(queue),
                          !.lists[i].shown = IF Head(queue) = "down" THEN @ \union {node} ELSE @ \ {node}]
    BY Zenon DEF NodeSlides
<1>2. PICK node \in Branches :
        /\ tree.lists[i].sliding[node] # <<>>
        /\ tree' = [tree EXCEPT !.lists[i].sliding[node] = Tail(tree.lists[i].sliding[node]),
                      !.lists[i].shown = IF Head(tree.lists[i].sliding[node]) = "down"
                                         THEN @ \union {node} ELSE @ \ {node}]
    BY <1>1
<1> DEFINE l == tree.lists[i]
           l1 == [l EXCEPT !.sliding = [l.sliding EXCEPT ![node] = Tail(l.sliding[node])]]
           u1 == [tree EXCEPT !.lists[i].sliding[node] = Tail(tree.lists[i].sliding[node])]
           k == u1.lists[i]
           shows(x) == IF Head(l.sliding[node]) = "down" THEN x \union {node} ELSE x \ {node}
<1>3. tree' = OneList(u1, i, [k EXCEPT !.shown = shows(k.shown)])
    BY Zenon, <1>2 DEF OneList
<1>4. u1 = OneList(tree, i, l1)
    BY Zenon DEF OneList
<1>5. tree \in TreesKnown /\ AllHonest(tree) /\ l \in NodeLists /\ ListHonest(l) /\ GreyFits(l, tree.level)
  <2>1. tree \in TreesKnown /\ AllHonest(tree)
      BY DEF TreeGood
  <2>2. QED
      BY <2>1 DEF TreesKnown, AllHonest
<1>6. l1 \in NodeLists /\ l1.made = l.made /\ l1.shown = l.shown
  <2> DEFINE s == l.sliding[node]
             slides == [l.sliding EXCEPT ![node] = Tail(s)]
  <2>1. l.sliding \in [Branches -> Seq(Ways)] /\ s \in Seq(Ways) /\ s # <<>>
      BY <1>2, <1>5 DEF NodeLists
  <2>2. Tail(s) \in Seq(Ways)
    <3> HIDE DEF s
    <3>1. QED
        BY <2>1, LastOfTail
  <2>3. slides \in [Branches -> Seq(Ways)]
      BY <2>1, <2>2
  <2>4. l1 = [l EXCEPT !.sliding = slides]
      BY Zenon
  <2> HIDE DEF slides, l1
  <2>5. QED
      BY <1>5, <2>3, <2>4 DEF NodeLists
<1>7. Slid(l, node) = [l1 EXCEPT !.shown = shows(l1.shown)]
  <2>1. Slid(l, node) = [l1 EXCEPT !.shown = shows(l.shown)]
      BY Zenon DEF Slid
  <2>2. QED
      BY Zenon, <1>6, <2>1
<1> HIDE DEF l1, u1, k, shows
<1>8. k = l1
    BY Zenon, <1>4, <1>5, <1>6, OneListChanges DEF k
<1> DEFINE m == Slid(l, node)
<1>9. tree' = OneList(u1, i, m)
    BY Zenon, <1>3, <1>7, <1>8
<1>10. m \in NodeLists /\ ListHonest(m) /\ m.made = l.made /\ m.grey = l.grey /\ m.levelled = l.levelled
    BY Zenon, <1>2, <1>5, SlidHonest
<1> HIDE DEF m
<1>11. tree' = OneList(tree, i, m)
    BY Zenon, <1>4, <1>5, <1>6, <1>9, <1>10, OneListTwice
<1> DEFINE u == OneList(tree, i, m)
<1>12. /\ u \in TreesKnown /\ SameTree(u, tree) /\ u.lists[i] = m
       /\ \A j \in DOMAIN tree.lists \ {i} : u.lists[j] = tree.lists[j]
    BY <1>5, <1>10, OneListChanges
<1>13. \A j \in DOMAIN u.lists : ListHonest(u.lists[j])
    BY <1>5, <1>10, OthersHonest
<1> HIDE DEF u
<1>14. GreyFits(m, tree.level)
    BY <1>5, <1>10 DEF GreyFits
<1>15. DOMAIN u.lists = DOMAIN tree.lists /\ u.level = tree.level
    BY <1>12 DEF SameTree
<1>16. \A j \in DOMAIN tree.lists : GreyFits(tree.lists[j], tree.level)
    BY <1>5 DEF AllHonest
<1>17. AllHonest(u)
    BY Zenon, <1>12, <1>13, <1>14, <1>15, <1>16 DEF AllHonest
<1>18. QED
    BY Zenon, <1>11, <1>12, <1>17, SameTreeIsGood DEF u

LEMMA TreeStays == TreeGood(tree) /\ [TreeNext]_tree => TreeGood(tree')
<1> SUFFICES ASSUME TreeGood(tree), [TreeNext]_tree PROVE TreeGood(tree')
    OBVIOUS
<1>1. ASSUME NavtreeArrives PROVE TreeGood(tree')
    BY Zenon, <1>1, InitNavtreeKeeps DEF NavtreeArrives
<1>2. CASE UNCHANGED tree
    BY <1>2
<1>3. QED
    BY Zenon, <1>1, <1>2, SwapKeeps, FailKeeps, ToggleKeeps, LevelChangeKeeps, NextPageKeeps, SlideKeeps DEF TreeNext

LEMMA TreeGoodIsHonest == TreeGood(tree) => NavKept /\ TreeHonest
<1> SUFFICES ASSUME TreeGood(tree) PROVE NavKept /\ TreeHonest
    OBVIOUS
<1>1. NavKept
    BY DEF TreeGood, OneNavigation, NavKept
<1>2. TreeHonest
  <2>1. \A i \in DOMAIN tree.lists : ListHonest(tree.lists[i]) /\ GreyFits(tree.lists[i], tree.level)
      BY Zenon DEF TreeGood, AllHonest
  <2>2. \A i \in DOMAIN tree.lists : tree.page # NoMom => tree.page \in tree.lists[i].made
      BY Zenon DEF TreeGood, PageIn
  <2>3. QED
      BY Zenon, <2>1, <2>2 DEF TreeHonest, ListHonest, EndsOpen, GreyFits
<1>3. QED
    BY <1>1, <1>2

TreesInv == GoogleGood(trees) /\ TreeGood(tree)

LEMMA TreesInvStarts == PagesInit => TreesInv
<1> SUFFICES ASSUME PagesInit PROVE TreesInv
    OBVIOUS
<1>1. TreesInit /\ (TreeInit \/ TreeRest)
    BY Zenon DEF PagesInit
<1>2. QED
    BY Zenon, <1>1, GoogleStarts, TreeStarts DEF TreesInv

LEMMA TreesInvKept == TreesInv /\ [PagesNext]_pagesVars => TreesInv'
<1> SUFFICES ASSUME TreesInv, [PagesNext]_pagesVars PROVE TreesInv'
    OBVIOUS
<1>1. [TreesNext]_trees /\ [TreeNext]_tree
    BY Zenon, PagesMoveTrees, PagesMoveTree
<1>2. GoogleGood(trees') /\ TreeGood(tree')
    BY Zenon, <1>1, GoogleStays, TreeStays DEF TreesInv
<1>3. QED
    BY <1>2 DEF TreesInv

LEMMA TreesInvHonest == TreesInv => TreesHonest
BY Zenon, GoogleGoodHighlights, TreeGoodIsHonest DEF TreesInv, TreesHonest

(* Whatever nodes there are and however deep: however scripts come or fail,  *)
(* nodes are clicked while they slide and levels change, the page is the one *)
(* that is highlighted, with the sections above it open and its trail in the *)
(* header, and a tree shows what it takes to be open and greys out what the  *)
(* level lacks (templates-sdk and templates-ndk docs.js).                    *)
THEOREM TreesStayHonest == PagesSpec => []TreesHonest
<1>1. PagesSpec => []TreesInv
    BY TreesInvStarts, TreesInvKept, PTL DEF PagesSpec
<1>2. QED
    BY <1>1, TreesInvHonest, PTL

-----------------------------------------------------------------------------
(* The previous and the next link, and the lists of the courses.           *)

(* Outlines.                                                                 *)
Outlined(o) == o \in Seq(Item) /\ o # <<>> /\ IsOutline(o)

LEMMA OutlineIs ==
    ASSUME NEW o, Outlined(o)
    PROVE  /\ Len(o) \in Nat \ {0} /\ \A k \in 1 .. Len(o) : o[k].depth \in Nat \ {0} /\ o[k].kind \in ItemKinds
           /\ o[1].depth = 1
           /\ \A k \in 2 .. Len(o) : \/ o[k].depth <= o[k-1].depth
                                     \/ o[k].depth = o[k-1].depth + 1 /\ IsSection(o, k - 1)
<1>1. Len(o) \in Nat \ {0} /\ \A k \in 1 .. Len(o) : o[k] \in Item
    BY EmptySeq DEF Outlined
<1>2. MaxDepth \in Nat
    BY NavAssumption DEF NavAssumption
<1>3. \A k \in 1 .. Len(o) : o[k].depth \in Nat \ {0} /\ o[k].kind \in ItemKinds
    BY <1>1, <1>2 DEF Item
<1>4. QED
    BY <1>1, <1>3 DEF Outlined, IsOutline, IsSection

(* The items in a section are the next ones, up to some place.               *)
Closes(o, i, e) ==
    /\ e \in i .. Len(o) /\ Inner(o, i) = i + 1 .. e
    /\ \A k \in i + 1 .. e : o[k].depth > o[i].depth
    /\ e < Len(o) => o[e + 1].depth <= o[i].depth

LEMMA SectionCloses ==
    ASSUME NEW o, Outlined(o), NEW i \in 1 .. Len(o)
    PROVE  \E e \in i .. Len(o) : Closes(o, i, e)
<1> DEFINE n == Len(o)
           d(k) == o[k].depth
           B == {e \in i .. n : \A k \in i + 1 .. e : d(k) > d(i)}
<1>1. n \in Nat /\ i \in Nat /\ \A k \in 1 .. n : d(k) \in Nat
    BY OutlineIs
<1> HIDE DEF n, d
<1>2. i \in B /\ B \subseteq i .. n
    BY <1>1 DEF n
<1>3. PICK e \in B : \A f \in B : f <= e
  <2>1. B \subseteq 1 .. n /\ B # {}
      BY <1>1, <1>2 DEF n
  <2> HIDE DEF B
  <2>2. QED
      BY <1>1, <2>1, MaxOfPlaces
<1>4. e \in i .. n /\ \A k \in i + 1 .. e : d(k) > d(i)
    BY <1>3
<1>5. e < n => d(e + 1) <= d(i)
  <2> SUFFICES ASSUME e < n, ~(d(e + 1) <= d(i)) PROVE FALSE
      OBVIOUS
  <2>1. e + 1 \in i .. n
      BY <1>1, <1>4
  <2>2. \A k \in i + 1 .. e + 1 : d(k) > d(i)
    <3> TAKE k \in i + 1 .. e + 1
    <3>1. k \in i + 1 .. e \/ k = e + 1
        BY <1>1, <1>4
    <3>2. d(e + 1) > d(i)
      <4>1. e + 1 \in 1 .. n /\ i \in 1 .. n
          BY <1>1, <1>4 DEF n
      <4>2. QED
          BY <1>1, <4>1
    <3>3. QED
        BY <1>4, <3>1, <3>2
  <2>3. e + 1 \in B
      BY <2>1, <2>2
  <2>4. e + 1 <= e
      BY Zenon, <1>3, <2>3
  <2>5. QED
      BY <1>1, <1>4, <2>4
<1>6. Inner(o, i) = i + 1 .. e
  <2>1. ASSUME NEW j \in Inner(o, i) PROVE j \in i + 1 .. e
    <3>1. j \in i + 1 .. n /\ \A k \in i + 1 .. j : d(k) > d(i)
        BY DEF Inner, n, d
    <3>2. j \in B
        BY <1>1, <3>1
    <3>3. j <= e
        BY Zenon, <1>3, <3>2
    <3>4. QED
        BY <1>1, <1>4, <3>1, <3>3
  <2>2. ASSUME NEW j \in i + 1 .. e PROVE j \in Inner(o, i)
    <3>1. j \in i + 1 .. n /\ \A k \in i + 1 .. j : d(k) > d(i)
        BY <1>1, <1>4
    <3>2. QED
        BY <3>1 DEF Inner, n, d
  <2>3. QED
      BY <2>1, <2>2
<1>7. QED
    BY <1>4, <1>5, <1>6 DEF Closes, n, d

(* The next item is the one after the section, unless the list ends.         *)
LEMMA NextItemIs ==
    ASSUME NEW o, Outlined(o), NEW i \in 1 .. Len(o), NEW e, Closes(o, i, e)
    PROVE  NextItem(o, i) = IF e < Len(o) /\ o[e + 1].depth = o[i].depth THEN e + 1 ELSE 0
<1>1. Len(o) \in Nat /\ e \in i .. Len(o) /\ Inner(o, i) = i + 1 .. e
    BY OutlineIs DEF Closes
<1>2. Cardinality(i + 1 .. e) = e - i
    BY <1>1, FS_Interval
<1>3. i + Cardinality(Inner(o, i)) + 1 = e + 1 /\ i # 0 /\ (e + 1 <= Len(o) <=> e < Len(o))
    BY <1>1, <1>2
<1>4. QED
    BY Zenon, <1>3 DEF NextItem

LEMMA LargestIs ==
    ASSUME NEW n \in Nat, NEW S \in SUBSET (1 .. n)
    PROVE  /\ S = {} => Largest(S) = 0
           /\ S # {} => Largest(S) \in S /\ \A j \in S : j <= Largest(S)
<1>1. S = {} => Largest(S) = 0
    BY DEF Largest
<1>2. ASSUME S # {} PROVE Largest(S) \in S /\ \A j \in S : j <= Largest(S)
  <2>1. \E i \in S : \A j \in S : j <= i
      BY <1>2, MaxOfPlaces
  <2>2. QED
      BY Zenon, <1>2, <2>1 DEF Largest
<1>3. QED
    BY <1>1, <1>2

(* The item before i that is no deeper than a level that i is not above.     *)
Above(o, i, level, j) ==
    /\ j \in 1 .. i - 1 /\ o[j].depth <= level
    /\ \A k \in j + 1 .. i - 1 : o[k].depth > level

LEMMA AboveExists ==
    ASSUME NEW o, Outlined(o), NEW i \in 1 .. Len(o), NEW level \in Nat,
           NEW h \in 1 .. i - 1, o[h].depth <= level
    PROVE  \E j \in h .. i - 1 : Above(o, i, level, j)
<1> DEFINE d(k) == o[k].depth
           S == {j \in 1 .. i - 1 : d(j) <= level}
           top == Max(S)
<1>1. i \in Nat /\ i - 1 \in Nat /\ h \in Nat /\ \A k \in 1 .. i - 1 : d(k) \in Nat
    BY OutlineIs
<1>2. h \in S /\ S \subseteq 1 .. i - 1
    OBVIOUS
<1> HIDE DEF d
<1>3. top \in S /\ \A j \in S : j <= top
  <2> HIDE DEF S
  <2>1. QED
      BY <1>1, <1>2, MaxOfPlaces
<1> HIDE DEF top
<1>4. top \in 1 .. i - 1 /\ d(top) <= level
    BY <1>3
<1>5. h <= top
    BY Zenon, <1>2, <1>3
<1>6. \A k \in top + 1 .. i - 1 : d(k) > level
  <2> SUFFICES ASSUME NEW k \in top + 1 .. i - 1, ~(d(k) > level) PROVE FALSE
      OBVIOUS
  <2>1. k \in 1 .. i - 1 /\ top < k
      BY <1>1, <1>4
  <2>2. k \in S
      BY <1>1, <2>1
  <2>3. k <= top
      BY Zenon, <1>3, <2>2
  <2>4. QED
      BY <1>1, <1>4, <2>1, <2>3
<1>7. QED
    BY <1>1, <1>4, <1>5, <1>6 DEF Above, d
(* The item that is above another in the outline.                            *)
IsParent(o, i, p) ==
    /\ p \in 1 .. i - 1 /\ o[p].depth = o[i].depth - 1
    /\ \A k \in p + 1 .. i : o[k].depth >= o[i].depth

LEMMA ParentIs ==
    ASSUME NEW o, Outlined(o), NEW i \in 1 .. Len(o)
    PROVE  /\ o[i].depth = 1 => ParentItem(o, i) = 0
           /\ o[i].depth > 1 => ParentItem(o, i) # 0 /\ IsParent(o, i, ParentItem(o, i))
<1> DEFINE d(k) == o[k].depth
           S == {j \in 1 .. i - 1 : i \in Inner(o, j) /\ d(j) = d(i) - 1}
<1>1. /\ i \in Nat \ {0} /\ i - 1 \in Nat /\ i <= Len(o) /\ Len(o) \in Nat
      /\ \A k \in 1 .. Len(o) : d(k) \in Nat \ {0}
      /\ d(1) = 1 /\ \A k \in 2 .. Len(o) : d(k) <= d(k - 1) + 1
    BY OutlineIs
<1>2. ParentItem(o, i) = Largest(S)
    BY <1>1 DEF ParentItem
<1>3. S \in SUBSET (1 .. i - 1)
    OBVIOUS
<1>4. ASSUME d(i) = 1 PROVE ParentItem(o, i) = 0
  <2>1. \A j \in 1 .. i - 1 : d(j) # d(i) - 1
    <3>1. \A j \in 1 .. i - 1 : j \in 1 .. Len(o)
        BY <1>1
    <3> HIDE DEF d
    <3>2. QED
        BY <1>1, <1>4, <3>1
  <2>2. S = {}
      BY <2>1
  <2> HIDE DEF S
  <2>3. QED
      BY <1>1, <1>2, <1>3, <2>2, LargestIs
<1>5. ASSUME d(i) > 1 PROVE ParentItem(o, i) # 0 /\ IsParent(o, i, ParentItem(o, i))
  <2>1. 1 \in 1 .. i - 1 /\ d(i) - 1 \in Nat /\ d(1) <= d(i) - 1
    <3> HIDE DEF d
    <3>1. i # 1 /\ i \in 1 .. Len(o)
        BY <1>1, <1>5
    <3>2. QED
        BY <1>1, <1>5, <3>1
  <2>2. PICK j \in 1 .. i - 1 : Above(o, i, d(i) - 1, j)
      BY <2>1, AboveExists
  <2>3. d(j) <= d(i) - 1 /\ \A k \in j + 1 .. i - 1 : d(k) > d(i) - 1
      BY <2>2 DEF Above
  <2>4. j \in 1 .. Len(o) /\ j + 1 \in 2 .. Len(o) /\ (j + 1) - 1 = j /\ j \in Nat
      BY <1>1
  <2> HIDE DEF d
  <2>5. \A k \in j + 1 .. i : d(k) > d(i) - 1
    <3> TAKE k \in j + 1 .. i
    <3>1. k \in j + 1 .. i - 1 \/ k = i
        BY <1>1, <2>4
    <3>2. d(i) > d(i) - 1
        BY <1>1
    <3>3. QED
        BY <2>3, <3>1, <3>2
  <2>6. d(j) = d(i) - 1
    <3>1. j + 1 \in j + 1 .. i /\ i \in 1 .. Len(o) /\ j + 1 \in 1 .. Len(o)
        BY <1>1, <2>4
    <3>2. d(j + 1) > d(i) - 1 /\ d(j + 1) <= d(j) + 1
        BY <1>1, <2>4, <2>5, <3>1
    <3>3. d(j) \in Nat /\ d(j + 1) \in Nat /\ d(i) \in Nat
        BY <1>1, <2>4, <3>1
    <3>4. QED
        BY <2>3, <3>2, <3>3
  <2>7. i \in Inner(o, j)
    <3>1. \A k \in j + 1 .. i : o[k].depth > o[j].depth
        BY <2>5, <2>6 DEF d
    <3>2. i \in j + 1 .. Len(o)
        BY <1>1, <2>4
    <3>3. QED
        BY <3>1, <3>2 DEF Inner
  <2>8. j \in S
      BY <2>6, <2>7
  <2> DEFINE p == Largest(S)
  <2>9. p \in S
    <3> HIDE DEF S
    <3>1. QED
        BY <1>1, <1>3, <2>8, LargestIs
  <2> HIDE DEF p
  <2>10. p \in 1 .. i - 1 /\ i \in Inner(o, p) /\ d(p) = d(i) - 1
      BY <2>9
  <2>11. \A k \in p + 1 .. i : d(k) > d(p)
      BY <2>10 DEF Inner, d
  <2>12. \A k \in p + 1 .. i : d(k) >= d(i)
    <3> TAKE k \in p + 1 .. i
    <3>1. k \in 1 .. Len(o) /\ i \in 1 .. Len(o)
        BY <1>1, <2>10
    <3>2. d(k) > d(i) - 1
        BY <2>10, <2>11
    <3>3. QED
        BY <1>1, <3>1, <3>2
  <2>13. ParentItem(o, i) = p /\ p # 0
      BY <1>2, <2>10 DEF p
  <2>14. QED
      BY <2>10, <2>12, <2>13 DEF IsParent, d
<1>6. QED
    BY <1>4, <1>5 DEF d

(* The item before in a list: one that closes right before this one.         *)
LEMMA PrevItemIs ==
    ASSUME NEW o, Outlined(o), NEW i \in 1 .. Len(o), NEW b, b = PrevItem(o, i)
    PROVE  /\ b # 0 => b \in 1 .. i - 1 /\ Closes(o, b, i - 1) /\ o[b].depth = o[i].depth
           /\ b = 0 => i = 1 \/ (o[i].depth > 1 /\ IsParent(o, i, i - 1) /\ ParentItem(o, i) = i - 1)
<1> DEFINE d(k) == o[k].depth
           S == {j \in 1 .. i - 1 : NextItem(o, j) = i}
<1>1. /\ i \in Nat \ {0} /\ i - 1 \in Nat /\ i <= Len(o) /\ Len(o) \in Nat
      /\ \A k \in 1 .. Len(o) : d(k) \in Nat \ {0}
      /\ d(1) = 1 /\ \A k \in 2 .. Len(o) : d(k) <= d(k - 1) + 1
    BY OutlineIs
<1>2. b = Largest(S) /\ S \in SUBSET (1 .. i - 1)
    BY DEF PrevItem
<1>3. ASSUME b # 0 PROVE b \in 1 .. i - 1 /\ Closes(o, b, i - 1) /\ d(b) = d(i)
  <2>1. b \in S
    <3> HIDE DEF S
    <3>1. QED
        BY <1>1, <1>2, <1>3, LargestIs
  <2>2. b \in 1 .. i - 1 /\ NextItem(o, b) = i
      BY <2>1
  <2>3. b \in 1 .. Len(o)
      BY <1>1, <2>2
  <2>4. PICK e \in b .. Len(o) : Closes(o, b, e)
      BY <2>3, SectionCloses
  <2>5. i = IF e < Len(o) /\ d(e + 1) = d(b) THEN e + 1 ELSE 0
      BY <2>2, <2>3, <2>4, NextItemIs
  <2> HIDE DEF d
  <2>6. i = e + 1 /\ d(i) = d(b)
      BY <1>1, <2>5
  <2>7. e = i - 1
      BY <1>1, <2>3, <2>6
  <2>8. QED
      BY <2>2, <2>4, <2>6, <2>7
<1>4. ASSUME NEW j \in 1 .. i - 1, Above(o, i, d(i), j), d(j) >= d(i) PROVE b # 0
  <2>1. d(j) <= d(i) /\ \A k \in j + 1 .. i - 1 : d(k) > d(i)
      BY <1>4 DEF Above
  <2>2. j \in 1 .. Len(o) /\ i \in 1 .. Len(o) /\ j \in Nat
      BY <1>1
  <2>3. PICK e \in j .. Len(o) : Closes(o, j, e)
      BY <2>2, SectionCloses
  <2>4. /\ \A k \in j + 1 .. e : d(k) > d(j)
        /\ e < Len(o) => d(e + 1) <= d(j)
      BY <2>3 DEF Closes
  <2>5. NextItem(o, j) = IF e < Len(o) /\ d(e + 1) = d(j) THEN e + 1 ELSE 0
      BY <2>2, <2>3, NextItemIs
  <2> HIDE DEF d
  <2>6. d(j) = d(i) /\ e \in Nat
      BY <1>1, <1>4, <2>1, <2>2
  <2>7. ~(e < i - 1)
    <3>1. ASSUME e < i - 1 PROVE FALSE
      <4>1. e + 1 \in j + 1 .. i - 1 /\ e < Len(o) /\ e + 1 \in 1 .. Len(o)
          BY <1>1, <2>2, <2>6, <3>1
      <4>2. d(e + 1) > d(i) /\ d(e + 1) <= d(i)
          BY <2>1, <2>4, <2>6, <4>1
      <4>3. QED
          BY <1>1, <2>2, <4>1, <4>2
    <3>2. QED
        BY <3>1
  <2>8. ~(e >= i)
    <3>1. ASSUME e >= i PROVE FALSE
      <4>1. i \in j + 1 .. e
          BY <1>1, <2>2, <2>6, <3>1
      <4>2. d(i) > d(i)
          BY <2>4, <2>6, <4>1
      <4>3. QED
          BY <1>1, <2>2, <4>2
    <3>2. QED
        BY <3>1
  <2>9. e + 1 = i /\ e < Len(o)
      BY <1>1, <2>6, <2>7, <2>8
  <2>10. NextItem(o, j) = i
      BY <2>5, <2>6, <2>9
  <2>11. j \in S
      BY <2>10
  <2> HIDE DEF S
  <2>12. b \in 1 .. i - 1
    <3>1. b \in S
        BY <1>1, <1>2, <2>11, LargestIs
    <3>2. QED
        BY Zenon, <1>2, <3>1
  <2>13. QED
      BY <1>1, <2>12
<1> HIDE DEF S
<1>5. ASSUME b = 0, i # 1 PROVE d(i) > 1 /\ IsParent(o, i, i - 1) /\ ParentItem(o, i) = i - 1
  <2>1. 1 \in 1 .. i - 1 /\ i \in 1 .. Len(o)
      BY <1>1, <1>5
  <2>2. d(i) > 1
    <3>1. ASSUME ~(d(i) > 1) PROVE FALSE
      <4> HIDE DEF d
      <4>1. d(i) = 1
          BY <1>1, <2>1, <3>1
      <4>2. PICK j \in 1 .. i - 1 : Above(o, i, d(i), j)
        <5>1. o[1].depth <= d(i) /\ d(i) \in Nat
            BY <1>1, <4>1 DEF d
        <5>2. QED
            BY <2>1, <5>1, AboveExists
      <4>3. j \in 1 .. Len(o)
          BY <1>1
      <4>4. d(j) >= d(i)
          BY <1>1, <4>1, <4>3
      <4>5. QED
          BY <1>4, <1>5, <4>2, <4>4
    <3>2. QED
        BY <3>1
  <2> DEFINE p == ParentItem(o, i)
  <2>3. IsParent(o, i, p)
      BY <2>2, ParentIs
  <2> HIDE DEF p
  <2>4. p \in 1 .. i - 1 /\ d(p) = d(i) - 1 /\ \A k \in p + 1 .. i : d(k) >= d(i)
      BY <2>3 DEF IsParent
  <2>5. p = i - 1
    <3>1. ASSUME p # i - 1 PROVE FALSE
      <4>1. p + 1 \in 1 .. i - 1 /\ p \in Nat /\ p + 1 \in 2 .. Len(o) /\ (p + 1) - 1 = p /\ p \in 1 .. Len(o)
          BY <1>1, <2>4, <3>1
      <4>2. d(p + 1) <= d(i)
        <5> HIDE DEF d
        <5>1. d(p + 1) <= d(p) + 1
            BY <1>1, <4>1
        <5>2. QED
            BY <1>1, <2>1, <2>4, <4>1, <5>1
      <4>3. PICK j \in p + 1 .. i - 1 : Above(o, i, d(i), j)
        <5>1. d(i) \in Nat
            BY <1>1, <2>1
        <5>2. QED
            BY <4>1, <4>2, <5>1, AboveExists
      <4>4. j \in 1 .. i - 1 /\ j \in p + 1 .. i
          BY <1>1, <4>1
      <4>5. d(j) >= d(i)
          BY <2>4, <4>4
      <4>6. QED
          BY <1>4, <1>5, <4>3, <4>4, <4>5
    <3>2. QED
        BY <3>1
  <2>6. QED
      BY <2>2, <2>3, <2>5 DEF p
<1>6. QED
    BY <1>3, <1>5 DEF d
(* The next link leads to the item that follows, or there is none.           *)
NoneForward(o, i) ==
    \/ i = Len(o)
    \/ IsSection(o, i) /\ o[i].depth > o[i + 1].depth
    \/ o[i].depth - o[i + 1].depth > 2
    \/ o[i].depth - o[i + 1].depth = 2 /\ ~IsSection(o, i + 1)

LeadsOn(o, i, next) ==
    /\ next # 0 => next = i + 1 /\ i < Len(o)
    /\ next = 0 => NoneForward(o, i)

LEMMA SectionNext ==
    ASSUME NEW o, Outlined(o), NEW i \in 1 .. Len(o), IsSection(o, i)
    PROVE  LeadsOn(o, i, NextLink(o, i))
<1> DEFINE d(k) == o[k].depth
<1>1. i \in Nat /\ Len(o) \in Nat /\ \A k \in 1 .. Len(o) : d(k) \in Nat
    BY OutlineIs
<1>2. PICK e \in i .. Len(o) : Closes(o, i, e)
    BY SectionCloses
<1>3. Inner(o, i) = i + 1 .. e /\ (e < Len(o) => d(e + 1) <= d(i))
    BY <1>2 DEF Closes
<1>4. CASE Inner(o, i) # {}
  <2>1. NextLink(o, i) = i + 1
      BY <1>4 DEF NextLink
  <2>2. i + 1 # 0 /\ i < Len(o)
      BY <1>1, <1>3, <1>4
  <2>3. QED
      BY <2>1, <2>2 DEF LeadsOn
<1>5. CASE Inner(o, i) = {}
  <2>1. e = i
      BY <1>1, <1>3, <1>5
  <2>2. NextLink(o, i) = NextItem(o, i)
      BY <1>5 DEF NextLink
  <2>3. NextItem(o, i) = IF i < Len(o) /\ d(i + 1) = d(i) THEN i + 1 ELSE 0
      BY <1>2, <2>1, NextItemIs
  <2>4. i < Len(o) => i + 1 \in 1 .. Len(o) /\ d(i + 1) <= d(i)
      BY <1>1, <1>3, <2>1
  <2> HIDE DEF d
  <2>5. i + 1 # 0 /\ (~(i < Len(o)) => i = Len(o)) /\ i \in 1 .. Len(o)
      BY <1>1
  <2>6. i < Len(o) /\ d(i + 1) # d(i) => d(i) > d(i + 1)
      BY <1>1, <2>4, <2>5
  <2>7. QED
      BY <2>2, <2>3, <2>5, <2>6 DEF LeadsOn, NoneForward, d
<1>6. QED
    BY <1>4, <1>5

(* A section in which an item is the last one, and which that item's parent  *)
(* or the parent of it is, closes there.                                     *)
LEMMA ClosesAt ==
    ASSUME NEW o, Outlined(o), NEW i \in 1 .. Len(o), NEW p \in 1 .. i - 1,
           \A k \in p + 1 .. i : o[k].depth > o[p].depth,
           i < Len(o) => o[i + 1].depth <= o[p].depth
    PROVE  Closes(o, p, i)
<1> DEFINE d(k) == o[k].depth
<1>1. i \in Nat /\ Len(o) \in Nat /\ p \in Nat /\ \A k \in 1 .. Len(o) : d(k) \in Nat
    BY OutlineIs
<1>2. p \in 1 .. Len(o)
    BY <1>1
<1>3. PICK e \in p .. Len(o) : Closes(o, p, e)
    BY <1>2, SectionCloses
<1>4. /\ \A k \in p + 1 .. e : d(k) > d(p)
      /\ e < Len(o) => d(e + 1) <= d(p)
    BY <1>3 DEF Closes
<1>5. (\A k \in p + 1 .. i : d(k) > d(p)) /\ (i < Len(o) => d(i + 1) <= d(p))
    OBVIOUS
<1> HIDE DEF d
<1>6. ~(e < i)
  <2>1. ASSUME e < i PROVE FALSE
    <3>1. e + 1 \in p + 1 .. i /\ e < Len(o) /\ e + 1 \in 1 .. Len(o)
        BY <1>1, <2>1
    <3>2. d(e + 1) > d(p) /\ d(e + 1) <= d(p)
        BY <1>4, <1>5, <3>1
    <3>3. QED
        BY <1>1, <1>2, <3>1, <3>2
  <2>2. QED
      BY <2>1
<1>7. ~(e > i)
  <2>1. ASSUME e > i PROVE FALSE
    <3>1. i + 1 \in p + 1 .. e /\ i < Len(o) /\ i + 1 \in 1 .. Len(o)
        BY <1>1, <2>1
    <3>2. d(i + 1) > d(p) /\ d(i + 1) <= d(p)
        BY <1>4, <1>5, <3>1
    <3>3. QED
        BY <1>1, <1>2, <3>1, <3>2
  <2>2. QED
      BY <2>1
<1>8. e = i
    BY <1>1, <1>6, <1>7
<1>9. QED
    BY <1>3, <1>8

LEMMA LeafNext ==
    ASSUME NEW o, Outlined(o), NEW i \in 1 .. Len(o), ~IsSection(o, i)
    PROVE  LeadsOn(o, i, NextLink(o, i))
<1> DEFINE d(k) == o[k].depth
           n == Len(o)
           p == ParentItem(o, i)
           pp == ParentItem(o, p)
<1>1. /\ i \in Nat \ {0} /\ n \in Nat /\ i <= n /\ i \in 1 .. n
      /\ \A k \in 1 .. n : d(k) \in Nat \ {0}
    BY OutlineIs
<1>2. i < n => i + 1 \in 1 .. n /\ d(i + 1) <= d(i)
  <2>1. ASSUME i < n PROVE i + 1 \in 2 .. n /\ i + 1 \in 1 .. n /\ (i + 1) - 1 = i
      BY <1>1, <2>1
  <2>2. QED
      BY <2>1, OutlineIs
<1>3. Closes(o, i, i)
  <2>1. PICK e \in i .. n : Closes(o, i, e)
      BY SectionCloses
  <2>2. \A k \in i + 1 .. e : d(k) > d(i)
      BY <2>1 DEF Closes
  <2> HIDE DEF d, n
  <2>3. e = i
    <3>1. ASSUME e # i PROVE FALSE
      <4>1. i + 1 \in i + 1 .. e /\ i < n
          BY <1>1, <3>1
      <4>2. d(i + 1) > d(i) /\ d(i + 1) <= d(i) /\ d(i) \in Nat /\ d(i + 1) \in Nat
          BY <1>1, <1>2, <2>2, <4>1
      <4>3. QED
          BY <4>2
    <3>2. QED
        BY <3>1
  <2>4. QED
      BY <2>1, <2>3
<1>4. NextItem(o, i) = IF i < n /\ d(i + 1) = d(i) THEN i + 1 ELSE 0
    BY <1>3, NextItemIs
<1>5. CASE NextItem(o, i) # 0
  <2>1. NextLink(o, i) = NextItem(o, i)
      BY <1>5 DEF NextLink, IsCrossing
  <2>2. NextItem(o, i) = i + 1 /\ i < n
      BY <1>4, <1>5
  <2>3. QED
      BY <1>5, <2>1, <2>2 DEF LeadsOn
<1>6. CASE NextItem(o, i) = 0
  <2>1. NextLink(o, i) = NextSection(o, i)
      BY <1>6 DEF NextLink, IsCrossing
  <2>2. i < n => d(i + 1) < d(i)
    <3> HIDE DEF d, n
    <3>1. i + 1 # 0
        BY <1>1
    <3>2. QED
        BY <1>1, <1>2, <1>4, <1>6, <3>1
  <2> DEFINE next == NextItem(o, p)
             up == NextItem(o, pp)
  <2>3. NextSection(o, i) = IF next # 0 THEN next ELSE IF up # 0 /\ IsSection(o, up) THEN up ELSE 0
      BY DEF NextSection
  <2>4. NextItem(o, 0) = 0 /\ ParentItem(o, 0) = 0
      BY DEF NextItem, ParentItem
  <2>5. CASE d(i) = 1
    <3>1. p = 0
        BY <2>5, ParentIs
    <3>2. pp = 0 /\ next = 0 /\ up = 0
        BY <2>4, <3>1
    <3>3. NextLink(o, i) = 0
        BY <2>1, <2>3, <3>2
    <3>4. i = n
      <4> HIDE DEF d, n
      <4>1. ~(i < n)
          BY <1>1, <1>2, <2>2, <2>5
      <4>2. QED
          BY <1>1, <4>1
    <3>5. QED
        BY <3>3, <3>4 DEF LeadsOn, NoneForward
  <2>6. CASE d(i) # 1
    <3>1. d(i) > 1
      <4> HIDE DEF d
      <4>1. QED
          BY <1>1, <2>6
    <3>2. p # 0 /\ IsParent(o, i, p)
        BY <3>1, ParentIs
    <3>3. p \in 1 .. i - 1 /\ d(p) = d(i) - 1 /\ \A k \in p + 1 .. i : d(k) >= d(i)
        BY <3>2 DEF IsParent
    <3>4. p \in 1 .. n /\ p \in Nat /\ p < i
      <4> HIDE DEF p, n
      <4>1. QED
          BY <1>1, <3>3
    <3>5. \A k \in p + 1 .. i : d(k) > d(p)
      <4> HIDE DEF d, p, n
      <4> TAKE k \in p + 1 .. i
      <4>1. k \in 1 .. n /\ d(k) >= d(i)
          BY <1>1, <3>3, <3>4
      <4>2. d(k) \in Nat /\ d(i) \in Nat
          BY <1>1, <4>1
      <4>3. QED
          BY <3>3, <4>1, <4>2
    <3>6. i < n => d(i + 1) <= d(p)
      <4> HIDE DEF d, p, n
      <4>1. QED
          BY <1>1, <1>2, <2>2, <3>3
    <3>7. Closes(o, p, i)
        BY <3>3, <3>5, <3>6, ClosesAt
    <3>8. next = IF i < n /\ d(i + 1) = d(p) THEN i + 1 ELSE 0
        BY <3>4, <3>7, NextItemIs
    <3>9. CASE next # 0
      <4>1. NextLink(o, i) = i + 1 /\ i < n
          BY <2>1, <2>3, <3>8, <3>9
      <4>2. i + 1 # 0
          BY <1>1
      <4>3. QED
          BY <4>1, <4>2 DEF LeadsOn
    <3>10. CASE next = 0
      <4>1. i < n => d(i + 1) < d(i) - 1
        <5> HIDE DEF d, p, n, next
        <5>1. i + 1 # 0
            BY <1>1
        <5>2. QED
            BY <1>1, <1>2, <3>3, <3>6, <3>8, <3>10, <5>1
      <4>2. CASE d(p) = 1
        <5>1. pp = 0
            BY <3>4, <4>2, ParentIs
        <5>2. up = 0
            BY <2>4, <5>1
        <5>3. NextLink(o, i) = 0
            BY <2>1, <2>3, <3>10, <5>2
        <5>4. i = n
          <6> HIDE DEF d, p, n
          <6>1. ~(i < n)
              BY <1>1, <1>2, <3>3, <4>1, <4>2
          <6>2. QED
              BY <1>1, <6>1
        <5>5. QED
            BY <5>3, <5>4 DEF LeadsOn, NoneForward
      <4>3. CASE d(p) # 1
        <5>1. d(p) > 1
          <6> HIDE DEF d, p, n
          <6>1. QED
              BY <1>1, <3>4, <4>3
        <5>2. pp # 0 /\ IsParent(o, p, pp)
            BY <3>4, <5>1, ParentIs
        <5>3. pp \in 1 .. p - 1 /\ d(pp) = d(p) - 1 /\ \A k \in pp + 1 .. p : d(k) >= d(p)
            BY <5>2 DEF IsParent
        <5> HIDE DEF d, p, n, pp, next, up
        <5>4. pp \in 1 .. n /\ pp \in 1 .. i - 1 /\ pp \in Nat /\ d(pp) \in Nat \ {0} /\ d(p) \in Nat /\ d(i) \in Nat
            BY <1>1, <3>4, <5>3
        <5>5. \A k \in pp + 1 .. i : d(k) > d(pp)
          <6> TAKE k \in pp + 1 .. i
          <6>1. k \in pp + 1 .. p \/ k \in p + 1 .. i
              BY <3>4, <5>4
          <6>2. k \in 1 .. n /\ d(k) \in Nat
              BY <1>1, <5>4
          <6>3. CASE k \in pp + 1 .. p
            <7>1. d(k) >= d(p)
                BY <5>3, <6>3
            <7>2. QED
                BY <5>3, <5>4, <6>2, <7>1
          <6>4. CASE k \in p + 1 .. i
            <7>1. d(k) > d(p)
                BY <3>5, <6>4
            <7>2. QED
                BY <5>3, <5>4, <6>2, <7>1
          <6>5. QED
              BY <6>1, <6>3, <6>4
        <5>6. d(pp) = d(i) - 2
            BY <3>3, <5>3, <5>4
        <5>7. i < n => d(i + 1) <= d(pp) /\ d(i + 1) \in Nat
            BY <1>1, <1>2, <4>1, <5>4, <5>6
        <5>8. Closes(o, pp, i)
          <6>1. /\ \A k \in pp + 1 .. i : o[k].depth > o[pp].depth
                /\ i < Len(o) => o[i + 1].depth <= o[pp].depth
              BY <5>5, <5>7 DEF d, n
          <6>2. i \in 1 .. Len(o)
              OBVIOUS
          <6>3. QED
              BY <5>4, <6>1, <6>2, ClosesAt
        <5>9. up = IF i < n /\ d(i + 1) = d(pp) THEN i + 1 ELSE 0
          <6>1. pp \in 1 .. Len(o)
              BY <5>4 DEF n
          <6>2. NextItem(o, pp) = IF i < Len(o) /\ o[i + 1].depth = o[pp].depth THEN i + 1 ELSE 0
              BY <5>8, <6>1, NextItemIs
          <6>3. QED
              BY <6>2 DEF up, d, n
        <5>10. CASE up # 0 /\ IsSection(o, up)
          <6>1. NextLink(o, i) = i + 1 /\ i < n
              BY <2>1, <2>3, <3>10, <5>9, <5>10
          <6>2. i + 1 # 0
              BY <1>1
          <6>3. QED
              BY <6>1, <6>2 DEF LeadsOn, n
        <5>11. CASE ~(up # 0 /\ IsSection(o, up))
          <6>1. NextLink(o, i) = 0
              BY <2>1, <2>3, <3>10, <5>11
          <6>2. ASSUME i # n PROVE d(i) - d(i + 1) > 2 \/ (d(i) - d(i + 1) = 2 /\ ~IsSection(o, i + 1))
            <7>1. i < n /\ i + 1 # 0
                BY <1>1, <6>2
            <7>2. CASE d(i + 1) = d(pp)
              <8>1. up = i + 1
                  BY <5>9, <7>1, <7>2
              <8>2. QED
                  BY <5>4, <5>6, <5>11, <7>1, <7>2, <8>1
            <7>3. CASE d(i + 1) # d(pp)
                BY <5>4, <5>6, <5>7, <7>1, <7>3
            <7>4. QED
                BY <7>2, <7>3
          <6>3. NoneForward(o, i)
              BY <6>2 DEF NoneForward, d, n
          <6>4. QED
              BY <6>1, <6>3 DEF LeadsOn
        <5>12. QED
            BY <5>10, <5>11
      <4>4. QED
          BY <4>2, <4>3
    <3>11. QED
        BY <3>9, <3>10
  <2>7. QED
      BY <2>5, <2>6
<1>7. QED
    BY <1>5, <1>6

(* The previous link leads to the item before, or there is none.             *)
LEMMA PrevInOrder ==
    ASSUME NEW o, Outlined(o), NEW i \in 1 .. Len(o), NEW cross \in BOOLEAN
    PROVE  /\ PrevLink(o, i, cross) \in {0, i - 1}
           /\ PrevLink(o, i, cross) = 0 => i = 1 \/ (~cross /\ IsSection(o, i))
<1> DEFINE b == PrevItem(o, i)
           p == ParentItem(o, i)
           link == PrevLink(o, i, cross)
<1>1. i \in Nat \ {0} /\ Len(o) \in Nat /\ i <= Len(o)
    BY OutlineIs
<1>2. link = IF b # 0
             THEN IF IsSection(o, b) \/ cross THEN LastLink(o, b)
                  ELSE IF ~IsSection(o, i) THEN b ELSE 0
             ELSE IF ~cross /\ p # 0 /\ IsSection(o, i) THEN 0 ELSE p
    BY DEF PrevLink
<1>3. CASE b # 0
  <2>1. b \in 1 .. i - 1 /\ Closes(o, b, i - 1)
      BY <1>3, PrevItemIs
  <2>2. Inner(o, b) = b + 1 .. i - 1
    <3>1. (i - 1) \in b .. Len(o) /\ Inner(o, b) = b + 1 .. i - 1
        BY <2>1 DEF Closes
    <3>2. QED
        BY <3>1
  <2>3. \A k \in b + 1 .. i - 1 : o[k].depth > o[b].depth
      BY <2>1 DEF Closes
  <2> HIDE DEF b
  <2>4. LastLink(o, b) = i - 1
    <3> DEFINE S == {b} \union Inner(o, b)
               l == Largest(S)
    <3>1. S \in SUBSET (1 .. i - 1) /\ i - 1 \in S /\ i - 1 \in Nat
        BY <1>1, <2>1, <2>2
    <3> HIDE DEF S
    <3>2. l \in S /\ \A j \in S : j <= l
        BY <3>1, LargestIs
    <3> HIDE DEF l
    <3>3. l \in 1 .. i - 1 /\ i - 1 <= l
        BY Zenon, <3>1, <3>2
    <3>4. l = i - 1
        BY <1>1, <3>3
    <3>5. QED
        BY <3>4 DEF LastLink, l, S
  <2>5. i - 1 # 0
      BY <1>1, <2>1
  <2>6. CASE IsSection(o, b) \/ cross
      BY <1>2, <1>3, <2>4, <2>5, <2>6
  <2>7. CASE ~(IsSection(o, b) \/ cross)
    <3>1. b = i - 1
      <4>1. ASSUME b # i - 1 PROVE FALSE
        <5>1. b + 1 \in b + 1 .. i - 1 /\ b + 1 \in 2 .. Len(o) /\ (b + 1) - 1 = b /\ b \in 1 .. Len(o) /\ b + 1 \in 1 .. Len(o)
            BY <1>1, <2>1, <4>1
        <5>2. o[b + 1].depth > o[b].depth
            BY <2>3, <5>1
        <5>3. o[b + 1].depth <= o[b].depth
            BY <2>7, <5>1, OutlineIs
        <5>4. o[b].depth \in Nat /\ o[b + 1].depth \in Nat
            BY <5>1, OutlineIs
        <5>5. QED
            BY <5>2, <5>3, <5>4
      <4>2. QED
          BY <4>1
    <3>2. QED
        BY <1>2, <1>3, <2>5, <2>7, <3>1
  <2>8. QED
      BY <2>6, <2>7
<1>4. CASE b = 0
  <2>1. i = 1 \/ p = i - 1
      BY <1>4, PrevItemIs
  <2>2. i = 1 => p = 0
      BY OutlineIs, ParentIs
  <2> HIDE DEF b, p
  <2>3. i # 1 => i - 1 # 0
      BY <1>1
  <2>4. link = IF ~cross /\ p # 0 /\ IsSection(o, i) THEN 0 ELSE p
      BY <1>2, <1>4
  <2>5. i = 1 => i - 1 = 0
      OBVIOUS
  <2> HIDE DEF link
  <2>6. link \in {0, i - 1} /\ (link = 0 => i = 1 \/ (~cross /\ IsSection(o, i)))
      BY <2>1, <2>2, <2>3, <2>4, <2>5
  <2>7. QED
      BY <2>6 DEF link
<1>5. QED
    BY <1>3, <1>4 DEF link

(* Both together: what LinksInOrder says, at any item of any outline.        *)
LinksFit(o, i, site) ==
    LET links == Links(o, i, site)
        forward == {links.start, links.class, links.next} \ {0}
        ends == o[i].depth - o[i + 1].depth
    IN  /\ forward \subseteq {i + 1} /\ links.prev \in {0, i - 1}
        /\ forward = {} => \/ i = Len(o)
                           \/ IsSection(o, i) /\ ends > 0
                           \/ ends > 2
                           \/ ends = 2 /\ ~IsSection(o, i + 1)
        /\ links.prev = 0 => \/ i = 1 \/ StartsClass(o, i)
                             \/ site = "training" /\ IsSection(o, i)

LEMMA LinksAlwaysFit ==
    ASSUME NEW o, Outlined(o), NEW i \in 1 .. Len(o), NEW site \in {"design", "guide", "training"}
    PROVE  /\ LinksFit(o, i, site)
           /\ LET links == Links(o, i, site)
              IN  {links.start, links.class, links.next, links.prev} \ {0} \subseteq 1 .. Len(o)
<1> DEFINE links == Links(o, i, site)
           next == NextLink(o, i)
           cross == site \in {"design", "guide"}
           prev == PrevLink(o, i, cross)
           starts == StartsClass(o, i)
           crossing == IsCrossing(o, i) /\ site # "design"
           forward == {links.start, links.class, links.next} \ {0}
<1>1. i \in Nat \ {0} /\ Len(o) \in Nat /\ i <= Len(o)
    BY OutlineIs
<1>2. LeadsOn(o, i, next)
  <2>1. CASE IsSection(o, i)
      BY <2>1, SectionNext
  <2>2. CASE ~IsSection(o, i)
      BY <2>2, LeafNext
  <2>3. QED
      BY <2>1, <2>2
<1>3. prev \in {0, i - 1} /\ (prev = 0 => i = 1 \/ (~cross /\ IsSection(o, i)))
  <2>1. cross \in BOOLEAN
      OBVIOUS
  <2> HIDE DEF cross
  <2>2. QED
      BY Zenon, <2>1, PrevInOrder
<1>4. links = [start |-> IF starts THEN next ELSE 0,
               class |-> IF ~starts /\ crossing THEN next ELSE 0,
               next  |-> IF ~starts /\ ~crossing THEN next ELSE 0,
               prev  |-> IF starts THEN 0 ELSE prev]
    BY DEF Links
<1> HIDE DEF next, prev, starts, crossing
<1>5. /\ links.start = IF starts THEN next ELSE 0
      /\ links.class = IF ~starts /\ crossing THEN next ELSE 0
      /\ links.next = IF ~starts /\ ~crossing THEN next ELSE 0
      /\ links.prev = IF starts THEN 0 ELSE prev
    BY <1>4
<1> HIDE DEF links
<1>6. forward = {next} \ {0}
    BY <1>5
<1>7. next # 0 => next = i + 1 /\ i < Len(o)
    BY <1>2 DEF LeadsOn
<1>8. next = 0 => NoneForward(o, i)
    BY <1>2 DEF LeadsOn
<1>9. links.prev \in {0, i - 1} /\ (links.prev = 0 => i = 1 \/ starts \/ (~cross /\ IsSection(o, i)))
    BY <1>3, <1>5
<1>10. ~cross => site = "training"
    OBVIOUS
<1>11. {links.start, links.class, links.next, links.prev} \ {0} \subseteq 1 .. Len(o)
  <2>1. {links.start, links.class, links.next, links.prev} \ {0} \subseteq ({next} \ {0}) \union ({i - 1} \ {0})
      BY <1>6, <1>9
  <2>2. {next} \ {0} \subseteq 1 .. Len(o) /\ {i - 1} \ {0} \subseteq 1 .. Len(o)
      BY <1>1, <1>7
  <2>3. QED
      BY <2>1, <2>2
<1> DEFINE ends == o[i].depth - o[i + 1].depth
<1>12. forward \subseteq {i + 1}
    BY <1>6, <1>7
<1>13. forward = {} => \/ i = Len(o)
                       \/ IsSection(o, i) /\ ends > 0
                       \/ ends > 2
                       \/ ends = 2 /\ ~IsSection(o, i + 1)
  <2> SUFFICES ASSUME forward = {}, i # Len(o) PROVE \/ IsSection(o, i) /\ ends > 0
                                                     \/ ends > 2
                                                     \/ ends = 2 /\ ~IsSection(o, i + 1)
      OBVIOUS
  <2>1. next = 0
      BY <1>6
  <2>2. i + 1 \in 1 .. Len(o)
      BY <1>1
  <2>3. o[i].depth \in Nat /\ o[i + 1].depth \in Nat
      BY <2>2, OutlineIs
  <2>4. \/ IsSection(o, i) /\ o[i].depth > o[i + 1].depth
        \/ o[i].depth - o[i + 1].depth > 2
        \/ o[i].depth - o[i + 1].depth = 2 /\ ~IsSection(o, i + 1)
      BY <1>8, <2>1 DEF NoneForward
  <2>5. QED
      BY <2>3, <2>4
<1> HIDE DEF forward, ends
<1>14. LinksFit(o, i, site)
    BY <1>9, <1>10, <1>12, <1>13 DEF LinksFit, links, forward, ends, starts
<1>15. QED
    BY <1>11, <1>14 DEF links
(* The classes of a course that is in no section are right below it.         *)
LEMMA ClassesBelow ==
    ASSUME NEW o, Outlined(o), NEW i \in 1 .. Len(o), IsSection(o, i), o[i].depth = 1
    PROVE  ClassLinks(o, i) = {j \in Inner(o, i) : o[j].depth = 2}
<1> DEFINE d(k) == o[k].depth
           n == Len(o)
<1>1. n \in Nat /\ i \in Nat /\ (\A k \in 1 .. n : d(k) \in Nat \ {0}) /\ d(i) = 1
    BY OutlineIs
<1>2. PICK e \in i .. n : Closes(o, i, e)
    BY SectionCloses
<1>3. Inner(o, i) = i + 1 .. e /\ \A k \in i + 1 .. e : d(k) > d(i)
    BY <1>2 DEF Closes
<1>4. ASSUME NEW j \in Inner(o, i), d(j) # 2
      PROVE  \E a, b \in 1 .. n : IsSection(o, a) /\ IsSection(o, b) /\ b \in Inner(o, a) /\ j \in Inner(o, b)
  <2> DEFINE p == ParentItem(o, j)
  <2>1. j \in 1 .. n /\ j \in i + 1 .. e /\ j \in Nat
      BY <1>1, <1>3
  <2>2. d(j) > 1 /\ d(j) > 2
    <3>1. d(j) > d(i) /\ d(j) \in Nat
        BY <1>1, <1>3, <2>1
    <3> HIDE DEF d
    <3>2. QED
        BY <1>1, <1>4, <3>1
  <2>3. IsParent(o, j, p)
      BY <2>1, <2>2, ParentIs
  <2> HIDE DEF p
  <2>4. p \in 1 .. j - 1 /\ d(p) = d(j) - 1 /\ \A k \in p + 1 .. j : d(k) >= d(j)
      BY <2>3 DEF IsParent
  <2>5. p \in 1 .. n /\ p \in Nat /\ p + 1 \in 1 .. n /\ p + 1 \in 2 .. n /\ (p + 1) - 1 = p
      BY <1>1, <2>1, <2>4
  <2> HIDE DEF d, n
  <2>6. d(p) \in Nat /\ d(j) \in Nat /\ d(p) # 1
      BY <1>1, <2>1, <2>2, <2>4, <2>5
  <2>7. p \in i + 1 .. e
    <3>1. ASSUME p < i PROVE FALSE
      <4>1. i \in p + 1 .. j
          BY <1>1, <2>1, <2>5, <3>1
      <4>2. d(i) >= d(j)
          BY <2>4, <4>1
      <4>3. QED
          BY <1>1, <2>2, <2>6, <4>2
    <3>2. p # i
        BY <1>1, <2>6
    <3>3. p \in Nat /\ e \in Nat /\ j \in Nat /\ j <= e /\ p < j /\ i \in Nat
        BY <1>1, <2>1, <2>4, <2>5
    <3>4. ~(p < i)
        BY <3>1
    <3>5. p > i
        BY <3>2, <3>3, <3>4
    <3>6. QED
        BY <3>3, <3>5
  <2>8. j \in Inner(o, p)
    <3>1. \A k \in p + 1 .. j : o[k].depth > o[p].depth
      <4> TAKE k \in p + 1 .. j
      <4>1. d(k) >= d(j) /\ k \in 1 .. n
          BY <1>1, <2>1, <2>4, <2>5
      <4>2. d(k) \in Nat
          BY <1>1, <4>1
      <4>3. d(k) > d(p)
          BY <2>4, <2>6, <4>1, <4>2
      <4>4. QED
          BY <4>3 DEF d
    <3>2. j \in p + 1 .. Len(o)
        BY <1>1, <2>1, <2>4, <2>5 DEF n
    <3>3. QED
        BY <3>1, <3>2 DEF Inner
  <2>9. IsSection(o, p)
    <3>1. p + 1 \in p + 1 .. j /\ p + 1 \in 2 .. Len(o)
        BY <2>1, <2>4, <2>5 DEF n
    <3>2. d(p + 1) >= d(j) /\ d(p + 1) \in Nat
        BY <1>1, <2>4, <2>5, <3>1
    <3>3. \/ d(p + 1) <= d((p + 1) - 1)
          \/ d(p + 1) = d((p + 1) - 1) + 1 /\ IsSection(o, (p + 1) - 1)
        BY Zenon, <3>1, OutlineIs DEF d
    <3>4. QED
        BY <2>4, <2>5, <2>6, <3>2, <3>3
  <2>10. i \in 1 .. n /\ p \in Inner(o, i)
      BY <1>3, <2>7 DEF n
  <2>11. QED
      BY <2>5, <2>8, <2>9, <2>10
<1>5. ASSUME NEW j \in Inner(o, i), d(j) = 2,
             NEW a \in 1 .. n, NEW b \in 1 .. n, b \in Inner(o, a), j \in Inner(o, b)
      PROVE  FALSE
  <2>1. b \in a + 1 .. n /\ j \in b + 1 .. n
      BY <1>5 DEF Inner
  <2>2. b \in a + 1 .. b /\ j \in b + 1 .. j
      BY <2>1
  <2>3. d(b) > d(a) /\ d(j) > d(b)
      BY <1>5, <2>2 DEF Inner
  <2>4. d(a) \in Nat \ {0} /\ d(b) \in Nat
      BY <1>1
  <2> HIDE DEF d
  <2>5. QED
      BY <1>5, <2>3, <2>4
<1>6. QED
    BY <1>4, <1>5 DEF ClassLinks, n, d

(* What the list of a course has come to after k items.                      *)
ListedTo(o, i, end, k, listed) ==
    \E m \in i .. end :
        /\ listed = Numbered(i, m)
        /\ m >= k \/ m = end
        /\ \A j \in i + 1 .. m : j > k => o[j].depth > 2
        /\ m < end => o[m + 1].depth = 2

LEMMA InnerListed ==
    ASSUME NEW o, Outlined(o), NEW i \in 1 .. Len(o), NEW e, Closes(o, i, e)
    PROVE  Listing(o, Inner(o, i)) = Numbered(i, e)
<1>1. Len(o) \in Nat /\ i \in 0 .. Len(o) /\ e \in i .. Len(o) /\ Inner(o, i) = i + 1 .. e
    BY OutlineIs DEF Closes
<1>2. QED
    BY Zenon, <1>1, OneByOne DEF Listing

LEMMA CourseListed ==
    ASSUME NEW o, Outlined(o), NEW i \in 1 .. Len(o), IsSection(o, i), o[i].depth = 1
    PROVE  CourseList(o, i) = Listing(o, Inner(o, i))
<1> DEFINE d(k) == o[k].depth
           n == Len(o)
           L == ClassLinks(o, i)
           g == [k \in 1 .. n |-> IF k \notin L THEN <<>> ELSE <<k>> \o Listing(o, Inner(o, k))]
<1>1. n \in Nat /\ i \in Nat /\ i <= n /\ (\A k \in 1 .. n : d(k) \in Nat \ {0}) /\ d(i) = 1
      /\ \A k \in 2 .. n : d(k) <= d(k - 1) + 1
    BY OutlineIs
<1>2. PICK end \in i .. n : Closes(o, i, end)
    BY SectionCloses
<1>3. /\ Inner(o, i) = i + 1 .. end /\ (\A k \in i + 1 .. end : d(k) > d(i))
      /\ end < n => d(end + 1) <= d(i)
    BY <1>2 DEF Closes
<1>4. L = {j \in i + 1 .. end : d(j) = 2}
    BY <1>3, ClassesBelow
<1>5. \A k \in L : \E e \in k .. n : Closes(o, k, e) /\ g[k] = <<k>> \o Numbered(k, e)
  <2> TAKE k \in L
  <2>1. k \in 1 .. n
      BY <1>1, <1>4
  <2>2. PICK e \in k .. n : Closes(o, k, e)
      BY <2>1, SectionCloses
  <2>3. Listing(o, Inner(o, k)) = Numbered(k, e)
      BY <2>1, <2>2, InnerListed
  <2>4. g[k] = <<k>> \o Listing(o, Inner(o, k))
      BY <2>1
  <2> HIDE DEF g
  <2>5. QED
      BY <2>2, <2>3, <2>4
<1>6. \A k \in 1 .. n : k \notin L => g[k] = <<>>
    OBVIOUS
<1>7. g \in [1 .. n -> Seq(Nat)]
  <2>1. ASSUME NEW k \in 1 .. n PROVE g[k] \in Seq(Nat)
    <3>1. CASE k \in L
      <4>1. PICK e \in k .. n : g[k] = <<k>> \o Numbered(k, e)
          BY <1>5, <3>1
      <4>2. k \in Nat /\ e \in Nat /\ k <= e
          BY <1>1
      <4>3. Numbered(k, e) \in Seq(Nat) /\ <<k>> \in Seq(Nat)
          BY <4>2, NumberedIs
      <4> HIDE DEF g
      <4>4. QED
          BY <4>1, <4>3, ConcatProperties
    <3>2. CASE k \notin L
      <4>1. g[k] = <<>>
          BY <1>6, <3>2
      <4> HIDE DEF g
      <4>2. QED
          BY <4>1
    <3>3. QED
        BY <3>1, <3>2
  <2>2. g = [k \in 1 .. n |-> g[k]]
      OBVIOUS
  <2> HIDE DEF g
  <2>3. QED
      BY <2>1, <2>2
<1>8. CourseList(o, i) = FlattenSeq(g)
    BY DEF CourseList
<1> HIDE DEF g, L
<1>9. PICK f : Joins(f, g, n, Nat)
    BY <1>1, <1>7, FlattenSteps
<1>10. f[0] = <<>> /\ FlattenSeq(g) = f[n] /\ \A k \in 1 .. n : f[k] = f[k-1] \o g[k]
    BY Zenon, <1>9 DEF Joins
<1> HIDE DEF d
<1>11. end \in Nat /\ i <= end /\ end <= n /\ \A k \in i + 1 .. end : d(k) \in Nat /\ d(k) >= 2
  <2>1. end \in Nat /\ i <= end /\ end <= n
      BY <1>1
  <2>2. ASSUME NEW k \in i + 1 .. end PROVE d(k) \in Nat /\ d(k) >= 2
    <3>1. k \in 1 .. n /\ d(k) > d(i)
        BY <1>1, <1>3, <2>1
    <3>2. d(k) \in Nat
        BY <1>1, <3>1
    <3>3. QED
        BY <1>1, <3>1, <3>2
  <2>3. QED
      BY <2>1, <2>2
<1> HIDE DEF n
<1> DEFINE B == {k \in 0 .. n : ListedTo(o, i, end, k, f[k])}
<1>12. B = 0 .. n
  <2>1. 0 \in B
    <3>1. Numbered(i, i) = <<>>
      <4>1. Len(Numbered(i, i)) = 0 /\ Numbered(i, i) \in Seq(Nat)
          BY <1>1, NumberedIs
      <4>2. QED
          BY <4>1, EmptySeq
    <3>2. i < end => d(i + 1) = 2
      <4>1. ASSUME i < end PROVE d(i + 1) = 2
        <5>1. i + 1 \in i + 1 .. end /\ i + 1 \in 2 .. n /\ (i + 1) - 1 = i
            BY <1>1, <1>11, <4>1
        <5>2. d(i + 1) <= d(i) + 1 /\ d(i + 1) \in Nat /\ d(i + 1) >= 2
            BY <1>1, <1>11, <5>1
        <5>3. QED
            BY <1>1, <5>2
      <4>2. QED
          BY <4>1
    <3>3. i \in i .. end /\ i >= 0 /\ \A j \in i + 1 .. i : FALSE
        BY <1>1, <1>11
    <3>4. ListedTo(o, i, end, 0, f[0])
        BY <1>10, <3>1, <3>2, <3>3 DEF ListedTo, d
    <3>5. 0 \in 0 .. n
        BY <1>1
    <3>6. QED
        BY <3>4, <3>5
  <2>2. ASSUME NEW k \in 1 .. n, k - 1 \in B PROVE k \in B
    <3>0. ListedTo(o, i, end, k - 1, f[k-1])
        BY <2>2
    <3> HIDE DEF B
    <3>1. PICK m \in i .. end :
             /\ f[k-1] = Numbered(i, m)
             /\ m >= k - 1 \/ m = end
             /\ \A j \in i + 1 .. m : j > k - 1 => d(j) > 2
             /\ m < end => d(m + 1) = 2
        BY <3>0 DEF ListedTo, d
    <3>2. m \in Nat /\ i <= m /\ m <= end /\ k \in Nat /\ k >= 1 /\ k <= n
        BY <1>1, <1>11
    <3>3. f[k] = f[k-1] \o g[k]
        BY <1>10
    <3>4. ASSUME k \in L PROVE ListedTo(o, i, end, k, f[k])
      <4>1. k \in i + 1 .. end /\ d(k) = 2
          BY <1>4, <3>4
      <4>2. m = k - 1
        <5>1. ASSUME m # k - 1 PROVE FALSE
          <6>1. k \in i + 1 .. m
              BY <1>1, <1>11, <3>1, <3>2, <4>1, <5>1
          <6>2. d(k) > 2
              BY <3>1, <3>2, <6>1
          <6>3. QED
              BY <4>1, <6>2
        <5>2. QED
            BY <5>1
      <4>3. PICK e \in k .. n : Closes(o, k, e) /\ g[k] = <<k>> \o Numbered(k, e)
          BY <1>5, <3>4
      <4>4. /\ e \in Nat /\ k <= e /\ e <= n
            /\ \A j \in k + 1 .. e : d(j) > d(k)
            /\ e < n => d(e + 1) <= d(k)
        <5>1. /\ \A j \in k + 1 .. e : d(j) > d(k)
              /\ e < n => d(e + 1) <= d(k)
            BY <4>3 DEF Closes, d, n
        <5>2. QED
            BY <1>1, <3>2, <5>1
      <4>5. e <= end
        <5>1. ASSUME ~(e <= end) PROVE FALSE
          <6>1. end + 1 \in k + 1 .. e /\ end < n /\ end + 1 \in 1 .. n
              BY <1>1, <1>11, <4>1, <4>4, <5>1
          <6>2. d(end + 1) > 2 /\ d(end + 1) <= 1 /\ d(end + 1) \in Nat
              BY <1>1, <1>3, <4>1, <4>4, <6>1
          <6>3. QED
              BY <6>2
        <5>2. QED
            BY <5>1
      <4>6. f[k] = Numbered(i, e)
        <5>1. Numbered(k - 1, k) = <<k>>
            BY <3>2 DEF Numbered
        <5>2. k - 1 \in Nat /\ k - 1 <= k /\ i <= k - 1 /\ k - 1 <= e
            BY <3>2, <4>2, <4>4
        <5>3. Numbered(k - 1, k) \o Numbered(k, e) = Numbered(k - 1, e)
            BY Zenon, <3>2, <4>4, <5>2, NumbersJoin
        <5>4. Numbered(i, k - 1) \o Numbered(k - 1, e) = Numbered(i, e)
            BY Zenon, <1>1, <4>4, <5>2, NumbersJoin
        <5>5. QED
            BY Zenon, <3>1, <3>3, <4>2, <4>3, <5>1, <5>3, <5>4
      <4>7. \A j \in i + 1 .. e : j > k => d(j) > 2
        <5> TAKE j \in i + 1 .. e
        <5>1. j > k => j \in k + 1 .. e
            BY <1>1, <3>2, <4>4
        <5>2. QED
            BY <4>1, <4>4, <5>1
      <4>8. e < end => d(e + 1) = 2
        <5>1. ASSUME e < end PROVE d(e + 1) = 2
          <6>1. e < n /\ e + 1 \in i + 1 .. end
              BY <1>1, <1>11, <3>2, <4>1, <4>4, <5>1
          <6>2. d(e + 1) <= 2 /\ d(e + 1) >= 2 /\ d(e + 1) \in Nat
              BY <1>11, <4>1, <4>4, <6>1
          <6>3. QED
              BY <6>2
        <5>2. QED
            BY <5>1
      <4>9. e \in i .. end /\ e >= k
          BY <1>1, <1>11, <3>2, <4>1, <4>4, <4>5
      <4>10. QED
          BY Zenon, <4>6, <4>7, <4>8, <4>9 DEF ListedTo, d
    <3>5. ASSUME k \notin L PROVE ListedTo(o, i, end, k, f[k])
      <4>1. g[k] = <<>>
          BY <1>6, <3>5
      <4>2. Numbered(i, m) \o <<>> = Numbered(i, m)
        <5>1. Numbered(i, m) \in Seq(Nat)
            BY <1>1, <3>2, NumberedIs
        <5>2. QED
            BY <5>1, ConcatEmptySeq
      <4>3. f[k] = Numbered(i, m)
          BY Zenon, <3>1, <3>3, <4>1, <4>2
      <4>4. \A j \in i + 1 .. m : j > k => d(j) > 2
        <5> TAKE j \in i + 1 .. m
        <5>1. j > k => j > k - 1
            BY <1>1, <3>2
        <5>2. QED
            BY <3>1, <5>1
      <4>5. m >= k \/ m = end
        <5>1. ASSUME ~(m >= k), m # end PROVE FALSE
          <6>0. m >= k - 1 /\ end \in Nat /\ i \in Nat
              BY <1>1, <1>11, <3>1, <5>1
          <6>1. m = k - 1 /\ m < end /\ k \in i + 1 .. end /\ m + 1 = k
              BY <3>2, <5>1, <6>0
          <6>2. d(k) = 2
              BY <3>1, <6>1
          <6>3. QED
              BY <1>4, <3>5, <6>1, <6>2
        <5>2. QED
            BY <5>1
      <4>6. QED
          BY Zenon, <3>1, <4>3, <4>4, <4>5 DEF ListedTo, d
    <3>6. ListedTo(o, i, end, k, f[k])
        BY <3>4, <3>5
    <3>7. k \in 0 .. n
        OBVIOUS
    <3>8. QED
        BY <3>6, <3>7 DEF B
  <2>3. B \in SUBSET (0 .. n)
      OBVIOUS
  <2> HIDE DEF B
  <2>4. QED
      BY <1>1, <2>1, <2>2, <2>3, UpTo
<1>13. f[n] = Numbered(i, end)
  <2>1. n \in 0 .. n
      BY <1>1
  <2>2. n \in B
      BY Zenon, <1>12, <2>1
  <2>3. ListedTo(o, i, end, n, f[n])
      BY <2>2
  <2>4. PICK m \in i .. end : f[n] = Numbered(i, m) /\ (m >= n \/ m = end)
      BY <2>3 DEF ListedTo
  <2>5. m = end
      BY <1>1, <1>11, <2>4
  <2>6. QED
      BY <2>4, <2>5
<1>14. Listing(o, Inner(o, i)) = Numbered(i, end)
    BY <1>2, InnerListed
<1>15. QED
    BY <1>8, <1>10, <1>13, <1>14

(* The reader is always at a page of the outline.                            *)
ReadingGood(r) ==
    /\ Outlined(r.outline) /\ r.site \in {"design", "guide", "training"} /\ r.at \in 1 .. Len(r.outline)
    /\ r = [outline |-> r.outline, site |-> r.site, at |-> r.at]

LEMMA ReadingStarts == (NavPageInit \/ NavPageRest) => ReadingGood(reading)
<1>1. ASSUME NavPageInit PROVE ReadingGood(reading)
  <2>1. PICK n \in 1 .. MaxItems : \E o \in [1 .. n -> Item] :
            /\ IsOutline(o)
            /\ \E site \in {"design", "guide", "training"}, at \in 1 .. n :
                 o[at].kind # "empty" /\ reading = [outline |-> o, site |-> site, at |-> at]
      BY <1>1 DEF NavPageInit
  <2>2. PICK o \in [1 .. n -> Item] :
            /\ IsOutline(o)
            /\ \E site \in {"design", "guide", "training"}, at \in 1 .. n :
                 reading = [outline |-> o, site |-> site, at |-> at]
      BY <2>1
  <2>3. PICK site \in {"design", "guide", "training"}, at \in 1 .. n :
            reading = [outline |-> o, site |-> site, at |-> at]
      BY <2>2
  <2>4. n \in Nat \ {0}
      BY NavAssumption DEF NavAssumption
  <2>5. o \in Seq(Item) /\ Len(o) = n /\ o # <<>>
    <3>1. o \in Seq(Item)
        BY <2>4
    <3>2. Len(o) = n
        BY <2>4
    <3>3. QED
        BY <2>4, <3>1, <3>2
  <2>6. Outlined(o)
      BY <2>2, <2>5 DEF Outlined
  <2>7. QED
      BY <2>3, <2>5, <2>6 DEF ReadingGood
<1>2. ASSUME NavPageRest PROVE ReadingGood(reading)
  <2> DEFINE leaf == [depth |-> 1, kind |-> "leaf"]
             o == <<leaf>>
  <2>1. leaf \in Item /\ leaf.depth = 1
      BY NavAssumption DEF NavAssumption, Item, ItemKinds
  <2>2. reading = [outline |-> o, site |-> "guide", at |-> 1]
      BY <1>2 DEF NavPageRest
  <2> HIDE DEF leaf
  <2>3. o \in Seq(Item) /\ Len(o) = 1 /\ o[1] = leaf /\ o # <<>>
      BY <2>1
  <2> HIDE DEF o
  <2>4. IsOutline(o)
      BY <2>1, <2>3 DEF IsOutline
  <2>5. Outlined(o)
      BY <2>3, <2>4 DEF Outlined
  <2>6. QED
      BY <2>2, <2>3, <2>5 DEF ReadingGood
<1>3. QED
    BY <1>1, <1>2

LEMMA ReadingStays == ReadingGood(reading) /\ [FollowLink]_reading => ReadingGood(reading')
<1> SUFFICES ASSUME ReadingGood(reading), FollowLink PROVE ReadingGood(reading')
    BY Zenon
<1> DEFINE o == reading.outline
           links == Links(o, reading.at, reading.site)
<1>1. Outlined(o) /\ reading.site \in {"design", "guide", "training"} /\ reading.at \in 1 .. Len(o)
    BY DEF ReadingGood
<1>2. {links.start, links.class, links.next, links.prev} \ {0} \subseteq 1 .. Len(o)
    BY <1>1, LinksAlwaysFit
<1>3. PICK to \in {links.start, links.class, links.next, links.prev} \ {0} :
          reading' = [reading EXCEPT !.at = to]
    BY Zenon DEF FollowLink
<1>4. to \in 1 .. Len(o)
    BY <1>2, <1>3
<1>5. reading' = [outline |-> o, site |-> reading.site, at |-> to]
    BY <1>3 DEF ReadingGood
<1> HIDE DEF o, links
<1>6. reading'.outline = o /\ reading'.site = reading.site /\ reading'.at = to
    BY <1>5
<1>7. QED
    BY <1>1, <1>4, <1>5, <1>6 DEF ReadingGood

LEMMA ReadingGoodInOrder == ReadingGood(reading) => LinksInOrder /\ CourseComplete
<1> SUFFICES ASSUME ReadingGood(reading) PROVE LinksInOrder /\ CourseComplete
    OBVIOUS
<1>1. /\ Outlined(reading.outline) /\ reading.site \in {"design", "guide", "training"}
      /\ reading.at \in 1 .. Len(reading.outline)
    BY DEF ReadingGood
<1>2. LinksInOrder
  <2>1. LinksFit(reading.outline, reading.at, reading.site)
      BY <1>1, LinksAlwaysFit
  <2>2. QED
      BY Zenon, <2>1 DEF LinksFit, LinksInOrder
<1>3. CourseComplete
    BY <1>1, CourseListed DEF CourseComplete
<1>4. QED
    BY <1>2, <1>3

LEMMA PagesMoveReading == [PagesNext]_pagesVars => [FollowLink]_reading
<1> SUFFICES ASSUME [PagesNext]_pagesVars PROVE [FollowLink]_reading
    OBVIOUS
<1>1. ASSUME NavStep PROVE [FollowLink]_reading
    BY Zenon, <1>1 DEF NavStep
<1>2. NavStep \/ UNCHANGED reading
    BY Zenon DEF PagesNext, SlidesStep, TogglesStep, ListsStep, LoadsStep, CompleteStep, TreeStep,
                 FrameStep, QueryStep, SiteStep, MatchStep, PanesStep, pagesVars
<1>3. QED
    BY Zenon, <1>1, <1>2

(* For every outline of the side navigation, every kind of site and every    *)
(* way through it: the links lead to the item before and the one after, with *)
(* no exception but those that are named, and the home page of a course      *)
(* lists all of its classes and lessons, each once and in order              *)
(* (templates-sdk docs.js).                                                  *)
THEOREM LinksStayInOrder == PagesSpec => []ReadingInOrder
<1>1. PagesInit => ReadingGood(reading)
  <2>1. PagesInit => NavPageInit \/ NavPageRest
      BY Zenon DEF PagesInit
  <2>2. QED
      BY <2>1, ReadingStarts
<1>2. ReadingGood(reading) /\ [PagesNext]_pagesVars => ReadingGood(reading)'
    BY PagesMoveReading, ReadingStays
<1>3. ReadingGood(reading) => ReadingInOrder
    BY Zenon, ReadingGoodInOrder DEF ReadingInOrder
<1>4. QED
    BY <1>1, <1>2, <1>3, PTL DEF PagesSpec
=============================================================================
