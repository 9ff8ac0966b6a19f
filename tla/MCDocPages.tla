----------------------------- MODULE MCDocPages -----------------------------
(***************************************************************************)
(* The parts of DocPages on small pages: three slides, four sections of    *)
(* which one is in another, two tables, three windows' worth of everything *)
(* that is shared.                                                         *)
(***************************************************************************)
EXTENDS DocPages

Sectioned == [s \in {"A", "A1", "B", "S"} |-> IF s = "A1" THEN "A" ELSE "none"]

(* Filters in three groups, and resources that agree with none or several.  *)
FilterItem(kind, value, tab) == [kind |-> kind, value |-> value, tab |-> tab]
SomeItems == {FilterItem("type", "video", "t"), FilterItem("type", "blog", "t"),
              FilterItem("tag", "wear", "g"), FilterItem("tag", "tv", "g"),
              FilterItem("category", "c1", "c")}
Filterable(type, category, tags) == [type |-> type, category |-> category, tags |-> tags]
SomeResources == {Filterable("video", "c1", {"wear"}), Filterable("video", "c2", {"wear", "tv"}),
                  Filterable("blog", "c1", {"tv"}), Filterable("doc", "c1", {})}

(* Trees of the reference: three nodes under each other, and one alone.      *)
GoogleTree == [n \in {"g1", "g2", "g3", "c1"} |->
                 CASE n = "g1" -> "gms" [] n = "g2" -> "g1" [] n = "g3" -> "g2" [] n = "c1" -> "gcm"]

(* A tree with two packages, one with classes of two API levels.             *)
Packages == {"r1", "r2", "k1", "k2"}
PackageOf == [n \in Packages |-> IF n \in {"k1", "k2"} THEN "r1" ELSE "none"]
Since == [n \in Packages |-> IF n \in {"r1", "k1"} THEN 1 ELSE 2]

(* Matches of a text, by kind.                                               *)
Matched(android, google, guides, training, design) ==
    [android |-> android, google |-> google, guides |-> guides, training |-> training,
     samples |-> 0, design |-> design, distribute |-> 0]
SomeAnswers == {Matched(0, 0, 0, 0, 0), Matched(1, 1, 0, 0, 0), Matched(0, 1, 1, 1, 0), Matched(2, 0, 0, 1, 1)}
SomeMatches == {<<>>, <<1>>, <<1, 2>>, <<3, 1>>, <<3, 2, 1>>}

(* A video, its translation, another one and a post; what was visited.      *)
Resource(type, tags, lang, url) == [type |-> type, tags |-> tags, lang |-> lang, baseUrl |-> url]
Site == <<Resource("video", {"a"}, "en", "u1"), Resource("blog", {"a", "b"}, "en", "u2"),
          Resource("video", {"b"}, "en", "u3"), Resource("video", {"a", "b"}, "ja", "u1")>>
Collected == [c |-> <<"u2", "gone", "u3">>, d |-> <<"u2">>]
Mapped == [s |-> <<"u3", "u1">>]
Visit(url, hit) == [url |-> url, hit |-> hit]
Seen == {<<Visit("u3", 2), Visit("gone", 1), Visit("u2", 2)>>}
Clause(attr, value) == [attr |-> attr, value |-> value, negative |-> FALSE]
Not(attr, value) == [attr |-> attr, value |-> value, negative |-> TRUE]
Asked == {<<<<Clause("type", "video")>>>>,
          <<<<Clause("tag", "a"), Clause("type", "video")>>, <<Clause("collection", "c")>>>>,
          <<<<Clause("collection", "c"), Clause("tag", "b"), Clause("type", "blog")>>>>,
          <<<<Clause("tag", "b"), Not("tag", "a")>>>>,
          <<<<Clause("type", "unknown")>>>>,
          <<<<Clause("tag", "b")>>, <<Clause("collection", "d")>>, <<Clause("tag", "a")>>>>,
          <<<<Clause("tag", "b"), Clause("tag", "unknown")>>, <<Clause("tag", "b")>>>>,
          <<<<Clause("type", "video"), Clause("tag", "a"), Clause("collection", "c")>>>>,
          <<<<Clause("tag", "a"), Clause("collection", "d"), Clause("type", "video")>>>>,
          <<<<Clause("tag", "b"), Not("collection", "d")>>, <<Clause("section", "s"), Clause("lang", "en")>>>>,
          <<<<Clause("history", "recent"), Clause("tag", "b")>>>>,
          <<<<Clause("history", "most/visited")>>>>}

Repetitive == UNION {[1 .. n -> 1 .. 3] : n \in 0 .. 4}
TwoWords == {<<"a">>, <<"a", "b">>}

(* Page 1 is a lesson of the tutorial 2, and page 4 a translation of page 3;  *)
(* page 5 is on its own.                                                     *)
Tutorial == [d \in {1} |-> 2]
Translated == [d \in 1 .. 5 |-> IF d = 3 THEN 4 ELSE d]
Languages == [d \in 1 .. 5 |-> IF d = 4 THEN "ja" ELSE "en"]

(* An article and two samples, tags of two classes and some that are none.   *)
Articles == <<[title |-> {"maps"}, description |-> {"draw"}, tags |-> {"article", "ui"}],
              [title |-> {"notes"}, description |-> {"list"}, tags |-> {"sample", "ui", "data"}],
              [title |-> {"maps", "list"}, description |-> {}, tags |-> {"sample", "data"}]>>
Classes == [t \in {"article", "sample", "ui", "data"} |-> IF t \in {"ui", "data"} THEN "topic" ELSE "type"]
Params == UNION {[1 .. n -> {"sample", "ui", "gone", "0", "1"}] : n \in 0 .. 2}

PdkPage(section, n) == [section |-> section, n |-> n]
Frames == {PdkPage("reference", 1), PdkPage("reference", 2), PdkPage("guide", 1), PdkPage("resources", 1),
           PdkPage("training", 2), PdkPage("other", 1)}

(* Two classes of different levels on two pages, and a page of the guide.    *)
LandedIn == [p \in Paths |-> IF p = "a" THEN "n1" ELSE "n2"]
SinceLevel == [p \in Paths |-> IF p = "a" THEN 1 ELSE 2]
=============================================================================
