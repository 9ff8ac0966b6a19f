# A verification of platform_build

TLA+ models of the parts of the Android build system whose correctness is a
matter of order, sharing and limits: how `tools/releasetools` turns a pair of
images into a block-based update and how it runs diff tools in parallel, how
`makeparallel` shares a jobserver, and how the documentation pages that
`tools/droiddoc` makes behave under clicks, timers, animations and answers that
come late. TLC checks the models on small instances; TLAPS proves for every
instance what matters most of the way from the transfers to the update of a
partition, of the sets of blocks it computes with, of the workers, of the
jobserver, and of the search and the frame of a page.

`tlc -config <run>.cfg <module>` runs one of the runs below, `tlapm
RangeLibProofs.tla` or any other module of proofs checks its proofs.

## Inventory of the system

The repository is mostly make rules and declarations. Its own logic is in
`tools/`: Python in `tools/releasetools`, some C++ programs, and, by far the
largest part, the JavaScript of the documentation templates.

| component | state it keeps | operations | hard because | what makes it correct |
|---|---|---|---|---|
| `blockimgdiff.py`, ordering | digraph of transfers, work sets, heap, two deques | GenerateDigraph, FindVertexSequence, Remove/ReverseBackwardEdges, ImproveVertexSequence | copies of the edges are destroyed on the way, edges are turned while being iterated over, sets iterate in hash order | nothing is read after it was written; every transfer once; stashes made before used; acyclic before the sort |
| `blockimgdiff.py`, stash plan | running total, def and use of every stash | ReviseStashSize, AssertSequenceGood | simulates WriteTransfers ahead of time; replaces commands already passed | what is planned fits in the cache and can be executed |
| `blockimgdiff.py`, transfer list | slots, reference counts by hash, current and peak stash, touched blocks | ComputePatches, WriteTransfers | shared stash files, reuse of slots, implicit stashes, erasing ahead | executing the list gives the target image within the announced space |
| `blockimgdiff.py`, patches | queue, results, patch.dat | worker threads of ComputePatches | threads, failures in them | each transfer finds its patch; a failure is noticed |
| `blockimgdiff.py`, transfers | file maps, name indexes | FindTransfers, AddTransfer, AddSplitTransfers | loops driven by the cache size | a partition of the care map; pieces that correspond |
| `rangelib.py` | sorted boundaries, a monotonic flag | union, intersect, subtract, overlaps, size, map_within, extend, first, parse, to_string | equal boundaries, empty ranges | behaves as a set of integers |
| `common.py`, diffs | iterator under a lock, diff processes | ComputeDifferences, ComputePatch | threads, time limits, signals, exceptions with the lock held | each file once; no torn patch; it ends |
| `ota_from_target_files.py` | script, zip, maps of files | full, incremental and verify packages, two-step updates, fall-back | restarts of recovery between stages; partial failure | a package that applies, or an error |
| `makeparallel` | tokens claimed | poll, read with an alarm, fork, wait, put | races with other readers of the pipe | tokens conserved; no wait for ever; no more jobs than allowed |
| droiddoc: search overlay | field, last query, overlay, icon, results, recent searches, history | typing, debounce, custom search, load more, back and forward, modal windows | answers overtake each other; the address changes later than the page | the page never locked; address, field and results agree at rest |
| droiddoc: slides | current slide, timers, queues of animations | next, previous, pause, swipe, tabs | clicks during animations, timers against clicks | one thing shown, the one that is marked |
| droiddoc: parts that open and close | classes, displayed elements, queues | navigation, panels, inherited members, sections, newsletter | classes are changed in callbacks | what is shown is what the class says |
| droiddoc: lists of resources | pages of cards, filters, chips, counts | more, less, resize, filter, browse | four copies of one filter; indexes that are reset | the list is what was found and agrees with every filter |
| droiddoc: late loads | requests, tries, trees, players | blog posts, videos, Google trees, namespaces | answers after time-outs, after the reader has left, in any order | each answered, nothing twice, this page highlighted |
| droiddoc: reading links | side navigation as an outline | previous, next, course links | levels end, sections are empty | following the links reads all pages in order |
| droiddoc: suggestions | cards or a table, selected row and column | keys, mouse | the selection outlives what it was chosen in | a selection is on a suggestion that is there |
| droiddoc: navigation tree | nodes, levels, cookie | swap, expand, collapse, API level | a script that comes late or never | shows what it takes to be open, greys out what a level lacks |
| droiddoc: frame | flags of redraws, header, pane of results, strip of slides | resize, scroll, click, address | delayed redraws, queues of animations | each shows what it takes itself to show |
| droiddoc: metadata queries | lists of resources, matches, ranks | parse, build a list, remove duplicates, rank | arrays changed under an index; positions computed from offsets | none lost, none twice, no worse one first |
| droiddoc: site memory | cookies, local storage | recent pages, toasts, side bar, API level, language, panes | several windows, old values in new pages | what is restored is what was done last |
| `sparse_img.py`, `edify_generator.py`, image builders, signing | maps, script lines, zips | external commands | I/O | - |
| `core/*.mk`, `target/`, `envsetup.sh` | make variables | evaluated once by make | size | - |
| zip tools, ijar, signapk, acp, atree, fs_config, scripts | none that lasts | one pass over files | formats | - |

How they interact: `ota_from_target_files.py` builds two images with
`sparse_img.py`, hands them to `BlockImageDiff.Compute`, which calls its methods
one after the other on one list of `Transfer` objects and writes three files;
the updater on the device (another repository) executes the transfer list. The
diff tools are child processes started from worker threads. Failures travel as
exceptions, which is where threads matter. `makeparallel` talks to GNU make and
to all other recipes through one pipe. The parts of a documentation page run in
one thread, in handlers that jQuery, timers, the network and the browser's
history call; they share almost no state but the page, its address, one class of
the body, and what is kept between pages.

`PROJECT.json` lists every component with its status, and under `hazards` the
forty places where this code is hardest to test.

## The modules

    TransferOrder  <-  StashPlan  <-  TransferList  <-  BlockUpdate
         ^                 ^               ^                ^
    TransferOrderInv <--------------------------------- BlockUpdateProofs

    RangeLib  --refines-->  BlockSets      (shown in RangeLibProofs)
    PatchWorkers      DiffWorkers      JobServer      DocSearch

    DocSlides  DocToggles  DocLists  DocLoads  DocNav  DocComplete
    DocTree    DocFrame    DocQuery  DocSite   DocMatch  DocPanes   <-  DocPages

JobServer, PatchWorkers and DiffWorkers each have a module of proofs that extends
them (`JobServerProofs` and so on). The theorems about DocPages are in `DocProofs`
(frame, slides, suggestions, lists, what a search finds; DocSearch too) and
`DocWidgetProofs` (what opens and closes, what is loaded late, trees, panes, what the
site remembers, the links of the side navigation).
`DataProofs` holds the lemmas on sums over finite sets, on recursive functions and
on sequences that the other proof modules use.

An arrow means EXTENDS: `Compute` is one program counter `pc` that walks through
the modules from left to right, with each module adding the variables of its
methods and leaving the rest unchanged.

### Updates and builds

* **TransferOrder** - from the transfers to their sequence. Each round of a loop
  of the code is an action; `src`, `style`, `goesBefore`, `goesAfter`,
  `stashBefore`, `useStash`, `order` are the attributes of `Transfer`;
  `incoming`, `outgoing`, `score` are the copies that are peeled; `G`, `s1`,
  `s2`, `sinks`, `newSinks`, `sources`, `newSources` are local variables.
  Iterating over a set of objects is a choice (`\E u \in sinks`), since the code
  iterates in hash order; so is a tie between scores. The heap is represented by
  what it serves: the best score among the vertices left (`ScoreExact` is about
  keeping the scores right). Edges keep no weight, as it can be computed.
* **StashPlan** - `ReviseStashSize`, one round of its main loop per action, and
  the assertion-only `AssertSequenceGood`. An assertion that fails leads to
  `pc = "aborted"`.
* **TransferList** - `ComputePatches`, as far as the styles go, and
  `WriteTransfers`, one transfer per action; `wr` holds its local variables and
  `wr.out` the commands. Hashes are taken to be collision free: the hash of
  blocks is their contents. Patch offsets are left to PatchWorkers. That `new`
  and `zero` commands are cut after 1024 blocks is left out.
* **BlockUpdate** - the device executes the list. The updater is not in this
  repository; its commands are modelled from the comments and operands of
  `WriteTransfers`. This is what the list promises: the target image.
* **RangeLib**, **BlockSets** - the operations of `rangelib.py` on boundaries,
  and what they mean on sets; `ImplementsSets` is the refinement, checked and
  proved. It justifies that the other modules treat a RangeSet as a set of blocks.
  The loops are recursive functions over the rounds (`Sweep`, `Squeeze`,
  `Reduced` ...), so that proofs can be about them.
* **PatchWorkers** - the diff workers of `ComputePatches`, the layout of
  `patch.dat`, and the `except ValueError` of `main` around it.
* **DiffWorkers** - `ComputeDifferences`: lock, iterator, the diff tool as a
  process, the thread that reaps it, time limits, SIGTERM, SIGKILL.
* **JobServer** - `makeparallel` and its environment: make and other recipes.
* **SmallImages** and the **MC** modules give the instances.

### Documentation pages

Each part of a page keeps its state in one record, whose fields carry the names
of the code where it has any. A handler is an action. What the browser does is
modelled where the handlers depend on it, and marked external in the map: a
queue of animations per element, whose head runs and whose callback is an action
of its own (`fadeIn`, `slideToggle`, `animate`), timers, requests with answers,
the history with the events it delivers later, cookies and `localStorage`. Texts,
pictures, widths and easing are left out, except in DocPanes, which is about
sizes, and where a text is parsed (the query language in DocQuery).

* **DocSearch** - the search overlay of templates-sdk, with the history and the
  custom search, whose requests may be answered in any order or fail.
* **DocSlides** - `dacSlideshow`, `dacTabbedList`, the touch carousel, the full
  screen and the tab carousel, and the tabs.
* **DocToggles** - the side navigation, the panels (`toggle`, `toggleContent`),
  inherited members and the page search that opens them, toggle sections and the
  headings that become some, the newsletter modal.
* **DocLists** - the flow and stack widgets, the filter, the resource browser of
  templates-pdk.
* **DocLoads** - blog posts, videos, the Google trees, the namespaces of the
  reference.
* **DocNav** - previous and next links and the class lists of courses, over an
  outline of the side navigation.
* **DocComplete** - the suggestions of templates-ndk (cards), templates-sac and
  templates-pdk (a table).
* **DocTree** - the navigation tree of the reference with its API levels.
* **DocFrame** - scroll bars, sticky header and quick navigation, pane of search
  results, strip of slides.
* **DocQuery**, **DocMatch** - the queries for resources from their text to the
  list, of two generations of the templates, with the lookups of types, tags,
  languages (older), collections, sections (older) and pages visited; the matches of a search, their
  duplicates and ranks; the card with matches in the reference.
* **DocSite**, **DocPanes** - what is remembered between pages: recent pages,
  toasts, side bar, full screen, API level, language; sizes of panes and the last
  page of a section.
* **DocPages** - composes these parts: one session with one of them, chosen in
  `Init`. They share neither a variable nor an element of the document, so that
  what two of them do on one page is what each does alone. The search overlay,
  which does share something, stands on its own with what it shares.

The same functions stand in several templates, in versions of different age
(`templates-pdk`, `templates-sac`, `templates-ndk`,
`templates-sdk`). A definition is mapped to one copy: usually the newest, and
where the versions agree, the definitions of a whole part (`...Next`) and those
of its actions may name different copies. Where the versions differ in what they
do, both are modelled (`buildResourceList` and `buildOlderList`;
`rankAutocompleteDocResults` and `rank_autocomplete_doc_results`).

Several definitions are preceded by a variant named in its comment as a slip: a
plausible mistake at that place of the code (a dropped test, the other sign, one
too early). Each property is tied to a slip that it catches; no specification
uses them.

## The runs

| run | module | question |
|---|---|---|
| `update` | MCBlockUpdate | formats 1 to 3, four kinds of cache, from the transfers to the device: is the sequence good, are stashes paired, is the peeling exact, does the revised plan fit and stay consistent, is a fitting one kept, are stash files and slots counted and freed exactly, does executing the list give the target image within the announced space, and does it all end? |
| `ranges` | RangeLib | do sequences of operations behave as on sets (refinement of BlockSets)? |
| `patches` | MCPatchWorkers | each patch once and in its place, no failure overlooked? |
| `diffs` | MCDiffWorkers | each file once, no torn patch, always an end? |
| `jobs` | MCJobServer | tokens conserved, nobody blocked for ever, parallelism bounded unless a ninja is told nothing, and is only a ninja without a token told nothing? |
| `pages` | MCDocPages | does every part of a documentation page show what it takes itself to show, list what it found, restore what it kept, and go on by itself where it should? |
| `search` | DocSearch | is the page never left locked, do address, field and results agree at rest, does the loading text go? |

All of these hold. Five runs show disagreements between the code and what it
says of itself (details, with the lines, under `findings`):

| run | property | what happens |
|---|---|---|
| `oversize` | NeverOversize | a plan that ReviseStashSize accepted trips the assertion of WriteTransfers: one frees a command's stashes before, the other after it looks at the command's implicit stash |
| `erase_v2` | EraseFirstUnread | formats 1 and 2 never record touched blocks, so blocks read later are erased first |
| `diff_hang` | AllFinish | a changed file that is now empty: division by zero with the lock held |
| `one_query` | OneQueryShown | results of two searches stand below each other, as a late answer is appended to whatever is there |
| `negative` | NegativesExclude | a resource that a query's only clause excludes is listed, as the clause that decides returns its own sign |

Where a passing run meets one of these cases, its property says so:
`FittedIsAccepted` (in `PlanFits`) leaves out that a list of format 2 that needs
exactly the allowed space is refused as well (`>` in ReviseStashSize, `<` in
WriteTransfers); `ImageCorrect` is about the lists that erase no block that is
read, and `TouchedNotErased` (in `ReadsServed`) shows that from format 3 on these
are all of them; `OthersBounded` (in `JobsBounded`) bounds all jobs by make's
limit only while no ninja is without `-j` (one whose wrapper found no token,
makeparallel.cpp:325, runs as many as it likes), and otherwise those of the others,
each such ninja counted as the one job of its token; `diffs` has no empty file;
`QuietIsCurrent` leaves out the sessions in which an answer overtook an older one
or failed, and `LoadingEnds` those in which one failed (the code has no handler for that).

Two more disagreements are stated, not left out, by the parts of `PagesFound`, so
that the run passes because the code does what they say:

* `ReadAsWritten`: the comment at templates-sdk/assets/js/docs.js:5047 gives
  `tag:foo + type:video` as an example of an expression, but a clause is trimmed
  before its sign is taken off (5064-5067), so the second one has the attribute
  `" type"`, which the code does not know. The expression lists nothing.
* `QueryAnswered`: a resource "must fulfill all criteria" (docs.js:4968), but
  `doesResourceMatchClauses` has a lookup for `type` and `tag` only (and `lang` in
  templates-ndk), keeps the one of the clause before (`var map`, 5028, is not reset)
  and has no default. So a later clause of another attribute adds nothing to those
  before it, and with none before it lets nothing through:
  `type:video+tag:a+collection:c` lists videos with the tag that are not in the
  collection (`Satisfies`). What a negative clause does is the run `negative`.

A property of `pages` is a conjunction of what is said of each part; the parts
are named in DocPages and stated, with a comment, in the module of the part.

### Bounds, and why they are enough

* The images of `SmallImages` have ten blocks, three files and the zero domain.
  Every file may be new or matched with one of three source files, two files may
  be matched with the same one, and the zero domain overlaps itself: the digraph
  takes every shape from empty to two cycles of different length through one
  transfer, so the heuristic guesses, sinks and sources are uncovered by guesses,
  edges are reversed towards earlier and later transfers, and two stashes of the
  same contents are alive at once (blocks 3 and 4 are equal). Blocks exist that
  only the source uses, that nobody uses, and that follow the file system.
* The allowed stash size is 1 block where plans must be cut, with or without a
  fraction of a block beyond it, and 4 where they must not; the cache is 16
  blocks, so that a transfer may be cut into pieces of two (`SplitAssumption`).
  The pair of `oversize` is two one-block files matched with one six-block file.
* RangeLib: integers below 5 and texts of up to three items give all sets of up
  to three ranges, touching, empty and out of order; a result that leaves the
  bound is not kept (`Becomes`).
* Threads: three workers for four patches and two for three files give every
  interleaving of a worker that finishes, one that fails, one that finds nothing
  left. Two wrappers, two other recipes and two tokens give every race for the
  last token.
* Pages: what the reader may do is bounded for each part (`MaxClicks`,
  `MaxToggles`, `MaxKeys`, `MaxActs` and the like, four or five of them), what
  the browser does is not. Four clicks are enough for a second click during the
  animation of the first, a third after it and a fourth that meets what the third
  left behind; three slides have both ends and a middle; four sections have one in
  another and a sticky one; trees are two or three deep; queries have up to three
  expressions over four resources of which two are the same, with later clauses
  that have a lookup, that have none after one that has, and that have none at all;
  three pages were visited, two of them equally often; outlines of the
  navigation have up to four items, which is enough for a section at the end of a
  section; windows and panes have the sizes at which one no longer fits the
  other. `MaxStore` and `PAGES_TO_STORE_` are lowered to one and two, so that the
  lists are cut.
* Search: four queries, one blank and one too short to be searched, two pages of
  results, four acts of the reader.

No symmetry is used: the runs take from seconds to three minutes. `CHECK_DEADLOCK
FALSE` is set for `pages` and `search` and their findings, as a reader may stop.

### Fairness

`Compute` is one thread: `WF_vars(<step>)` says that it goes on. Worker threads
run (`WF` for each), and the main thread does. In PatchWorkers the diff tool ends,
as `compute_patch` waits for it without a limit. In DiffWorkers it need not end:
only a process that was sent SIGKILL does, and what is waited for is reaped;
termination is a result of the time limits. In JobServer a wrapped command ends;
other recipes may keep their tokens for ever, which is what the alarm is for.

On a page nothing is asked of the reader. In DocPages the timer of a slide show
goes off (`ShowTimer`, an interval), its animation ends (`ShowEnds`, jQuery's
promise), and a request of the blog is answered or timed out (`BlogTimer`, the
code sets `timeout: 650`) as long as the reader stays. In DocSearch the debounced
search fires (`CustomSearch`, a timer of one second), a request is answered or
fails (`Network`), and the events of the address are delivered.

## The proofs

Each proof module has an inductive invariant in named parts, one lemma per action
(or more, for its parts) and the theorems at the end. The inductive
invariants were checked by TLC on the instances of the runs before they were proved
(that of the transfer list without its types of records, whose sets TLC cannot
enumerate; that of the update speaks of whole runs of the updater, so TLC checked
what follows from it).

### Sums, recursion and sequences

What the heap of FindVertexSequence, the stash plan, the jobserver and `patch.dat`
count are sums over sets (`MapThenSumSet`), so proofs about them need that a sum
changes by what is added or removed. The induction theorems of the library, which
take an operator as a parameter, cannot be used; `DataProofs` argues instead from a
minimal counterexample: a nonempty set of finite sets has a minimal member
(`MinimalSubset`, from the well-foundedness of < on cardinalities), which gives
that the sum exists and is unique (`AdderExists`, `AddsUnique`), that any element
may be taken out first (`SumRemove`), and the rest. The same device gives
induction up to a number (`UpTo`) and the existence of a function that is defined
value by value (`RecursionExists`), on which every proof about a loop rests; and
the existence of one that is defined from the top of a tree down
(`UpwardRecursionExists`), for any set of nodes, finite or not, none of whose parts
is without a top. The community modules define `SetToSeq`, `ToSet`, `Last` and
`FlattenSeq` by CHOOSE or recursion: what the models need of them is proved there
too (`SetInSequence`, `OneRemoved`, `FlattenSeq` of an appended sequence, and so on).

### The sets of blocks

`RangeLibProofs` proves of `RangeLib`, for every `Limit`, every text and every
sequence of calls, `ImplementsSets` and `FormExact`. It proves what each recursive
definition computes: a loop is first shown to run by its rule (`SweepRuns`,
`SqueezeRuns`, `FrontRuns` ...: the function exists, by `RecursionExists`, so the
one that is chosen obeys its equation), and then an invariant of the loop is
carried from round to round (`UpTo`).

* `Cell(s, k, x)` says that the first k boundaries of s are not above x and the
  others are: x belongs to the set if k is odd (`CellDecides`). All the loops are
  followed through the cell of one number. `_remove_pairs` keeps the parity of
  the cell (`PairsRemoved`), and leaves boundaries that rise.
* `heapq.merge` is in order and interleaves its inputs, so that where the sweep
  passes x it has seen a prefix of each (`MergeOrdered`, `MergeSplits`,
  `PassesCells`). The depth there is the number of operands that x is in, with
  `subtract` counting backwards (`DepthIs`); the boundaries written up to there
  are odd in number exactly if the depth is at least the one looked for
  (`SweptRight`). `UnionRight`, `IntersectRight`, `SubtractRight` and
  `OverlapsRight` follow from one lemma, `OperationRight`.
* `size` is the number of blocks below the last boundary (`SizeRight`, with
  `Below`); `map_within` sends a boundary to the number of blocks of `self` below
  it, since `other` only has boundaries inside ranges of `self` or at their ends
  (`MetInside`, where the order -5, -1, 1, 5 of events at one position matters);
  `first` ends where n blocks are below (`CutCells`); `extend` is the union with
  all the grown ranges (`WidenedRight`).
* Parsing sorts the boundaries (`SortingRight`): a number of the text is in an
  odd cell, as its items share no block. `monotonic` is `InTurn` of the items
  (`MonotonicRight`). Writing out and parsing again gives the same boundaries
  because it gives the same set, and by `UniqueForm` a set has one list of
  boundaries in this form - the theorem that justifies `==`.

`RangeInv`, the inductive invariant, adds to the form of both RangeSets that they
are within the bound.

### The ordering of the transfers

`BlockUpdateProofs` begins with the ordering. It proves, for every set of transfers,
every content of the images and every set of format versions, that TransferOrder keeps `TypeOK`,
`NoReadAfterWrite`, `NeverAborted`, `StashesPaired`, `ResidualGraph`,
`BestIsLastResort` and `PeelingExact`. Assumptions: transfers and blocks are
finitely many, each transfer writes some block and no two the same one
(`AssertPartition` asserts that of the file map), and the versions are among the
four.

None of these is inductive. `IInv` (TransferOrderInv) adds what carries the
argument from one method to the next:

* while vertices are peeled off, `s1`, `s2` and `G` partition the transfers
  (`PartsDisjoint`), the work sets hold every bare vertex left (`WorkSetsExact`)
  and the copies of the edges are the residual graph; so the sequence recorded is
  a permutation, and `order` is the place in it (`OrderIsPlace`);
* whoever overwrites what x reads has an edge from x, or x has those blocks
  stashed or given up (`ReadsCovered`): GenerateDigraph makes it so, and turning
  an edge or trimming a source keeps it;
* the transfers that the edge loop has passed have all their edges forward
  (`EdgesForward`): turning an edge of a later one only adds forward edges. At
  the end the order is a topological one, so the digraph has no cycle, and the
  sort of ImproveVertexSequence, whose `L` is closed under predecessors
  (`Topological`), places every transfer (`AllPlaced`);
* a stash is known to both its ends, and its edge has been turned
  (`StashesMatched`): the improved order respects the turned edge, so the stash is
  made first.

`PeelInv` is a second layer on top of `IInv`, for `PeelingExact`:

* `ScoreExact` - a removal changes each neighbour's sum by the weight of the one
  edge that goes, and nobody else's (`ScoreStep`, from the lemmas on sums);
* `EdgesOverlap` - an edge stands for blocks that are read, and a backward edge
  that the loop has yet to reach still does: a round only changes edges and
  sources of the transfer it is at, or adds edges to ones that come later in a
  way that points forward. This is `ViolatedOverlaps`, what the loops assert;
* `PeeledInOrder` - a nonempty part of an acyclic digraph has a bare vertex, so
  "best" is never entered, and `s1` and `s2` are closed under predecessors and
  successors; so the sequence violates no edge (`AcyclicIsFree`).

### The stash plan

Its second part proves of `PlanSpec`, for every set of transfers, every cache and
every format, `PlanTypeOK`, `PlanConsistent`, `ExplicitStashFits` and the action
property `FittingPlanKept`. `PlanInv` starts where `IInv` and `PeelInv` end:

* a transfer is "new" exactly if nothing is left for it to read (`StylesFit`), and
  a stash holds blocks its user would read (`StashesNeeded`, which needs
  `EdgesOverlap`: a stash is never empty). So the assertion of ReviseStashSize
  that a command it gives up is not "new" already holds;
* no stash is in a `stash_before` twice (`StashesDistinct`): otherwise removing it
  once would not remove it, and its blocks would be counted twice;
* the order is final (`PlanOrdered`), the stashes stay paired when commands lose
  theirs (`PlanPaired`), and `SequenceGood` survives since a command that is given
  up reads nothing;
* `TotalCovers`: between two rounds the running total is at least the size of the
  stashes that are made and yet to be used (`Pending`), and exactly that until the
  first command is given up. It is only a bound afterwards because the code does
  not take off what was counted for a command given up later, while those stashes
  do leave the plan. From it follow that the total is never negative, that what is
  stashed at a command (`LiveAt`) fits, and that nothing is given up when
  everything fits (`RoundSpares`).

Inside a round, the stashes that still fit are chosen one after the other;
`RoomIsExact` says what that loop leaves: the total counts the chosen ones and no
others, stays in the limit, and refuses none if all of them fit.

### The transfer list

The third part of `BlockUpdateProofs` proves of `ListSpec`, for every set of transfers, every
content of the source image, every cache, every format and every choice of moves,
`ListTypeOK`, `NeverAborted` (which now covers the assertions of WriteTransfers),
`StashesExact`, `PlanFits` and `TouchedNotErased`. `ListInv` takes over from
`PlanInv` when ComputePatches has picked the commands:

* `Settled` is what the writer finds in the plan and never changes: the order is
  final, stashes are made before they are used, nowhere listed twice, apart from
  each other at one command and inside its source (`PlanOrdered`, `PlanPaired`,
  `StashesNeeded`, `SequenceGood`), a move or a patch has something to read
  (`StylesPicked`), and in format 2 the stashes alive at a command fit the cache
  (`StashesFit`);
* `WriterSound(w, O)` is what the local variables are when the stashes in `O` are
  made and yet to be used. `SlotsKept`: each has one slot below `next_stash_id`,
  no two the same one, and the slots not taken are on the heap. `CountsKept`:
  the count of a hash is the number of stashes in `O` that share it, and the
  blocks counted are those of the stashes (format 2) or of the files (format 3);
* `Faithful`: what a command reads is in `touched_src_ranges` from format 3 on.

A round folds MakeStash over `stash_before` and TakeStash over `use_stash`. A
fold is a recursive function inside the community modules; `Passes` unrolls it by
one element, and with it an invariant of the loop is carried from one pass to the
next: `MakingKeeps` (a stash gets a free slot, and its file a reference),
`TakingKeeps` (the reverse). In the middle of a round the writer holds
`LiveAt(idx)`, before it `Outstanding`: `RoundStashes` relates them. The
assertions of the round hold there (`RoundIsSaneToo`): all stashes used by one
command are among those alive, so the count of a hash is at least the number of
them that share it. `Waiting` reads the count of a hash from a bag, and `(+)`,
`(-)` change it by one (`CountsGrow`, `CountsShrink`).

### The update of the device

The last part of `BlockUpdateProofs` proves of `UpdateSpec`, for every set of transfers, all contents
of both images, every cache, every format and every choice of moves, `UpdateTypeOK`,
`ReadsServed`, `ImageCorrect` and `PeakAnnounced`; and that what PlanSpec and
ListSpec promise holds of it too, `FittingPlanKept` included. It assumes that blocks
are numbered (`ImageAssumption`), that a block of a source of the zero domain holds
zeros and erased contents are no contents of an image (`DataAssumption`), and, as
the model does throughout, that range sets with different contents have different
hashes.

All that matters of the list is decided while it is written, and nothing is
executed until it is complete. So the invariant (`DevInv`) speaks of runs that have
not happened: the updater is a function of its state (`After`, which
`StepIsAfter` shows to be what the actions do), `Run(M, q, n)` says that the states
`M` come from executing the commands `q`, each of which finds its stashes
(`Served`), within `n` blocks of cache. What holds after each round of
WriteTransfers is `Runs(wr, idx)`: whatever set `E` of the blocks that the new image
does not care about is erased first - the first command is only known at the end,
when it is put in front of all others - the commands written so far can be run from
`Start(E)` within `wr.peak`, and the store ends with exactly the files of the stashes
that are made and yet to be used (`FilesOf`). And if none of those commands reads
from `E` (`Right`),

* the files hold what the source image holds in their blocks, and every patch found
  the data it was computed from;
* the targets of the transfers done hold what is wanted (`Wanted`), and every block
  that none of them has written, and that is not in `E`, is that of the source image.

Each part of a round keeps it: the stashes that are made (`MakeRuns`), those taken
out (`TakeRuns`) and the command itself (`CommandRuns`), whose source is put together
from blocks nobody has written yet, since `SequenceGood` lets no later command read
them from the partition, and from files that hold the old contents of the rest.
`RoundRuns` joins them, and `WholeRuns` adds the commands at both ends of the list:
what is erased at the end is nobody's target. Shared files are why the
invariant counts by hash: a `free` is only written when the last stash of its file
is taken out (`CountsKept`). When the list is executed, the updater is at place
`idx` of such a run (`Arrived`), and `ImageCorrect` for the states in between follows
backwards from the last one, as a patch that found the wrong data is not forgotten
(`SoundBefore`). Format 3's automatic stash of an overlapping command needs room
that the writer has counted in `peak` when it chose the command (part of `Served`).

### Workers and tokens

* `DiffWorkersProofs` proves `ResultsHonest`, for any number of workers and
  files. A file is in the iterator, or with one worker, or done (`IteratorFresh`,
  `TakenOnce`); the iterator is only reached under the lock (`UnderLock`); at each
  place of the loop the file in hand is undone up to the result and done after it
  (`PlaceAndJob`), and the tool is over and has been waited for before its result
  is looked at (`ToolAndPlace`); the caller goes on when all are finished
  (`CallerWaits`).
* `PatchWorkersProofs` proves `PatchesComplete`, for any number of workers and
  patches of any size: a diff is in the queue, or with one worker, or done
  (`QueueFresh`, `TakenOnce`, `PlaceAndJob`), and what is laid out are the first
  `n` patches, each where the sizes of those before it end (`LaidOut`). That the
  queue can be sorted by size at all, from which the initial state follows, is
  proved with it.
* `JobServerProofs` proves `TokensConserved` and `JobsBounded`, for any number of
  recipes, wrappers and tokens: the tokens in the pipe, with recipes and claimed
  by wrappers add up to the pool (`Balance`), each recipe that runs holds one
  (`TokenHeld`), the one make was born with is with one recipe at a time
  (`OneOwn`), and a command was told what its wrapper still has (`ToldExactly`).
  So without a command that is told nothing the limit holds, and only a ninja
  without tokens is one.

### The search overlay

`DocProofs` proves `PageNotLocked`, `AddressIsQuery` and `QuietIsCurrent` of
`SearchSpec`, for any queries, any number of requests in flight and any length of
the session. The last query is what the field holds (`LastIsField`); a change of
the address that names another one has an event to come (`ChangeNoticed`); the
timer that runs is for the last query (`TimerIsLast`); the results begin with a
first page (`FirstPageFirst`); and unless an answer overtook another or failed,
the first page of the last query is on display or the last first page still in
flight (`CurrentComes`).

### The parts of a page

`DocProofs` proves of `PagesSpec` that the frame (`FrameHonest`), the slide shows
(`SlidesHonest`), the suggestions (`SuggestionsHonest`), the lists of resources
(`ListsAgree`) and what a search finds (`MatchesExact`) are as stated, and
`DocWidgetProofs` that what is tried again (`TriesEnd`), everything that opens and
closes (`WidgetsHonest`, `SearchSeesAll`), the navigation trees (`TreesHonest`), the
links through them (`ReadingInOrder`) and what the site remembers (`SiteRemembers`)
are: for any number of slides, sections, namespaces, videos, posts, tables, rows,
matches, resources, nodes, windows and pages, any outline of the side navigation, any
list and label, any size of the window and any number of events.
They assume what the modules do of their constants: sections one below another at
most two deep, an odd number of slides in view, as many of each kind of match as one
likes, at least one page, finitely many API levels and items of the filter, no node
below itself, no tag called "0", words that have a letter and no dot.

A session is with one part at a time, so a step of DocPages is a step of one part
and no step of the others (`PagesMoveFrame` and the other lemmas `PagesMove...`).
Each part then has an inductive predicate on its record. It has to say where
what is moving will come to rest, as what is to be proved only speaks of rest:

* `BarsInv`: the flag that a redraw is waited for is up exactly as long as one
  timer runs, and the flag that lets a call through is only up within one
  handler; so a stale height always has a redraw to come;
* `HeaderGood`: the last animation in the queue of the header says where it will
  end (`fading`), which is where the class says it is; the quick navigation is
  displayed before its wrapper and hidden after it;
* `ResultsGood`: the slidings of the pane take turns (`Alternating`), so that the
  last of them, or what is displayed when there is none, is what the address asks
  for - once the page is loaded and the changes of the address are delivered;
* `AppsGood`: the strip is only sent to positions it has, and the arrows are those
  of the position it is sent to;
* `SlidesInv`, for each kind of show: the dot is that of the slide counted, and a
  paused show has no timer (`ShowGood`); one frame of a carousel is active and is
  not among those fading out (`CarouselGood`); in the strip whose slides each have a
  queue, only the current one ends in view (`Ends`, `StripGood`);
* `TriesInv`: the requests for a post that were made and the first tries in flight
  (`FirstTries`), of which each may become a second, are at most two for each click
  (`BlogGood`);
* `NavGood`: a section that is expanded has its opening still to come (`Waits`) or is
  shown and no animation waits to close it (`Stays`); of the sections below one
  other at most one that is not sticky is expanded;
* `PanelGood` and `RefGood`: a panel that is toggled is off by one for each toggle
  that waits, which only parity can say (`Even`); one that is sent up or down ends
  where its last animation takes it; a namespace is filled once, before it opens;
* `VideoGood`: until the library is loaded no player is there and the queue holds the
  video last asked for, if any; a player has the video last asked for, plays in
  an open box and is paused while the box fades out, unless a click came between
  (`hasty`);
* `PanesGood`: the margins follow the width of the navigation (`MarginFits`), the
  heights those of the window last seen (`HeightFits`), and the tree and the list
  of packages swap the room they have (`SwapFits`);
* `SuggestGood`: in the list of each card a heading is followed by a link
  (`GoodList`, from `ListOfGood`), the selection is a link of a card on display
  unless the cards moved under it (`LinkSelected`), and a card will be on display
  when its animations are over (`WillShow`) if it is wanted. `TableGood`: the row
  selected has the identifier that is remembered;
* `SiteGood`: every window agrees with what its page read when it was loaded
  (`WindowGood`), with what is stored as far as the feature of the session is not
  concerned (`RestAgrees`), and the window that wrote last with all that is stored
  (`LastAgrees`): which is why a reload there restores what was seen, and only there;
* `VisitsGood`: the visits stored stand in the order of the last visits of their
  pages, and every page that fell off the list was last visited before all those
  on it (`KeepsLatest`); there are as many as were visited or as fit; and a page is
  counted with its visits, or fewer once a page has been lost (`Counted`);
* `SizesGood`: the cookies hold the sizes last dragged (`WidthsKnown`, `PulledKnown`)
  and the pages last left (`PagesKnown`), and the page on display came up with them.

* `FlowGood`: the pages one after the other show the numbers 1 to `index`, the first
  page is always kept, every stack of a page but the last is full (`StacksFull`), and
  the buttons are those of what is left; all but the stacks is said except in the case
  that `FlowIsPrefix` leaves out. One page of any size is what `DealtKeeps` says;
* `StackGood`: the stack that a card goes to is at most the margin above the lowest
  (`ShortestFound`), so the differences stay within a card and the margin;
* `FilterGood`: no chip is there twice, so that closing one closes all of an item;
* `BrowserGood`: the results are what has the tags asked for, in order
  (`TaggedFinds`), whatever becomes of a leading zero (`ParsedTags`), and what is
  hidden is what lacks the words last typed;
* `GoogleGood`: the nodes in the page are those of the trees loaded, so that the page
  is highlighted as soon as it is there, and the crumbs repeat its trail (`Repeats`);
* `TreeGood`: each node is at rest as its flag says or the last animation in its queue
  takes it there (`EndsOpen`), and what is grey fits the level (`GreyFits`), nodes
  appended later included. A list that opens at the page unfolds the path from the
  top down, which exists for every node of a tree without cycles (`PathTo`, by
  `UpwardRecursionExists`).

The rest is about what one handler computes, so the predicate says little and the
lemmas say much:

* `ReadingGood`: the reader is at an item of an outline. For every outline and place,
  `LinksFit`: the item after it in the navigation is found by `NextSection` only if
  the sections that end here are those that `SectionNext` and `LeafNext` count
  (`Closes`), and the one before it by `PrevInOrder`; the lists of a course join to
  the items below it, one after the other (`ListedTo`, `CourseListed`);
* `UniqGood`: above the place `b` of toUnique everything is there once, and what is
  at `b` is not among those it was compared with. When it cuts one out, what comes to
  stand at `b` is from above, and so was compared already;
* `RankGood`: the rank is none yet or that of the label. `SearchFindsLast` says what
  `_lastSearch` adds up to when at most two parts of the label have the word;
* `CardGood`: what is drawn are the rows for these numbers of matches
  (`RowsShared`, `MoreRows`), and "More" and "Less" are there while something is left
  or more is shown. The attempt to prove it for any numbers showed that an earlier
  form of `CardHonest` was too strong: with 39 matches in the platform and others
  beside them, the card that is opened leaves out up to eight of the 39, not one.
  `Counts` now has the 39.

What is about queues rests on lemmas on the last element of a sequence and on its
tail (`LastOfAppend`, `LastOfTail`, `AppendTakesTurns`, `TailTakesTurns`).
`SearchSeesAll` is about steps: after one that searches the page every row of every
table is open, whatever was open before, which the shapes of the four functions
(`InheritedType`) are enough for.

### Only model-checked

* All liveness, and with it ENABLED, which the prover cannot reason about.
* `PagesFound`. Of the lists made from the metadata (`QueryAnswered`), that nothing is
  there more than twice is so for the queries of the run, not for every query, and
  so is the number of places that duplicates may take. The
  search (`MatchesKept`, `BetterFirst`) sorts, and filters lists with functions given
  as arguments (`SelectSeq`, `SetToSortSeq`), which the provers cannot take apart;
  where one list is filtered for one value, as in DocSite's `Without`, the loop is a
  recursive function, and what it computes is proved as for `RangeLib`. A query is read
  by a parser (`ReadAsWritten`). The headings (`TextKept`) are wrapped by a fold over
  them, each time with a list put together from the places picked; there is no
  induction over a fold.

## Not modelled

* *Finding the transfers* (`FindTransfers`, `AddTransfer`, `AddSplitTransfers`)
  and what feeds it (`sparse_img.py`): TransferOrder starts from any result of
  theirs, under `TgtAssumption` and `SplitAssumption`. So the piece size of zero
  that a small cache leads to is not met by a run.
* *Resuming an interrupted update* is done by the updater, which is not in this
  repository; BlockUpdate executes the list in one go.
* *The rest of the OTA tools*: the file-based incremental package, the stages of
  a two-step update, the contents of the zip, signing. They are sequences of
  calls that write to a zip or a script; the stages would need recovery's side,
  which is not here.
* *The format of the files written*; imgdiff as opposed to bsdiff. The order of
  diffs with equal sizes in ComputePatches, decided by their data, is fixed in
  PatchWorkers, as nothing checked depends on it.
* *Equal packages from equal images*: the iteration order of sets of objects
  reaches the output. The model leaves every order open, so that what holds of it
  holds of each; that two builds agree does not hold and no run asks it.
* *Make rules, product inheritance, clean steps, target configuration, shell
  functions*: evaluated in one pass by make or a shell; most of it is data.
* *Zip tools, ijar, signapk, acp, atree, fs_config, small scripts*: one pass over
  files or streams, no state that outlives it; vendored, or byte formats.
* *Decoration of the pages*: syntax highlighting, line numbers, sample trees, hero
  images, floating labels, scroll buttons, breadcrumbs set classes and text once.
  The bundles (`android_3p-bundle.js`, jQuery and its plug-ins, prettify) are
  vendored; what the pages need of them is in the modules as external definitions.
  The ClearSilver templates and style sheets are text with holes; DocPanes takes
  two sizes from them.
* *Hazards known and not covered* are listed with an empty `properties` and the
  reason: the order of sets, the zero piece size, resuming, the two-step stages,
  and the toasts that two windows write over each other.

## What would come next

1. *Transfers*: FindTransfers with matching, splitting and cropping, over the
   small images: `SplitAssumption` and `TgtAssumption` become results.
2. *Resume*: crashes and restarts in BlockUpdate, hashes checked as format 3 does,
   refining an abstract update of a partition (old, being updated, new).
3. *Proofs*: the abstract update of item 2, on top of `DevInv`; of the pages, the
   loops of the resource queries and of the previous and next links.
4. *Pages*: an abstract "element with a queue of animations" that DocSlides,
   DocToggles, DocComplete and DocFrame implement.
