----------------------------- MODULE TransferOrder -----------------------------
(***************************************************************************)
(* The ordering half of BlockImageDiff.Compute (blockimgdiff.py): from the *)
(* transfers that FindTransfers produced to the sequence in which the      *)
(* device will execute them, with the stashes that sequence needs.         *)
(*                                                                         *)
(*   GenerateDigraph          who must go before whom                      *)
(*   FindVertexSequence       Eades-Lin-Smyth feedback arc set heuristic   *)
(*   RemoveBackwardEdges      format version 1: give up on source blocks   *)
(*   ReverseBackwardEdges     versions 2..4: stash the blocks instead      *)
(*   ImproveVertexSequence    versions 2..4: greedy topological sort       *)
(*                                                                         *)
(* A RangeSet is the set of the blocks it holds (RangeLib.tla justifies    *)
(* that).  Iteration over a Python set of Transfer objects, whose order    *)
(* is that of their hash values, is a nondeterministic choice.             *)
(***************************************************************************)
EXTENDS Integers, Sequences, FiniteSets, FiniteSetsExt

CONSTANTS
    Transfers,   \* the Transfer objects made by FindTransfers
    Blocks,      \* block numbers of the two images
    Tgt,         \* Tgt[t] = t.tgt_ranges
    SrcChoices,  \* SrcChoices[t]: the src_ranges FindTransfers may give t
    ZeroDomain,  \* the transfer of the "__ZERO" domain, at most one
    Versions     \* format versions of the transfer list to be looked at

ASSUME TransfersAssumption == IsFiniteSet(Transfers)

(* The images are of finite size.                                          *)
ASSUME BlocksAssumption == IsFiniteSet(Blocks)

(* The file map partitions the care map (AssertPartition), so every        *)
(* transfer writes some block and no block is written twice.               *)
ASSUME TgtAssumption ==
    /\ Tgt \in [Transfers -> SUBSET Blocks]
    /\ \A t \in Transfers : Tgt[t] # {}
    /\ \A t, u \in Transfers : t # u => Tgt[t] \cap Tgt[u] = {}

ASSUME SrcAssumption == SrcChoices \in [Transfers -> SUBSET SUBSET Blocks]

ASSUME ZeroAssumption ==
    ZeroDomain \subseteq Transfers /\ Cardinality(ZeroDomain) <= 1

ASSUME VersionAssumption == Versions \subseteq 1..4

VARIABLES
    version,      \* self.version
    pc,           \* which method of Compute runs
    transfers,    \* self.transfers, from FindVertexSequence on
    idx,          \* position of the loop "for xf in self.transfers"
    order,        \* xf.order
    src, style,   \* xf.src_ranges, xf.style
    goesBefore, goesAfter,          \* keys of xf.goes_before, xf.goes_after
    incoming, outgoing, score,      \* the copies FindVertexSequence destroys
    G, s1, s2,                      \* unplaced vertices, left and right part
    sinks, newSinks, sources, newSources,
    stashBefore,  \* xf.stash_before, a sequence of stashes
    useStash,     \* xf.use_stash, a set of stashes
    L, S          \* ImproveVertexSequence: new order, ready vertices

graphVars == <<goesBefore, goesAfter>>
seqVars   == <<incoming, outgoing, score, G, s1, s2,
               sinks, newSinks, sources, newSources>>
stashVars == <<stashBefore, useStash>>
listVars  == <<transfers, order>>
inputVars == <<version, src, style>>
topoVars  == <<L, S>>
vars == <<pc, idx, listVars, inputVars, graphVars, seqVars, stashVars, topoVars>>

-----------------------------------------------------------------------------

InitialStyle(t, s) ==
    IF t \in ZeroDomain THEN "zero" ELSE IF s = {} THEN "new" ELSE "diff"

(* Weight of the edge b -> a: the blocks b loses if it goes after a.       *)
Weight(b, a) == IF b \in ZeroDomain THEN 0 ELSE Cardinality(src[b] \cap Tgt[a])

WeightOut(b, As) == MapThenSumSet(LAMBDA a : Weight(b, a), As)
WeightIn(a, Bs)  == MapThenSumSet(LAMBDA b : Weight(b, a), Bs)

(* A stash: made before def runs, consumed by use.  The running number the *)
(* code gives it only serves to tell stashes apart, which <<def, use>>     *)
(* does: an edge is reversed at most once.  Slips: the overlap is taken of *)
(* d's own source; the ends are swapped.                                   *)
StashOfOwn(d, u)   == [def |-> d, use |-> u, blocks |-> src[d] \cap Tgt[d]]
StashSwapped(d, u) == [def |-> u, use |-> d, blocks |-> src[u] \cap Tgt[d]]
Stash(d, u) == [def |-> d, use |-> u, blocks |-> src[u] \cap Tgt[d]]

Stashed(t) == UNION {s.blocks : s \in useStash[t]}

Position(seq, t) == CHOOSE i \in DOMAIN seq : seq[i] = t

-----------------------------------------------------------------------------

Init ==
    /\ version \in Versions
    /\ src \in {f \in [Transfers -> UNION {SrcChoices[t] : t \in Transfers}] :
                  \A t \in Transfers : f[t] \in SrcChoices[t]}
    /\ style = [t \in Transfers |-> InitialStyle(t, src[t])]
    /\ pc = "digraph"
    /\ idx = 1
    /\ transfers = <<>>
    /\ order = [t \in Transfers |-> 0]
    /\ goesBefore = [t \in Transfers |-> {}]
    /\ goesAfter = [t \in Transfers |-> {}]
    /\ incoming = [t \in Transfers |-> {}]
    /\ outgoing = [t \in Transfers |-> {}]
    /\ score = [t \in Transfers |-> 0]
    /\ G = {} /\ s1 = <<>> /\ s2 = <<>>
    /\ sinks = {} /\ newSinks = {} /\ sources = {} /\ newSources = {}
    /\ stashBefore = [t \in Transfers |-> <<>>]
    /\ useStash = [t \in Transfers |-> {}]
    /\ L = <<>> /\ S = {}

(* If the blocks written by A are read by B, then B goes before A.         *)
GenerateDigraph ==
    /\ pc = "digraph"
    /\ goesBefore' = [b \in Transfers |->
                        {a \in Transfers \ {b} : Tgt[a] \cap src[b] # {}}]
    /\ goesAfter' = [a \in Transfers |->
                        {b \in Transfers \ {a} : Tgt[a] \cap src[b] # {}}]
    /\ pc' = "copy"
    /\ UNCHANGED <<idx, listVars, inputVars, seqVars, stashVars, topoVars>>

(* Drop u from the outgoing (incoming) edges of the vertices in T.        *)
DropEdges(edges, T, u) ==
    [t \in Transfers |-> IF t \in T THEN edges[t] \ {u} ELSE edges[t]]

(* The vertices of T that have no such edge left.                         *)
Bare(edges, T) == {t \in T : edges[t] = {}}

(* adjust_score for the predecessors of u, and for its successors.  A slip:*)
(* the sign of the one taken for that of the other.                        *)
GainOut(scores, T, u) ==
    [t \in Transfers |-> IF t \in T THEN scores[t] + Weight(t, u) ELSE scores[t]]
LoseOut(scores, T, u) ==
    [t \in Transfers |-> IF t \in T THEN scores[t] - Weight(t, u) ELSE scores[t]]
LoseIn(scores, T, u) ==
    [t \in Transfers |-> IF t \in T THEN scores[t] + Weight(u, t) ELSE scores[t]]

(* FindVertexSequence, up to the main loop.                                *)
CopyEdges ==
    /\ pc = "copy"
    /\ incoming' = goesAfter
    /\ outgoing' = goesBefore
    /\ score' = [t \in Transfers |-> WeightOut(t, goesBefore[t])
                                       - WeightIn(t, goesAfter[t])]
    /\ G' = Transfers
    /\ sinks' = Bare(goesBefore, Transfers)
    /\ sources' = Bare(goesAfter, Transfers)
    /\ pc' = "sinks"
    /\ UNCHANGED <<idx, listVars, inputVars, graphVars, s1, s2, newSinks,
                   newSources, stashVars, topoVars>>

(* "for u in sinks": u goes to the left end of s2.                         *)
TakeSink ==
    /\ pc = "sinks"
    /\ \E u \in sinks :
         /\ sinks' = sinks \ {u}
         /\ \/ /\ u \notin G
               /\ UNCHANGED <<G, s2, outgoing, score, newSinks>>
            \/ /\ u \in G
               /\ s2' = <<u>> \o s2
               /\ G' = G \ {u}
               /\ outgoing' = DropEdges(outgoing, incoming[u], u)
               /\ score' = LoseOut(score, incoming[u], u)
               /\ newSinks' = newSinks \cup Bare(outgoing', incoming[u])
    /\ UNCHANGED <<pc, idx, listVars, inputVars, graphVars, incoming, s1,
                   sources, newSources, stashVars, topoVars>>

(* A slip: new_sinks is not emptied for the next round.                    *)
NextSinksKept ==
    /\ pc = "sinks"
    /\ sinks = {}
    /\ sinks' = newSinks
    /\ pc' = IF newSinks = {} THEN "sources" ELSE "sinks"
    /\ UNCHANGED <<idx, listVars, inputVars, graphVars, incoming, outgoing, score,
                   G, s1, s2, newSinks, sources, newSources, stashVars, topoVars>>

(* The inner "while sinks" turns to the new sinks, or ends.                *)
NextSinks ==
    /\ pc = "sinks"
    /\ sinks = {}
    /\ sinks' = newSinks
    /\ newSinks' = {}
    /\ pc' = IF newSinks = {} THEN "sources" ELSE "sinks"
    /\ UNCHANGED <<idx, listVars, inputVars, graphVars, incoming, outgoing, score,
                   G, s1, s2, sources, newSources, stashVars, topoVars>>

(* "for u in sources": u goes to the right end of s1.                      *)
TakeSource ==
    /\ pc = "sources"
    /\ \E u \in sources :
         /\ sources' = sources \ {u}
         /\ \/ /\ u \notin G
               /\ UNCHANGED <<G, s1, incoming, score, newSources>>
            \/ /\ u \in G
               /\ s1' = Append(s1, u)
               /\ G' = G \ {u}
               /\ incoming' = DropEdges(incoming, outgoing[u], u)
               /\ score' = LoseIn(score, outgoing[u], u)
               /\ newSources' = newSources \cup Bare(incoming', outgoing[u])
    /\ UNCHANGED <<pc, idx, listVars, inputVars, graphVars, outgoing, s2,
                   sinks, newSinks, stashVars, topoVars>>

NextSources ==
    /\ pc = "sources"
    /\ sources = {}
    /\ sources' = newSources
    /\ newSources' = {}
    /\ pc' = IF newSources # {} THEN "sources" ELSE IF G = {} THEN "record" ELSE "best"
    /\ UNCHANGED <<idx, listVars, inputVars, graphVars, incoming, outgoing, score,
                   G, s1, s2, sinks, newSinks, stashVars, topoVars>>

(* The heap pop: of the vertices still in G, one whose score is greatest.  *)
(* Items whose score is out of date were cleared and are passed over.      *)
TakeBest ==
    /\ pc = "best"
    /\ \E u \in G :
         /\ \A v \in G : score[u] >= score[v]
         /\ s1' = Append(s1, u)
         /\ G' = G \ {u}
         /\ incoming' = DropEdges(incoming, outgoing[u], u)
         /\ outgoing' = DropEdges(outgoing, incoming[u], u)
         /\ score' = LoseOut(LoseIn(score, outgoing[u], u), incoming[u], u)
         /\ sources' = Bare(incoming', outgoing[u])
         /\ sinks' = Bare(outgoing', incoming[u])
    /\ pc' = "sinks"
    /\ UNCHANGED <<idx, listVars, inputVars, graphVars, s2, newSinks,
                   newSources, stashVars, topoVars>>

(* The sequence becomes self.transfers, and each transfer learns its place.*)
Sequence == s1 \o s2

RecordOrder ==
    /\ pc = "record"
    /\ transfers' = Sequence
    /\ order' = [t \in Transfers |-> Position(Sequence, t)]
    /\ idx' = 1
    /\ pc' = "edges"
    /\ UNCHANGED <<inputVars, graphVars, seqVars, stashVars, topoVars>>

-----------------------------------------------------------------------------

(* The transfers xf was to go before, but does not.                       *)
Violated(xf) == {u \in goesBefore[xf] : ~(order[xf] < order[u])}

(* One round of the loop of RemoveBackwardEdges.                           *)
RemoveBackwardEdges ==
    /\ pc = "edges"
    /\ version = 1
    /\ idx \in DOMAIN transfers
    /\ LET xf   == transfers[idx]
           kept == src[xf] \ UNION {Tgt[u] : u \in Violated(xf)}
       IN  /\ src' = [src EXCEPT ![xf] = kept]
           /\ style' = [style EXCEPT ![xf] =
                          IF @ = "diff" /\ kept = {} THEN "new" ELSE @]
    /\ idx' = idx + 1
    /\ UNCHANGED <<version, pc, listVars, graphVars, seqVars, stashVars, topoVars>>

(* The edges xf -> u, for u in B, become u -> xf.                          *)
MoveEdges(before, xf, B) ==
    [u \in Transfers |-> IF u = xf THEN before[u] \ B
                         ELSE IF u \in B THEN before[u] \cup {xf} ELSE before[u]]
MoveEdgesHalf(after, xf, B) ==   \* a slip: "del u.goes_after[xf]" forgotten
    [u \in Transfers |-> IF u = xf THEN after[u] \cup B ELSE after[u]]
MoveEdgesBack(after, xf, B) ==
    [u \in Transfers |-> IF u = xf THEN after[u] \cup B
                         ELSE IF u \in B THEN after[u] \ {xf} ELSE after[u]]

(* One round of the loop of ReverseBackwardEdges: each violated successor  *)
(* u stashes what it is about to overwrite, and the edge turns round.      *)
ReverseBackwardEdges ==
    /\ pc = "edges"
    /\ version >= 2
    /\ idx \in DOMAIN transfers
    /\ LET xf == transfers[idx]
           B  == Violated(xf)
       IN  /\ stashBefore' = [u \in Transfers |->
                IF u \in B THEN Append(stashBefore[u], Stash(u, xf))
                           ELSE stashBefore[u]]
           /\ useStash' = [useStash EXCEPT ![xf] = @ \cup {Stash(u, xf) : u \in B}]
           /\ goesBefore' = MoveEdges(goesBefore, xf, B)
           /\ goesAfter' = MoveEdgesBack(goesAfter, xf, B)
    /\ idx' = idx + 1
    /\ UNCHANGED <<pc, listVars, inputVars, seqVars, topoVars>>

(* The loop ends; version 1 keeps the order it has.                        *)
EdgesDone ==
    /\ pc = "edges"
    /\ idx \notin DOMAIN transfers
    /\ pc' = IF version = 1 THEN "sequenced" ELSE "toposort"
    /\ UNCHANGED <<idx, listVars, inputVars, graphVars, seqVars, stashVars, topoVars>>

-----------------------------------------------------------------------------

SizeOf(stashes) == MapThenSumSet(LAMBDA s : Cardinality(s.blocks), stashes)

StashesMade(t) == {stashBefore[t][i] : i \in DOMAIN stashBefore[t]}

NetStashChange(t) == SizeOf(StashesMade(t)) - SizeOf(useStash[t])

(* ImproveVertexSequence, up to its loop.                                  *)
StartImprove ==
    /\ pc = "toposort"
    /\ incoming' = goesAfter
    /\ outgoing' = goesBefore
    /\ L' = <<>>
    /\ S' = Bare(goesAfter, Transfers)
    /\ pc' = "improve"
    /\ UNCHANGED <<idx, listVars, inputVars, graphVars, score, G, s1, s2, sinks,
                   newSinks, sources, newSources, stashVars>>

(* The ready vertex that leaves the least stashed, the old order breaking  *)
(* ties; its successors that have become sources join S.                   *)
PlaceNext ==
    /\ pc = "improve"
    /\ \E xf \in S :
         /\ \A u \in S \ {xf} :
              \/ NetStashChange(xf) < NetStashChange(u)
              \/ NetStashChange(xf) = NetStashChange(u) /\ order[xf] < order[u]
         /\ L' = Append(L, xf)
         /\ incoming' = DropEdges(incoming, outgoing[xf], xf)
         /\ S' = (S \ {xf}) \cup Bare(incoming', outgoing[xf])
    /\ UNCHANGED <<pc, idx, listVars, inputVars, graphVars, outgoing, score, G,
                   s1, s2, sinks, newSinks, sources, newSources, stashVars>>

(* "if this fails then our graph had a cycle": the assertion aborts.       *)
FinishImprove ==
    /\ pc = "improve"
    /\ S = {}
    /\ \/ /\ Len(L) = Len(transfers)
          /\ transfers' = L
          /\ order' = [t \in Transfers |-> Position(L, t)]
          /\ pc' = "sequenced"
       \/ /\ Len(L) # Len(transfers)
          /\ pc' = "aborted"
          /\ UNCHANGED listVars
    /\ UNCHANGED <<idx, inputVars, graphVars, seqVars, stashVars, topoVars>>

OrderStep ==
    \/ GenerateDigraph \/ CopyEdges
    \/ TakeSink \/ NextSinks \/ TakeSource \/ NextSources \/ TakeBest
    \/ RecordOrder
    \/ RemoveBackwardEdges \/ ReverseBackwardEdges \/ EdgesDone
    \/ StartImprove \/ PlaceNext \/ FinishImprove

(* Compute has returned, or an assertion has ended the program.            *)
Returned == pc \in {"sequenced", "aborted"} /\ UNCHANGED vars

Next == OrderStep \/ Returned

(* One thread runs the methods one after the other: it is never starved.   *)
Spec == Init /\ [][Next]_vars /\ WF_vars(OrderStep)

-----------------------------------------------------------------------------

Stashes == [def : Transfers, use : Transfers, blocks : SUBSET Blocks]
Phases == {"digraph", "copy", "sinks", "sources", "best", "record", "edges",
           "toposort", "improve", "sequenced", "aborted"}

(* Every variable holds what the attribute it stands for may hold.         *)
TypeOK ==
    /\ version \in Versions
    /\ pc \in Phases
    /\ idx \in Nat
    /\ transfers \in Seq(Transfers)
    /\ order \in [Transfers -> Nat]
    /\ src \in [Transfers -> SUBSET Blocks]
    /\ style \in [Transfers -> {"new", "zero", "diff"}]
    /\ goesBefore \in [Transfers -> SUBSET Transfers]
    /\ goesAfter \in [Transfers -> SUBSET Transfers]
    /\ incoming \in [Transfers -> SUBSET Transfers]
    /\ outgoing \in [Transfers -> SUBSET Transfers]
    /\ DOMAIN score = Transfers
    /\ G \subseteq Transfers
    /\ s1 \in Seq(Transfers) /\ s2 \in Seq(Transfers)
    /\ sinks \subseteq Transfers /\ newSinks \subseteq Transfers
    /\ sources \subseteq Transfers /\ newSources \subseteq Transfers
    /\ stashBefore \in [Transfers -> Seq(Stashes)]
    /\ useStash \in [Transfers -> SUBSET Stashes]
    /\ L \in Seq(Transfers) /\ S \subseteq Transfers

(* What AssertSequenceGood simulates: no block is read, other than from a  *)
(* stash, after an earlier transfer wrote it, and every target block is    *)
(* written exactly once.                                                   *)
SequenceGood ==
    /\ \A i, j \in DOMAIN transfers : i < j =>
          Tgt[transfers[i]] \cap (src[transfers[j]] \ Stashed(transfers[j])) = {}
    /\ \A t \in Transfers : \E i \in DOMAIN transfers : transfers[i] = t
    /\ \A i, j \in DOMAIN transfers : transfers[i] = transfers[j] => i = j

(* The sequence and the stashes that come out pass AssertSequenceGood,     *)
(* whatever the hash order, the tie-breaking and the shape of the digraph. *)
NoReadAfterWrite == pc = "sequenced" => SequenceGood

(* The digraph is acyclic when ImproveVertexSequence sorts it: its         *)
(* assertion that every transfer was placed never fails.                   *)
NeverAborted == pc # "aborted"

(* An edge that is trimmed or reversed is one because of blocks still in   *)
(* the source: the assertions of both loops hold, although earlier rounds  *)
(* have trimmed sources and put reversed edges among the ones looked at.   *)
ViolatedOverlaps ==
    pc = "edges" /\ idx \in DOMAIN transfers =>
        \A u \in Violated(transfers[idx]) : src[transfers[idx]] \cap Tgt[u] # {}

(* A block is stashed by a transfer that comes before the one that takes   *)
(* it out, and every stash that is made is taken out: no stash is used     *)
(* before it exists and none is left over, also after the improved order   *)
(* has moved both of its ends.                                             *)
StashesPaired ==
    pc = "sequenced" =>
      /\ \A t \in Transfers : \A s \in useStash[t] :
            /\ s.use = t
            /\ s \in StashesMade(s.def)
            /\ order[s.def] < order[t]
      /\ \A t \in Transfers : \A s \in StashesMade(t) :
            s.def = t /\ s \in useStash[s.use]

Peeling == pc \in {"sinks", "sources", "best"}

(* While vertices are peeled off, the copies describe the digraph that is  *)
(* left: each pop(u) of an edge finds its key, and the lists of the other  *)
(* end have forgotten the vertices that are gone.                          *)
ResidualGraph ==
    Peeling => \A v \in G : /\ incoming[v] = goesAfter[v] \cap G
                            /\ outgoing[v] = goesBefore[v] \cap G

(* adjust_score keeps the score of every vertex left equal to what it      *)
(* would be if computed from scratch, so that the heap serves the best.    *)
ScoreExact ==
    Peeling => \A v \in G :
        score[v] = WeightOut(v, goesBefore[v] \cap G) - WeightIn(v, goesAfter[v] \cap G)

(* The heuristic never pretends a vertex is a source while there is a real *)
(* source or sink: the work sets miss none that the removals uncover.      *)
BestIsLastResort ==
    pc = "best" => \A v \in G : incoming[v] # {} /\ outgoing[v] # {}

Acyclic(succ) ==
    \A W \in SUBSET Transfers \ {{}} : \E t \in W : succ[t] \cap W = {}

(* Only a dependency cycle costs anything: when the digraph has none, the  *)
(* sequence violates no edge, so nothing is stashed or given up.           *)
AcyclicIsFree ==
    pc = "edges" /\ idx = 1 /\ Acyclic(goesBefore) =>
        \A t \in Transfers : Violated(t) = {}

(* The peeling is exact at every step, although its copies, scores and     *)
(* work sets are kept up to date piece by piece: they are those of the     *)
(* digraph that is left, a vertex is only guessed when there is no other,  *)
(* the sequence of an acyclic digraph costs nothing, and what the loops    *)
(* over the backward edges assert holds.                                   *)
PeelingExact ==
    ResidualGraph /\ ScoreExact /\ BestIsLastResort /\ AcyclicIsFree /\ ViolatedOverlaps
=============================================================================
