--------------------------- MODULE TransferOrderInv ---------------------------
(***************************************************************************)
(* The inductive invariant of TransferOrder, by parts.  The properties of  *)
(* TransferOrder follow from it; BlockUpdateProofs proves that it holds.          *)
(***************************************************************************)
EXTENDS TransferOrder

Placed(seq) == {seq[i] : i \in DOMAIN seq}

Injective(seq) == \A i, j \in DOMAIN seq : seq[i] = seq[j] => i = j

Permutation(seq) ==
    /\ seq \in Seq(Transfers)
    /\ \A t \in Transfers : \E i \in DOMAIN seq : seq[i] = t
    /\ Injective(seq)

(* Both ends of an edge know it, and no transfer waits for itself.         *)
EdgesMirrored ==
    \A x, u \in Transfers : /\ u \in goesBefore[x] <=> x \in goesAfter[u]
                            /\ x \notin goesBefore[x]

(* Each transfer is either still in G or in exactly one place of s1 or s2. *)
PartsDisjoint ==
    /\ pc \in {"digraph", "copy"} => s1 = <<>> /\ s2 = <<>>
    /\ pc \in {"sinks", "sources", "best", "record"} =>
         /\ Placed(s1) \cup Placed(s2) \cup G = Transfers
         /\ Injective(s1) /\ Injective(s2)
         /\ Placed(s1) \cap Placed(s2) = {}
         /\ Placed(s1) \cap G = {} /\ Placed(s2) \cap G = {}
    /\ pc = "record" => G = {}

(* The work sets hold all the bare vertices that are left in the graph and *)
(* no others; vertices that are gone may linger in them.                   *)
WorkSetsExact ==
    /\ pc = "sinks" => /\ (sinks \cup newSinks) \cap G = Bare(outgoing, G)
                       /\ sources \cap G = Bare(incoming, G)
                       /\ newSources = {}
    /\ pc = "sources" => /\ Bare(outgoing, G) = {}
                         /\ (sources \cup newSources) \cap G = Bare(incoming, G)
                         /\ sinks = {} /\ newSinks = {}
    /\ pc = "best" => /\ Bare(outgoing, G) = {} /\ Bare(incoming, G) = {}
                      /\ newSinks = {} /\ newSources = {}
    /\ pc \in {"digraph", "copy"} => newSinks = {} /\ newSources = {}

Sequenced == {"edges", "toposort", "improve", "sequenced"}

(* xf.order is the place of xf in self.transfers.                          *)
OrderIsPlace ==
    pc \in Sequenced =>
        /\ Permutation(transfers)
        /\ \A t \in Transfers : order[t] \in DOMAIN transfers /\ transfers[order[t]] = t

(* A transfer that overwrites what x reads has x in its way, or x gets the *)
(* blocks from stashes.                                                    *)
Covered(x, u) == src[x] \cap Tgt[u] \subseteq Stashed(x)

ReadsCovered ==
    pc # "digraph" =>
        \A x, u \in Transfers : x # u => u \in goesBefore[x] \/ Covered(x, u)

(* The loop over the backward edges has dealt with the first transfers.    *)
EdgesForward ==
    /\ pc = "edges" => idx >= 1
    /\ pc = "edges" /\ version = 1 =>
          \A x, u \in Transfers : order[x] < idx /\ order[u] < order[x] => Covered(x, u)
    /\ pc = "edges" /\ version >= 2 =>
          \A x \in Transfers : order[x] < idx =>
             \A u \in goesBefore[x] : order[x] < order[u]
    /\ pc \in {"toposort", "improve"} =>
          /\ version >= 2
          /\ \A x \in Transfers : \A u \in goesBefore[x] : order[x] < order[u]

(* L is a topological order of a part of the digraph that is closed under  *)
(* predecessors, and S holds exactly the transfers that may come next.     *)
Topological ==
    pc = "improve" =>
        /\ L \in Seq(Transfers) /\ Injective(L)
        /\ outgoing = goesBefore
        /\ \A t \in Transfers : incoming[t] = goesAfter[t] \ Placed(L)
        /\ \A t \in Transfers : t \in S <=> t \notin Placed(L) /\ incoming[t] = {}
        /\ \A i \in DOMAIN L : \A t \in goesAfter[L[i]] :
              \E j \in DOMAIN L : j < i /\ L[j] = t

(* Both ends of a stash know it, and its edge has been turned.             *)
StashesMatched ==
    /\ pc \in {"digraph", "copy", "sinks", "sources", "best", "record"} =>
          \A t \in Transfers : useStash[t] = {} /\ StashesMade(t) = {}
    /\ \A t \in Transfers : \A s \in useStash[t] :
          /\ s.use = t
          /\ s \in StashesMade(s.def)
          /\ pc \in Sequenced => s.def \in goesAfter[t] /\ order[s.def] < order[t]
    /\ \A t \in Transfers : \A s \in StashesMade(t) :
          s.def = t /\ s \in useStash[s.use]

IInv ==
    /\ TypeOK
    /\ pc # "aborted"
    /\ EdgesMirrored
    /\ PartsDisjoint
    /\ ResidualGraph
    /\ WorkSetsExact
    /\ OrderIsPlace
    /\ ReadsCovered
    /\ EdgesForward
    /\ Topological
    /\ StashesMatched
    /\ NoReadAfterWrite

-----------------------------------------------------------------------------
(* What the peeling costs, on top of IInv.                                 *)

Placing == {"sinks", "sources", "best", "record"}

(* An edge is there because its source reads what its target writes; once  *)
(* the loop over the sequence trims and turns edges, this is still true of *)
(* the backward edges that it has yet to reach.                            *)
EdgesOverlap ==
    /\ pc \in {"copy"} \cup Placing =>
         \A x \in Transfers : \A u \in goesBefore[x] : src[x] \cap Tgt[u] # {}
    /\ pc = "edges" =>
         \A x \in Transfers : idx <= order[x] =>
            \A u \in goesBefore[x] : order[x] < order[u] \/ src[x] \cap Tgt[u] # {}

(* An acyclic digraph always has a sink left, so nothing is guessed: what  *)
(* is in s1 comes after all its predecessors, and what is in s2 before all *)
(* its successors.                                                         *)
PeeledInOrder ==
    pc \in Placing /\ Acyclic(goesBefore) =>
        /\ pc # "best"
        /\ \A i \in DOMAIN s1 : \A t \in goesAfter[s1[i]] :
              \E j \in DOMAIN s1 : j < i /\ s1[j] = t
        /\ \A i \in DOMAIN s2 : \A t \in goesBefore[s2[i]] :
              \E j \in DOMAIN s2 : i < j /\ s2[j] = t

PeelInv ==
    /\ ScoreExact
    /\ EdgesOverlap
    /\ PeeledInOrder
    /\ AcyclicIsFree
=============================================================================
