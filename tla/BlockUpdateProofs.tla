------------------------ MODULE BlockUpdateProofs ---------------------------
(***************************************************************************)
(* The update, for every set of transfers, every choice of their sources,  *)
(* all contents of the images, every cache, every format and every choice  *)
(* of moves.                                                               *)
(*                                                                         *)
(* First the plan.  The sequence has every transfer once, no command reads *)
(* what an earlier one wrote, and the vertices are peeled off exactly as   *)
(* the digraph says; a revised plan fits the cache and stays consistent,   *)
(* and one that fits is left alone.                                        *)
(*                                                                         *)
(* Then, from "The folds over the stashes" on, the writer of the transfer  *)
(* list: it never aborts, numbers its stashes and counts the blocks and    *)
(* the shared files of them exactly, stays within the cache and erases     *)
(* nothing that is read.                                                   *)
(*                                                                         *)
(* Last, from "The order of the blocks of a range set" on, the list        *)
(* executed: it can be executed to its end and turns the source image into *)
(* the target image, within the space it announces.  While the list is     *)
(* written nothing is executed.  So the invariant says of what is written  *)
(* so far that it can be run, with the updater as a function of its state  *)
(* (After), and what that comes to; when the list is executed the updater  *)
(* is at the corresponding point of that run.                              *)
(***************************************************************************)
EXTENDS BlockUpdate, TransferOrderInv, DataProofs

-----------------------------------------------------------------------------
(* Sequences of transfers.                                                 *)

(* Appending a transfer that is not there yet.                             *)
LEMMA AppendPlaces ==
    ASSUME NEW s \in Seq(Transfers), NEW u \in Transfers, u \notin Placed(s), Injective(s)
    PROVE  /\ Append(s, u) \in Seq(Transfers)
           /\ Placed(Append(s, u)) = Placed(s) \cup {u}
           /\ Injective(Append(s, u))
<1> DEFINE r == Append(s, u)
<1>1. /\ r \in Seq(Transfers) /\ Len(r) = Len(s) + 1
      /\ r[Len(s) + 1] = u
      /\ \A i \in 1..Len(s) : r[i] = s[i]
      /\ DOMAIN r = 1..(Len(s) + 1) /\ DOMAIN s = 1..Len(s) /\ Len(s) \in Nat
  OBVIOUS
<1> HIDE DEF r
<1>2. Placed(r) = Placed(s) \cup {u}
  BY <1>1 DEF Placed
<1>3. Injective(r)
  BY <1>1 DEF Injective, Placed
<1> QED
  BY <1>1, <1>2, <1>3 DEF r

(* The same at the left end.                                               *)
LEMMA PrependPlaces ==
    ASSUME NEW s \in Seq(Transfers), NEW u \in Transfers, u \notin Placed(s), Injective(s)
    PROVE  /\ <<u>> \o s \in Seq(Transfers)
           /\ Placed(<<u>> \o s) = Placed(s) \cup {u}
           /\ Injective(<<u>> \o s)
<1> DEFINE r == <<u>> \o s
<1>1. /\ r \in Seq(Transfers) /\ Len(r) = Len(s) + 1
      /\ r[1] = u
      /\ \A i \in 2..(Len(s) + 1) : r[i] = s[i - 1]
      /\ DOMAIN r = 1..(Len(s) + 1) /\ DOMAIN s = 1..Len(s) /\ Len(s) \in Nat
  OBVIOUS
<1> HIDE DEF r
<1>2. \A i \in DOMAIN s : i + 1 \in DOMAIN r /\ r[i + 1] = s[i]
  BY <1>1
<1>3. Placed(r) = Placed(s) \cup {u}
  BY <1>1, <1>2 DEF Placed
<1>4. \A i \in DOMAIN r : i # 1 => i - 1 \in DOMAIN s /\ r[i] = s[i - 1] /\ r[i] # u
  <2>1. \A i \in DOMAIN r : i # 1 => i - 1 \in DOMAIN s /\ r[i] = s[i - 1]
    BY <1>1
  <2> QED
    BY <2>1 DEF Placed
<1>5. Injective(r)
  <2>1. ASSUME NEW i \in DOMAIN r, NEW j \in DOMAIN r, r[i] = r[j], i # 1, j # 1
        PROVE  i = j
    <3>1. i - 1 = j - 1
      BY <1>4, <2>1 DEF Injective
    <3> QED
      BY <1>1, <3>1
  <2> QED
    BY <1>1, <1>4, <2>1 DEF Injective
<1> QED
  BY <1>1, <1>3, <1>5 DEF r

(* Two sequences without a common element, end to end.                     *)
LEMMA ConcatPermutes ==
    ASSUME NEW p \in Seq(Transfers), NEW q \in Seq(Transfers),
           Injective(p), Injective(q), Placed(p) \cap Placed(q) = {},
           Placed(p) \cup Placed(q) = Transfers
    PROVE  Permutation(p \o q)
<1> DEFINE r == p \o q
<1>1. /\ r \in Seq(Transfers)
      /\ \A i \in 1..Len(p) : r[i] = p[i]
      /\ \A i \in (Len(p) + 1)..(Len(p) + Len(q)) : r[i] = q[i - Len(p)]
      /\ DOMAIN r = 1..(Len(p) + Len(q)) /\ Len(p) \in Nat /\ Len(q) \in Nat
      /\ DOMAIN p = 1..Len(p) /\ DOMAIN q = 1..Len(q)
  OBVIOUS
<1> HIDE DEF r
<1>2. \A i \in DOMAIN q : i + Len(p) \in DOMAIN r /\ r[i + Len(p)] = q[i]
  BY <1>1
<1>3. \A t \in Transfers : \E i \in DOMAIN r : r[i] = t
  BY <1>1, <1>2 DEF Placed
<1>4. ASSUME NEW i \in DOMAIN r, NEW j \in DOMAIN r, r[i] = r[j], i \in 1..Len(p)
      PROVE  i = j
  <2>1. r[i] = p[i] /\ p[i] \in Placed(p)
    BY <1>1, <1>4 DEF Placed
  <2>2. CASE j \in 1..Len(p)
    BY <1>1, <1>4, <2>1, <2>2 DEF Injective
  <2>3. CASE j \notin 1..Len(p)
    <3>1. j - Len(p) \in DOMAIN q /\ r[j] = q[j - Len(p)]
      BY <1>1, <2>3
    <3>2. r[j] \in Placed(q)
      BY <3>1 DEF Placed
    <3> QED
      BY <1>4, <2>1, <3>2
  <2> QED
    BY <2>2, <2>3
<1>5. ASSUME NEW i \in DOMAIN r, NEW j \in DOMAIN r, r[i] = r[j],
             i \notin 1..Len(p), j \notin 1..Len(p)
      PROVE  i = j
  <2>1. i - Len(p) \in DOMAIN q /\ j - Len(p) \in DOMAIN q
        /\ r[i] = q[i - Len(p)] /\ r[j] = q[j - Len(p)]
    BY <1>1, <1>5
  <2>2. i - Len(p) = j - Len(p)
    BY <1>5, <2>1 DEF Injective
  <2> QED
    BY <1>1, <2>2
<1>6. Injective(r)
  BY <1>4, <1>5 DEF Injective
<1> QED
  BY <1>1, <1>3, <1>6 DEF r, Permutation

(* The place of a transfer in a sequence that holds them all.              *)
LEMMA PositionIsPlace ==
    ASSUME NEW q, Permutation(q), NEW t \in Transfers
    PROVE  Position(q, t) \in DOMAIN q /\ q[Position(q, t)] = t
<1>1. \E i \in DOMAIN q : q[i] = t
  BY DEF Permutation
<1> QED
  BY <1>1 DEF Position

(* Two permutations of the transfers have the same length.                 *)
LEMMA PermutationsAlike ==
    ASSUME NEW p, NEW q, Permutation(p), Permutation(q)
    PROVE  Len(p) = Len(q)
<1>1. ASSUME NEW r, Permutation(r)
      PROVE  Len(r) \in Nat /\ Cardinality(Transfers) = Len(r)
  <2>1. r \in [1..Len(r) -> Transfers] /\ Len(r) \in Nat /\ DOMAIN r = 1..Len(r)
    BY <1>1 DEF Permutation
  <2>2. r \in Bijection(1..Len(r), Transfers)
    BY <1>1, <2>1 DEF Permutation, Injective, Bijection, Injection, Surjection, IsInjective
  <2> QED
    BY <2>1, <2>2, FS_CountingElements DEF ExistsBijection
<1> QED
  BY <1>1

-----------------------------------------------------------------------------
(* The invariant holds initially and every step keeps it: one lemma per    *)
(* action, one step per part of the invariant that the action can disturb. *)

(* Before anything is done the parts hold: nothing is placed or recorded.  *)
LEMMA InitIInv == Init => IInv
<1> SUFFICES ASSUME Init PROVE IInv
  OBVIOUS
<1>1. src \in [Transfers -> SUBSET Blocks]
  BY SrcAssumption DEF Init
<1>2. TypeOK
  BY <1>1 DEF Init, TypeOK, Phases, InitialStyle
<1>3. PartsDisjoint /\ WorkSetsExact /\ ResidualGraph
  BY DEF Init, PartsDisjoint, WorkSetsExact, ResidualGraph, Peeling
<1>4. EdgesMirrored /\ OrderIsPlace /\ ReadsCovered /\ EdgesForward /\ Topological
  BY DEF Init, EdgesMirrored, OrderIsPlace, Sequenced, ReadsCovered, EdgesForward, Topological
<1>5. StashesMatched /\ NoReadAfterWrite
  BY DEF Init, StashesMatched, StashesMade, NoReadAfterWrite
<1> QED
  BY <1>2, <1>3, <1>4, <1>5 DEF IInv, Init

(* Drawing the edges makes them meet their definition, and mirrored.       *)
LEMMA GenerateDigraphStep == IInv /\ GenerateDigraph => IInv'
<1> SUFFICES ASSUME IInv, GenerateDigraph PROVE IInv'
  OBVIOUS
<1> USE DEF IInv, GenerateDigraph
<1>1. TypeOK'
  BY DEF TypeOK, Phases, seqVars, listVars, inputVars, stashVars, topoVars
<1>2. EdgesMirrored'
  BY DEF EdgesMirrored
<1>3. ReadsCovered'
  BY DEF ReadsCovered, Covered, TypeOK, inputVars
<1>4. StashesMatched'
  BY DEF StashesMatched, Sequenced, StashesMade, stashVars, listVars
<1>5. PartsDisjoint' /\ WorkSetsExact' /\ ResidualGraph'
  BY DEF PartsDisjoint, WorkSetsExact, ResidualGraph, Peeling, seqVars
<1>6. OrderIsPlace' /\ EdgesForward' /\ Topological' /\ NoReadAfterWrite'
  BY DEF OrderIsPlace, Sequenced, EdgesForward, Topological, NoReadAfterWrite
<1> QED
  BY <1>1, <1>2, <1>3, <1>4, <1>5, <1>6

(* The copies the loop peels start as the edges themselves.                *)
LEMMA CopyEdgesStep == IInv /\ CopyEdges => IInv'
<1> SUFFICES ASSUME IInv, CopyEdges PROVE IInv'
  OBVIOUS
<1> USE DEF IInv, CopyEdges
<1>1. TypeOK'
  BY DEF TypeOK, Phases, Bare, listVars, inputVars, graphVars, stashVars, topoVars
<1>2. EdgesMirrored' /\ ReadsCovered'
  BY DEF EdgesMirrored, ReadsCovered, Covered, Stashed, graphVars, inputVars, stashVars
<1>3. PartsDisjoint'
  BY DEF PartsDisjoint, Placed, Injective
<1>4. ResidualGraph'
  BY DEF ResidualGraph, Peeling, TypeOK, graphVars
<1>5. WorkSetsExact'
  BY DEF WorkSetsExact, Bare
<1>6. StashesMatched'
  BY DEF StashesMatched, Sequenced, StashesMade, stashVars, listVars
<1>7. OrderIsPlace' /\ EdgesForward' /\ Topological' /\ NoReadAfterWrite'
  BY DEF OrderIsPlace, Sequenced, EdgesForward, Topological, NoReadAfterWrite
<1> QED
  BY <1>1, <1>2, <1>3, <1>4, <1>5, <1>6, <1>7

(* A sink is placed at the front of s2, and its edges are dropped.         *)
LEMMA TakeSinkStep == IInv /\ TakeSink => IInv'
<1> SUFFICES ASSUME IInv, TakeSink PROVE IInv'
  OBVIOUS
<1> USE DEF IInv
<1>0. pc = "sinks" /\ UNCHANGED <<pc, idx, listVars, inputVars, graphVars, incoming, s1,
                                  sources, newSources, stashVars, topoVars>>
  BY DEF TakeSink
<1>1. EdgesMirrored' /\ ReadsCovered' /\ StashesMatched'
  BY <1>0 DEF EdgesMirrored, ReadsCovered, Covered, Stashed, StashesMatched, StashesMade,
              Sequenced, graphVars, inputVars, stashVars, listVars
<1>2. OrderIsPlace' /\ EdgesForward' /\ Topological' /\ NoReadAfterWrite'
  BY <1>0 DEF OrderIsPlace, Sequenced, EdgesForward, Topological, NoReadAfterWrite
<1>3. PICK u \in sinks :
        /\ sinks' = sinks \ {u}
        /\ \/ u \notin G /\ UNCHANGED <<G, s2, outgoing, score, newSinks>>
           \/ /\ u \in G
              /\ s2' = <<u>> \o s2
              /\ G' = G \ {u}
              /\ outgoing' = DropEdges(outgoing, incoming[u], u)
              /\ score' = LoseOut(score, incoming[u], u)
              /\ newSinks' = newSinks \cup Bare(outgoing', incoming[u])
  BY DEF TakeSink
<1>4. CASE u \notin G
  <2>0. sinks' = sinks \ {u} /\ UNCHANGED <<G, s2, outgoing, score, newSinks>>
    BY <1>3, <1>4
  <2>1. TypeOK'
    BY <1>0, <2>0 DEF TypeOK, listVars, inputVars, graphVars, stashVars, topoVars
  <2>3. PartsDisjoint' /\ ResidualGraph'
    BY <1>0, <2>0 DEF PartsDisjoint, ResidualGraph, Peeling, graphVars
  <2>2. WorkSetsExact'
    BY <1>0, <2>0, <1>4 DEF WorkSetsExact, Bare
  <2> QED
    BY <1>0, <1>1, <1>2, <2>1, <2>2, <2>3
<1>5. CASE u \in G
  <2>0. /\ sinks' = sinks \ {u}
        /\ s2' = <<u>> \o s2
        /\ G' = G \ {u}
        /\ outgoing' = DropEdges(outgoing, incoming[u], u)
        /\ score' = LoseOut(score, incoming[u], u)
        /\ newSinks' = newSinks \cup Bare(outgoing', incoming[u])
    BY <1>3, <1>5
  <2>1. u \in Transfers /\ incoming[u] \subseteq Transfers /\ u \notin Placed(s2)
    BY <1>0, <1>3, <1>5 DEF TypeOK, PartsDisjoint
  <2>2. /\ <<u>> \o s2 \in Seq(Transfers)
        /\ Placed(<<u>> \o s2) = Placed(s2) \cup {u}
        /\ Injective(<<u>> \o s2)
    BY <1>0, <2>1, PrependPlaces DEF TypeOK, PartsDisjoint
  <2>3. TypeOK'
    BY <1>0, <2>0, <1>5, <2>1, <2>2
    DEF TypeOK, DropEdges, LoseOut, Bare, listVars, inputVars, graphVars, stashVars, topoVars
  <2>4. PartsDisjoint'
    BY <1>0, <2>0, <1>5, <2>1, <2>2 DEF PartsDisjoint
  <2>5. \A v \in G : u \notin goesAfter[v] /\ (u \in goesBefore[v] <=> v \in incoming[u])
    <3>1. outgoing[u] = {} /\ outgoing[u] = goesBefore[u] \cap G
      BY <1>0, <1>3, <1>5 DEF WorkSetsExact, Bare, ResidualGraph, Peeling
    <3>2. incoming[u] = goesAfter[u] \cap G
      BY <1>0, <1>5 DEF ResidualGraph, Peeling
    <3> QED
      BY <2>1, <3>1, <3>2 DEF EdgesMirrored, TypeOK
  <2>6. ResidualGraph'
    BY <1>0, <2>0, <1>5, <2>1, <2>5
    DEF ResidualGraph, Peeling, DropEdges, TypeOK, graphVars
  <2>7. WorkSetsExact'
    BY <1>0, <2>0, <1>5, <2>1, <2>5 DEF WorkSetsExact, Bare, DropEdges, TypeOK
  <2> QED
    BY <1>0, <1>1, <1>2, <2>3, <2>4, <2>6, <2>7
<1> QED
  BY <1>4, <1>5

(* The next round of sinks is chosen among what is left.                   *)
LEMMA NextSinksStep == IInv /\ NextSinks => IInv'
<1> SUFFICES ASSUME IInv, NextSinks PROVE IInv'
  OBVIOUS
<1> USE DEF IInv, NextSinks
<1>1. TypeOK'
  BY DEF TypeOK, Phases, listVars, inputVars, graphVars, stashVars, topoVars
<1>2. EdgesMirrored' /\ ReadsCovered' /\ StashesMatched'
  BY DEF EdgesMirrored, ReadsCovered, Covered, Stashed, StashesMatched, StashesMade,
         Sequenced, graphVars, inputVars, stashVars, listVars
<1>3. PartsDisjoint' /\ ResidualGraph' /\ WorkSetsExact'
  BY DEF PartsDisjoint, ResidualGraph, Peeling, WorkSetsExact, Bare, graphVars
<1>4. OrderIsPlace' /\ EdgesForward' /\ Topological' /\ NoReadAfterWrite'
  BY DEF OrderIsPlace, Sequenced, EdgesForward, Topological, NoReadAfterWrite
<1> QED
  BY <1>1, <1>2, <1>3, <1>4

(* A source is placed at the end of s1, and its edges are dropped.         *)
LEMMA TakeSourceStep == IInv /\ TakeSource => IInv'
<1> SUFFICES ASSUME IInv, TakeSource PROVE IInv'
  OBVIOUS
<1> USE DEF IInv
<1>0. pc = "sources" /\ UNCHANGED <<pc, idx, listVars, inputVars, graphVars, outgoing, s2,
                                    sinks, newSinks, stashVars, topoVars>>
  BY DEF TakeSource
<1>1. EdgesMirrored' /\ ReadsCovered' /\ StashesMatched'
  BY <1>0 DEF EdgesMirrored, ReadsCovered, Covered, Stashed, StashesMatched, StashesMade,
              Sequenced, graphVars, inputVars, stashVars, listVars
<1>2. OrderIsPlace' /\ EdgesForward' /\ Topological' /\ NoReadAfterWrite'
  BY <1>0 DEF OrderIsPlace, Sequenced, EdgesForward, Topological, NoReadAfterWrite
<1>3. PICK u \in sources :
        /\ sources' = sources \ {u}
        /\ \/ u \notin G /\ UNCHANGED <<G, s1, incoming, score, newSources>>
           \/ /\ u \in G
              /\ s1' = Append(s1, u)
              /\ G' = G \ {u}
              /\ incoming' = DropEdges(incoming, outgoing[u], u)
              /\ score' = LoseIn(score, outgoing[u], u)
              /\ newSources' = newSources \cup Bare(incoming', outgoing[u])
  BY DEF TakeSource
<1>4. CASE u \notin G
  <2>0. sources' = sources \ {u} /\ UNCHANGED <<G, s1, incoming, score, newSources>>
    BY <1>3, <1>4
  <2>1. TypeOK'
    BY <1>0, <2>0 DEF TypeOK, listVars, inputVars, graphVars, stashVars, topoVars
  <2>3. PartsDisjoint' /\ ResidualGraph'
    BY <1>0, <2>0 DEF PartsDisjoint, ResidualGraph, Peeling, graphVars
  <2>2. WorkSetsExact'
    BY <1>0, <2>0, <1>4 DEF WorkSetsExact, Bare
  <2> QED
    BY <1>0, <1>1, <1>2, <2>1, <2>2, <2>3
<1>5. CASE u \in G
  <2>0. /\ sources' = sources \ {u}
        /\ s1' = Append(s1, u)
        /\ G' = G \ {u}
        /\ incoming' = DropEdges(incoming, outgoing[u], u)
        /\ score' = LoseIn(score, outgoing[u], u)
        /\ newSources' = newSources \cup Bare(incoming', outgoing[u])
    BY <1>3, <1>5
  <2>1. u \in Transfers /\ outgoing[u] \subseteq Transfers /\ u \notin Placed(s1)
    BY <1>0, <1>3, <1>5 DEF TypeOK, PartsDisjoint
  <2>2. /\ Append(s1, u) \in Seq(Transfers)
        /\ Placed(Append(s1, u)) = Placed(s1) \cup {u}
        /\ Injective(Append(s1, u))
    BY <1>0, <2>1, AppendPlaces DEF TypeOK, PartsDisjoint
  <2>3. TypeOK'
    BY <1>0, <2>0, <1>5, <2>1, <2>2
    DEF TypeOK, DropEdges, LoseIn, Bare, listVars, inputVars, graphVars, stashVars, topoVars
  <2>4. PartsDisjoint'
    BY <1>0, <2>0, <1>5, <2>1, <2>2 DEF PartsDisjoint
  <2>5. \A v \in G : u \notin goesBefore[v] /\ (u \in goesAfter[v] <=> v \in outgoing[u])
    <3>1. incoming[u] = {} /\ incoming[u] = goesAfter[u] \cap G
      BY <1>0, <1>3, <1>5 DEF WorkSetsExact, Bare, ResidualGraph, Peeling
    <3>2. outgoing[u] = goesBefore[u] \cap G
      BY <1>0, <1>5 DEF ResidualGraph, Peeling
    <3> QED
      BY <2>1, <3>1, <3>2 DEF EdgesMirrored, TypeOK
  <2>6. ResidualGraph'
    BY <1>0, <2>0, <1>5, <2>1, <2>5
    DEF ResidualGraph, Peeling, DropEdges, TypeOK, graphVars
  <2>7. WorkSetsExact'
    BY <1>0, <2>0, <1>5, <2>1, <2>5 DEF WorkSetsExact, Bare, DropEdges, TypeOK
  <2> QED
    BY <1>0, <1>1, <1>2, <2>3, <2>4, <2>6, <2>7
<1> QED
  BY <1>4, <1>5

(* The next round of sources is chosen among what is left.                 *)
LEMMA NextSourcesStep == IInv /\ NextSources => IInv'
<1> SUFFICES ASSUME IInv, NextSources PROVE IInv'
  OBVIOUS
<1> USE DEF IInv, NextSources
<1>1. TypeOK'
  BY DEF TypeOK, Phases, listVars, inputVars, graphVars, stashVars, topoVars
<1>2. EdgesMirrored' /\ ReadsCovered' /\ StashesMatched'
  BY DEF EdgesMirrored, ReadsCovered, Covered, Stashed, StashesMatched, StashesMade,
         Sequenced, graphVars, inputVars, stashVars, listVars
<1>3. PartsDisjoint' /\ ResidualGraph' /\ WorkSetsExact'
  BY DEF PartsDisjoint, ResidualGraph, Peeling, WorkSetsExact, Bare, graphVars
<1>4. OrderIsPlace' /\ EdgesForward' /\ Topological' /\ NoReadAfterWrite'
  BY DEF OrderIsPlace, Sequenced, EdgesForward, Topological, NoReadAfterWrite
<1> QED
  BY <1>1, <1>2, <1>3, <1>4

(* The vertex taken off the heap is one that is left.                      *)
LEMMA TakeBestStep == IInv /\ TakeBest => IInv'
<1> SUFFICES ASSUME IInv, TakeBest PROVE IInv'
  OBVIOUS
<1> USE DEF IInv
<1>0. /\ pc = "best" /\ pc' = "sinks"
      /\ UNCHANGED <<idx, listVars, inputVars, graphVars, s2, newSinks,
                     newSources, stashVars, topoVars>>
  BY DEF TakeBest
<1>1. EdgesMirrored' /\ ReadsCovered' /\ StashesMatched'
  BY <1>0 DEF EdgesMirrored, ReadsCovered, Covered, Stashed, StashesMatched, StashesMade,
              Sequenced, graphVars, inputVars, stashVars, listVars
<1>2. OrderIsPlace' /\ EdgesForward' /\ Topological' /\ NoReadAfterWrite'
  BY <1>0 DEF OrderIsPlace, Sequenced, EdgesForward, Topological, NoReadAfterWrite
<1>3. PICK u \in G :
        /\ s1' = Append(s1, u)
        /\ G' = G \ {u}
        /\ incoming' = DropEdges(incoming, outgoing[u], u)
        /\ outgoing' = DropEdges(outgoing, incoming[u], u)
        /\ score' = LoseOut(LoseIn(score, outgoing[u], u), incoming[u], u)
        /\ sources' = Bare(incoming', outgoing[u])
        /\ sinks' = Bare(outgoing', incoming[u])
  BY DEF TakeBest
<1>4. /\ u \in Transfers /\ u \notin Placed(s1)
      /\ outgoing[u] \subseteq Transfers /\ incoming[u] \subseteq Transfers
  BY <1>0, <1>3 DEF TypeOK, PartsDisjoint
<1>5. /\ Append(s1, u) \in Seq(Transfers)
      /\ Placed(Append(s1, u)) = Placed(s1) \cup {u}
      /\ Injective(Append(s1, u))
  BY <1>0, <1>4, AppendPlaces DEF TypeOK, PartsDisjoint
<1>6. TypeOK'
  BY <1>0, <1>3, <1>4, <1>5
  DEF TypeOK, Phases, DropEdges, LoseIn, LoseOut, Bare, listVars, inputVars, graphVars,
      stashVars, topoVars
<1>7. PartsDisjoint'
  BY <1>0, <1>3, <1>4, <1>5 DEF PartsDisjoint
<1>8. \A v \in G : /\ u \in goesBefore[v] <=> v \in incoming[u]
                   /\ u \in goesAfter[v] <=> v \in outgoing[u]
  <2>1. outgoing[u] = goesBefore[u] \cap G /\ incoming[u] = goesAfter[u] \cap G
    BY <1>0 DEF ResidualGraph, Peeling
  <2> QED
    BY <1>4, <2>1 DEF EdgesMirrored, TypeOK
<1>9. ResidualGraph'
  BY <1>0, <1>3, <1>4, <1>8 DEF ResidualGraph, Peeling, DropEdges, TypeOK, graphVars
<1>10. WorkSetsExact'
  <2>1. u \notin goesBefore[u] /\ u \notin goesAfter[u]
    BY <1>4 DEF EdgesMirrored
  <2>2. u \notin outgoing[u] /\ u \notin incoming[u] /\ outgoing[u] \subseteq G /\ incoming[u] \subseteq G
    BY <1>0, <2>1 DEF ResidualGraph, Peeling
  <2>3. sinks' \cap G' = Bare(outgoing, G)'
    BY <1>0, <1>3, <1>4, <2>2 DEF WorkSetsExact, Bare, DropEdges, TypeOK
  <2>4. sources' \cap G' = Bare(incoming, G)'
    BY <1>0, <1>3, <1>4, <2>2 DEF WorkSetsExact, Bare, DropEdges, TypeOK
  <2> QED
    BY <1>0, <2>3, <2>4 DEF WorkSetsExact
<1> QED
  BY <1>0, <1>1, <1>2, <1>6, <1>7, <1>9, <1>10

(* With no vertex left, s1 and s2 put end to end hold each one once.       *)
LEMMA RecordOrderStep == IInv /\ RecordOrder => IInv'
<1> SUFFICES ASSUME IInv, RecordOrder PROVE IInv'
  OBVIOUS
<1> USE DEF IInv, RecordOrder
<1>1. Permutation(Sequence)
  BY ConcatPermutes DEF Sequence, TypeOK, PartsDisjoint
<1>2. /\ transfers' = Sequence
      /\ order' = [t \in Transfers |-> Position(Sequence, t)]
      /\ \A t \in Transfers : /\ Position(Sequence, t) \in DOMAIN Sequence
                              /\ Sequence[Position(Sequence, t)] = t
  BY <1>1, PositionIsPlace
<1>3. Sequence \in Seq(Transfers) /\ DOMAIN Sequence = 1..Len(Sequence) /\ Len(Sequence) \in Nat
  BY <1>1 DEF Permutation
<1>4. TypeOK'
  BY <1>2, <1>3
  DEF TypeOK, Phases, inputVars, graphVars, seqVars, stashVars, topoVars
<1>5. OrderIsPlace'
  BY <1>1, <1>2 DEF OrderIsPlace
<1>6. EdgesForward'
  BY <1>2, <1>3 DEF EdgesForward
<1>7. StashesMatched'
  <2>1. \A t \in Transfers : useStash[t] = {} /\ StashesMade(t) = {}
    BY DEF StashesMatched
  <2>2. \A t \in Transfers : useStash'[t] = {} /\ StashesMade(t)' = {}
    BY <2>1 DEF StashesMade, stashVars
  <2> QED
    BY <2>2 DEF StashesMatched
<1>8. EdgesMirrored' /\ ReadsCovered'
  BY DEF EdgesMirrored, ReadsCovered, Covered, Stashed, graphVars, inputVars, stashVars
<1>9. PartsDisjoint' /\ ResidualGraph' /\ WorkSetsExact' /\ Topological' /\ NoReadAfterWrite'
  BY DEF PartsDisjoint, ResidualGraph, Peeling, WorkSetsExact, Topological, NoReadAfterWrite
<1> QED
  BY <1>4, <1>5, <1>6, <1>7, <1>8, <1>9

(* The transfer at idx is the only one whose place is idx.                 *)
LEMMA CurrentTransfer ==
    ASSUME IInv, pc = "edges", idx \in DOMAIN transfers
    PROVE  /\ transfers[idx] \in Transfers
           /\ order[transfers[idx]] = idx
           /\ \A t \in Transfers : order[t] = idx => t = transfers[idx]
           /\ \A t \in Transfers : order[t] \in Nat /\ order[t] >= 1
           /\ idx \in Nat
<1>1. Permutation(transfers) /\ \A t \in Transfers : /\ order[t] \in DOMAIN transfers
                                                     /\ transfers[order[t]] = t
  BY DEF IInv, OrderIsPlace, Sequenced
<1>2. DOMAIN transfers = 1..Len(transfers) /\ Len(transfers) \in Nat /\ transfers[idx] \in Transfers
  BY <1>1 DEF Permutation
<1> QED
  BY <1>1, <1>2 DEF Permutation, Injective

(* For version 1: an edge that points back loses the range it was for.     *)
LEMMA RemoveBackwardEdgesStep == IInv /\ RemoveBackwardEdges => IInv'
<1> SUFFICES ASSUME IInv, RemoveBackwardEdges PROVE IInv'
  OBVIOUS
<1> DEFINE xf   == transfers[idx]
           kept == src[xf] \ UNION {Tgt[u] : u \in Violated(xf)}
<1> USE DEF IInv
<1>1. /\ pc = "edges" /\ version = 1 /\ idx \in DOMAIN transfers
      /\ src' = [src EXCEPT ![xf] = kept]
      /\ style' = [style EXCEPT ![xf] = IF @ = "diff" /\ kept = {} THEN "new" ELSE @]
      /\ idx' = idx + 1
      /\ UNCHANGED <<version, pc, listVars, graphVars, seqVars, stashVars, topoVars>>
  BY DEF RemoveBackwardEdges
<1>2. /\ xf \in Transfers /\ order[xf] = idx
      /\ \A t \in Transfers : order[t] = idx => t = xf
      /\ \A t \in Transfers : order[t] \in Nat /\ order[t] >= 1
      /\ idx \in Nat
  BY <1>1, CurrentTransfer
<1>3. kept \subseteq src[xf] /\ \A u \in Violated(xf) : kept \cap Tgt[u] = {}
  OBVIOUS
<1> HIDE DEF kept, xf
<1>4. TypeOK'
  BY <1>1, <1>2, <1>3 DEF TypeOK, listVars, graphVars, seqVars, stashVars, topoVars
<1>5. \A t \in Transfers : src'[t] \subseteq src[t] /\ (t # xf => src'[t] = src[t])
  BY <1>1, <1>2, <1>3 DEF TypeOK
<1>6. \A t, u \in Transfers : Covered(t, u) => Covered(t, u)'
  BY <1>1, <1>5 DEF Covered, Stashed, stashVars
<1>7. ReadsCovered'
  BY <1>1, <1>6 DEF ReadsCovered, graphVars
<1>8. EdgesForward'
  <2>1. ASSUME NEW x \in Transfers, NEW u \in Transfers, order[x] < idx + 1, order[u] < order[x]
        PROVE  Covered(x, u)'
    <3>1. CASE order[x] < idx
      BY <1>1, <1>6, <2>1, <3>1 DEF EdgesForward
    <3>2. CASE order[x] = idx
      <4>1. x = xf /\ x # u /\ order[u] \in Nat /\ order[x] \in Nat
        BY <1>2, <2>1, <3>2
      <4>2. CASE Covered(x, u)
        BY <1>6, <4>2
      <4>3. CASE u \in goesBefore[x]
        <5>1. u \in Violated(xf)
          BY <2>1, <4>1, <4>3 DEF Violated
        <5>2. src'[x] \cap Tgt[u] = {}
          BY <1>1, <1>2, <1>3, <4>1, <5>1 DEF TypeOK
        <5> QED
          BY <5>2 DEF Covered
      <4> QED
        BY <1>1, <4>1, <4>2, <4>3 DEF ReadsCovered
    <3> QED
      BY <1>2, <2>1, <3>1, <3>2
  <2> QED
    BY <1>1, <1>2, <2>1 DEF EdgesForward, listVars
<1>9. EdgesMirrored' /\ StashesMatched' /\ OrderIsPlace'
  BY <1>1 DEF EdgesMirrored, StashesMatched, StashesMade, Sequenced, OrderIsPlace,
              graphVars, stashVars, listVars
<1>10. PartsDisjoint' /\ ResidualGraph' /\ WorkSetsExact' /\ Topological' /\ NoReadAfterWrite'
  BY <1>1 DEF PartsDisjoint, ResidualGraph, Peeling, WorkSetsExact, Topological, NoReadAfterWrite
<1> QED
  BY <1>1, <1>4, <1>7, <1>8, <1>9, <1>10

(* An edge that points back is turned, and what it was for is stashed.     *)
LEMMA ReverseBackwardEdgesStep == IInv /\ ReverseBackwardEdges => IInv'
<1> SUFFICES ASSUME IInv, ReverseBackwardEdges PROVE IInv'
  OBVIOUS
<1> USE DEF IInv
<1>0. PICK xf, B : xf = transfers[idx] /\ B = Violated(xf)
  OBVIOUS
<1>1. /\ pc = "edges" /\ version >= 2 /\ idx \in DOMAIN transfers
      /\ stashBefore' = [u \in Transfers |->
                IF u \in B THEN Append(stashBefore[u], Stash(u, xf)) ELSE stashBefore[u]]
      /\ useStash' = [useStash EXCEPT ![xf] = @ \cup {Stash(u, xf) : u \in B}]
      /\ goesBefore' = MoveEdges(goesBefore, xf, B)
      /\ goesAfter' = MoveEdgesBack(goesAfter, xf, B)
      /\ idx' = idx + 1
      /\ UNCHANGED <<pc, listVars, inputVars, seqVars, topoVars>>
  BY <1>0 DEF ReverseBackwardEdges
<1>2. /\ xf \in Transfers /\ order[xf] = idx
      /\ \A t \in Transfers : order[t] = idx => t = xf
      /\ \A t \in Transfers : order[t] \in Nat /\ order[t] >= 1
      /\ idx \in Nat
  BY <1>0, <1>1, CurrentTransfer
<1>3. /\ B \subseteq goesBefore[xf] /\ B \subseteq Transfers /\ xf \notin B
      /\ \A u \in B : order[u] < idx
      /\ \A u \in goesBefore[xf] \ B : idx < order[u]
  <2>1. goesBefore[xf] \subseteq Transfers /\ xf \notin goesBefore[xf]
    BY <1>2 DEF TypeOK, EdgesMirrored
  <2>2. \A u \in goesBefore[xf] : order[u] # idx
    BY <1>2, <2>1
  <2> QED
    BY <1>0, <1>2, <2>1, <2>2 DEF Violated
<1>4. \A u \in B : Stash(u, xf) \in Stashes /\ Stash(u, xf).def = u /\ Stash(u, xf).use = xf
                   /\ Stash(u, xf).blocks = src[xf] \cap Tgt[u]
  BY <1>2, <1>3, TgtAssumption DEF Stash, Stashes, TypeOK
<1>5. TypeOK'
  <2>1. stashBefore' \in [Transfers -> Seq(Stashes)]
    BY <1>1, <1>4 DEF TypeOK
  <2>2. useStash' \in [Transfers -> SUBSET Stashes]
    BY <1>1, <1>2, <1>4 DEF TypeOK
  <2>3. goesBefore' \in [Transfers -> SUBSET Transfers] /\ goesAfter' \in [Transfers -> SUBSET Transfers]
    BY <1>1, <1>2, <1>3 DEF TypeOK, MoveEdges, MoveEdgesBack
  <2> QED
    BY <1>1, <1>2, <2>1, <2>2, <2>3 DEF TypeOK, listVars, inputVars, seqVars, topoVars
<1>6. \A t, u \in Transfers : u \in goesBefore'[t] <=>
            \/ t = xf /\ u \in goesBefore[t] /\ u \notin B
            \/ t # xf /\ (u \in goesBefore[t] \/ (t \in B /\ u = xf))
  BY <1>1, <1>2 DEF MoveEdges, TypeOK
<1>7. \A t, u \in Transfers : t \in goesAfter'[u] <=>
            \/ u = xf /\ (t \in goesAfter[u] \/ t \in B)
            \/ u # xf /\ t \in goesAfter[u] /\ ~(u \in B /\ t = xf)
  BY <1>1, <1>2 DEF MoveEdgesBack, TypeOK
<1>8. EdgesMirrored'
  BY <1>2, <1>3, <1>6, <1>7 DEF EdgesMirrored
<1>9. useStash'[xf] = useStash[xf] \cup {Stash(u, xf) : u \in B}
      /\ \A t \in Transfers \ {xf} : useStash'[t] = useStash[t]
  BY <1>1, <1>2 DEF TypeOK
<1>10. \A t, u \in Transfers : Covered(t, u) => Covered(t, u)'
  BY <1>1, <1>9 DEF Covered, Stashed, inputVars
<1>11. \A u \in B : Covered(xf, u)'
  <2>1. \A u \in B : Stash(u, xf).blocks \subseteq Stashed(xf)'
    BY <1>9 DEF Stashed
  <2> QED
    BY <1>1, <1>4, <2>1 DEF Covered, inputVars
<1>12. ReadsCovered'
  BY <1>1, <1>2, <1>6, <1>10, <1>11 DEF ReadsCovered
<1>13. EdgesForward'
  <2>1. ASSUME NEW x \in Transfers, order[x] < idx + 1, NEW u \in goesBefore'[x]
        PROVE  order[x] < order[u]
    <3>0. u \in Transfers
      BY <1>5 DEF TypeOK
    <3>1. CASE x = xf
      BY <1>2, <1>3, <1>6, <2>1, <3>0, <3>1
    <3>2. CASE x # xf
      <4>1. order[x] < idx
        BY <1>2, <2>1, <3>2
      <4> QED
        BY <1>1, <1>2, <1>6, <2>1, <3>0, <3>2, <4>1 DEF EdgesForward
    <3> QED
      BY <3>1, <3>2
  <2> QED
    BY <1>1, <1>2, <2>1 DEF EdgesForward, inputVars, listVars
<1>14. \A t \in Transfers : StashesMade(t)' =
          IF t \in B THEN StashesMade(t) \cup {Stash(t, xf)} ELSE StashesMade(t)
  <2>1. ASSUME NEW t \in Transfers, t \in B
        PROVE  StashesMade(t)' = StashesMade(t) \cup {Stash(t, xf)}
    <3>1. stashBefore[t] \in Seq(Stashes) /\ stashBefore'[t] = Append(stashBefore[t], Stash(t, xf))
      BY <1>1, <2>1 DEF TypeOK
    <3> QED
      BY <1>4, <2>1, <3>1 DEF StashesMade
  <2>2. ASSUME NEW t \in Transfers, t \notin B
        PROVE  StashesMade(t)' = StashesMade(t)
    BY <1>1, <2>2 DEF StashesMade
  <2> QED
    BY <2>1, <2>2
<1>15. StashesMatched'
  <2>1. ASSUME NEW t \in Transfers, NEW s \in useStash'[t]
        PROVE  /\ s.use = t /\ s \in StashesMade(s.def)'
               /\ s.def \in goesAfter'[t] /\ order[s.def] < order[t]
    <3>1. CASE s \in useStash[t]
      <4>1. /\ s.use = t /\ s \in StashesMade(s.def) /\ s.def \in goesAfter[t]
            /\ order[s.def] < order[t] /\ s.def \in Transfers
        BY <1>1, <3>1 DEF StashesMatched, Sequenced, TypeOK, Stashes
      <4>2. s.def \in goesAfter'[t]
        BY <1>2, <1>3, <1>7, <4>1
      <4> QED
        BY <1>14, <4>1, <4>2
    <3>2. CASE s \notin useStash[t]
      <4>1. t = xf /\ \E u \in B : s = Stash(u, xf)
        BY <1>9, <2>1, <3>2
      <4>2. PICK u \in B : s = Stash(u, xf)
        BY <4>1
      <4>3. s.use = t /\ s.def = u /\ u \in Transfers /\ order[u] < order[t]
        BY <1>2, <1>3, <1>4, <4>1, <4>2
      <4>4. s \in StashesMade(u)'
        BY <1>14, <4>2, <4>3
      <4>5. u \in goesAfter'[t]
        BY <1>7, <4>1, <4>3
      <4> QED
        BY <4>3, <4>4, <4>5
    <3> QED
      BY <3>1, <3>2
  <2>2. ASSUME NEW t \in Transfers, NEW s \in StashesMade(t)'
        PROVE  s.def = t /\ s \in useStash'[s.use]
    <3>1. CASE s \in StashesMade(t)
      <4>1. s.def = t /\ s \in useStash[s.use] /\ s.use \in Transfers
        <5>1. s \in Stashes
          BY <3>1 DEF StashesMade, TypeOK
        <5> QED
          BY <3>1, <5>1 DEF StashesMatched, Stashes
      <4> QED
        BY <1>9, <4>1
    <3>2. CASE s \notin StashesMade(t)
      <4>1. t \in B /\ s = Stash(t, xf)
        BY <1>14, <2>2, <3>2
      <4> QED
        BY <1>4, <1>9, <4>1
    <3> QED
      BY <3>1, <3>2
  <2> QED
    BY <1>1, <2>1, <2>2 DEF StashesMatched, listVars
<1>16. OrderIsPlace'
  BY <1>1 DEF OrderIsPlace, Sequenced, listVars
<1>17. PartsDisjoint' /\ ResidualGraph' /\ WorkSetsExact' /\ Topological' /\ NoReadAfterWrite'
  BY <1>1 DEF PartsDisjoint, ResidualGraph, Peeling, WorkSetsExact, Topological, NoReadAfterWrite
<1> QED
  BY <1>1, <1>5, <1>8, <1>12, <1>13, <1>15, <1>16, <1>17

(* What EdgesForward and ReadsCovered say once the loop is over.           *)
LEMMA EdgesDoneStep == IInv /\ EdgesDone => IInv'
<1> SUFFICES ASSUME IInv, EdgesDone PROVE IInv'
  OBVIOUS
<1> USE DEF IInv, EdgesDone
<1>1. /\ Permutation(transfers)
      /\ \A t \in Transfers : order[t] \in DOMAIN transfers /\ transfers[order[t]] = t
      /\ DOMAIN transfers = 1..Len(transfers) /\ Len(transfers) \in Nat
  BY DEF OrderIsPlace, Sequenced, Permutation
<1>2. \A t \in Transfers : order[t] < idx /\ order[t] \in Nat
  BY <1>1 DEF EdgesForward, TypeOK
<1>3. TypeOK'
  BY DEF TypeOK, Phases, listVars, inputVars, graphVars, seqVars, stashVars, topoVars
<1>4. EdgesMirrored' /\ ReadsCovered' /\ OrderIsPlace' /\ StashesMatched'
  BY DEF EdgesMirrored, ReadsCovered, Covered, Stashed, OrderIsPlace, Sequenced,
         StashesMatched, StashesMade, graphVars, inputVars, stashVars, listVars
<1>5. EdgesForward'
  BY <1>2, VersionAssumption DEF EdgesForward, TypeOK, inputVars, graphVars, listVars
<1>6. NoReadAfterWrite'
  <2>1. ASSUME version = 1 PROVE SequenceGood
    <3>1. ASSUME NEW i \in DOMAIN transfers, NEW j \in DOMAIN transfers, i < j
          PROVE  Tgt[transfers[i]] \cap (src[transfers[j]] \ Stashed(transfers[j])) = {}
      <4>1. /\ transfers[i] \in Transfers /\ transfers[j] \in Transfers
            /\ order[transfers[i]] = i /\ order[transfers[j]] = j
        BY <1>1 DEF Permutation, Injective
      <4>2. Covered(transfers[j], transfers[i])
        BY <1>2, <2>1, <3>1, <4>1 DEF EdgesForward
      <4> QED
        BY <4>2 DEF Covered
    <3> QED
      BY <1>1, <3>1 DEF SequenceGood, Permutation, Injective
  <2>2. SequenceGood = SequenceGood'
    BY DEF SequenceGood, Stashed, listVars, inputVars, stashVars
  <2> QED
    BY <2>1, <2>2 DEF NoReadAfterWrite
<1>7. PartsDisjoint' /\ ResidualGraph' /\ WorkSetsExact' /\ Topological'
  BY DEF PartsDisjoint, ResidualGraph, Peeling, WorkSetsExact, Topological
<1> QED
  BY <1>3, <1>4, <1>5, <1>6, <1>7

(* The second ordering starts from nothing placed.                         *)
LEMMA StartImproveStep == IInv /\ StartImprove => IInv'
<1> SUFFICES ASSUME IInv, StartImprove PROVE IInv'
  OBVIOUS
<1> USE DEF IInv, StartImprove
<1>1. TypeOK'
  BY DEF TypeOK, Phases, Bare, listVars, inputVars, graphVars, stashVars
<1>2. EdgesMirrored' /\ ReadsCovered' /\ OrderIsPlace' /\ StashesMatched'
  BY DEF EdgesMirrored, ReadsCovered, Covered, Stashed, OrderIsPlace, Sequenced,
         StashesMatched, StashesMade, graphVars, inputVars, stashVars, listVars
<1>3. EdgesForward'
  BY DEF EdgesForward, inputVars, graphVars, listVars
<1>4. Topological'
  <2>1. Placed(<<>>) = {} /\ Injective(<<>>) /\ <<>> \in Seq(Transfers) /\ DOMAIN <<>> = {}
    BY DEF Placed, Injective
  <2> QED
    BY <2>1 DEF Topological, TypeOK, Bare, graphVars
<1>5. PartsDisjoint' /\ ResidualGraph' /\ WorkSetsExact' /\ NoReadAfterWrite'
  BY DEF PartsDisjoint, ResidualGraph, Peeling, WorkSetsExact, NoReadAfterWrite
<1> QED
  BY <1>1, <1>2, <1>3, <1>4, <1>5

(* Placing a transfer whose edges are all met keeps what is placed closed. *)
LEMMA PlaceNextStep == IInv /\ PlaceNext => IInv'
<1> SUFFICES ASSUME IInv, PlaceNext PROVE IInv'
  OBVIOUS
<1> USE DEF IInv
<1>1. pc = "improve" /\ UNCHANGED <<pc, idx, listVars, inputVars, graphVars, outgoing, score, G,
                   s1, s2, sinks, newSinks, sources, newSources, stashVars>>
  BY DEF PlaceNext
<1>2. PICK xf \in S :
         /\ L' = Append(L, xf)
         /\ incoming' = DropEdges(incoming, outgoing[xf], xf)
         /\ S' = (S \ {xf}) \cup Bare(incoming', outgoing[xf])
  BY DEF PlaceNext
<1>3. /\ xf \in Transfers /\ xf \notin Placed(L) /\ goesAfter[xf] \subseteq Placed(L)
      /\ L \in Seq(Transfers) /\ Injective(L)
      /\ outgoing[xf] = goesBefore[xf] /\ goesBefore[xf] \subseteq Transfers
  BY <1>1, <1>2 DEF Topological, TypeOK
<1>4. /\ L' \in Seq(Transfers)
      /\ Placed(L') = Placed(L) \cup {xf}
      /\ Injective(L')
  BY <1>2, <1>3, AppendPlaces
<1>5. TypeOK'
  BY <1>1, <1>2, <1>3, <1>4
  DEF TypeOK, DropEdges, Bare, listVars, inputVars, graphVars, stashVars
<1>6. Topological'
  <2>1. \A t \in Transfers : t \in goesBefore[xf] <=> xf \in goesAfter[t]
    BY <1>3 DEF EdgesMirrored
  <2>2. \A t \in Transfers : incoming'[t] = goesAfter[t] \ Placed(L')
    BY <1>1, <1>2, <1>3, <1>4, <2>1 DEF Topological, DropEdges
  <2>3. \A t \in Placed(L) : t \in Transfers /\ goesAfter[t] \subseteq Placed(L)
    BY <1>1, <1>3 DEF Topological, Placed
  <2>4. \A t \in Transfers : t \in S' <=> t \notin Placed(L') /\ incoming'[t] = {}
    <3>1. ASSUME NEW t \in Transfers, t \in S'
          PROVE  t \notin Placed(L') /\ incoming'[t] = {}
      <4>1. CASE t \in S \ {xf}
        BY <1>1, <1>4, <2>2, <4>1 DEF Topological
      <4>2. CASE t \in goesBefore[xf] /\ incoming'[t] = {}
        BY <1>3, <1>4, <2>1, <2>3, <4>2 DEF EdgesMirrored
      <4> QED
        BY <1>2, <1>3, <3>1, <4>1, <4>2 DEF Bare
    <3>2. ASSUME NEW t \in Transfers, t \notin Placed(L'), incoming'[t] = {}
          PROVE  t \in S'
      <4>1. CASE t \in goesBefore[xf]
        BY <1>2, <1>3, <3>2, <4>1 DEF Bare
      <4>2. CASE t \notin goesBefore[xf]
        BY <1>1, <1>2, <1>3, <1>4, <3>2, <4>2 DEF Topological, DropEdges
      <4> QED
        BY <4>1, <4>2
    <3> QED
      BY <3>1, <3>2
  <2>5. ASSUME NEW i \in DOMAIN L', NEW t \in goesAfter[L'[i]]
        PROVE  \E j \in DOMAIN L' : j < i /\ L'[j] = t
    <3>1. /\ DOMAIN L' = 1..(Len(L) + 1) /\ DOMAIN L = 1..Len(L) /\ Len(L) \in Nat
          /\ L'[Len(L) + 1] = xf /\ \A k \in 1..Len(L) : L'[k] = L[k]
      BY <1>2, <1>3
    <3>2. CASE i \in DOMAIN L
      BY <1>1, <2>5, <3>1, <3>2 DEF Topological
    <3>3. CASE i = Len(L) + 1
      <4>1. t \in Placed(L)
        BY <1>3, <2>5, <3>1, <3>3
      <4> QED
        BY <3>1, <3>3, <4>1 DEF Placed
    <3> QED
      BY <2>5, <3>1, <3>2, <3>3
  <2> QED
    BY <1>1, <1>4, <2>2, <2>4, <2>5 DEF Topological, graphVars
<1>7. EdgesMirrored' /\ ReadsCovered' /\ OrderIsPlace' /\ StashesMatched' /\ EdgesForward'
  BY <1>1 DEF EdgesMirrored, ReadsCovered, Covered, Stashed, OrderIsPlace, Sequenced, EdgesForward,
         StashesMatched, StashesMade, graphVars, inputVars, stashVars, listVars
<1>8. PartsDisjoint' /\ ResidualGraph' /\ WorkSetsExact' /\ NoReadAfterWrite'
  BY <1>1 DEF PartsDisjoint, ResidualGraph, Peeling, WorkSetsExact, NoReadAfterWrite
<1> QED
  BY <1>1, <1>5, <1>6, <1>7, <1>8

(* A non-empty set of transfers has one that comes first.                  *)
LEMMA FirstOfSet ==
    ASSUME order \in [Transfers -> Nat], NEW W, W \subseteq Transfers, W # {}
    PROVE  \E x \in W : \A y \in W : ~(order[y] < order[x])
<1> DEFINE places == {order[t] : t \in W}
<1>1. places \subseteq Nat /\ places # {}
  OBVIOUS
<1>2. \E m \in places : \A n \in places : ~(<<n, m>> \in OpToRel(<, Nat))
  BY <1>1, WFMin, NatLessThanWellFounded
<1>3. PICK m \in places : \A n \in places : ~(<<n, m>> \in OpToRel(<, Nat))
  BY <1>2
<1>4. \A n \in places : ~(n < m)
  BY <1>1, <1>3 DEF OpToRel
<1> QED
  BY <1>3, <1>4

(* When S runs dry the whole digraph is placed: it has no cycle.           *)
LEMMA AllPlaced ==
    ASSUME IInv, pc = "improve", S = {}
    PROVE  Permutation(L)
<1> USE DEF IInv
<1>1. Placed(L) = Transfers
  <2>1. Placed(L) \subseteq Transfers
    BY DEF TypeOK, Placed
  <2>2. ASSUME Transfers \ Placed(L) # {} PROVE FALSE
    <3>1. PICK x \in Transfers \ Placed(L) : \A y \in Transfers \ Placed(L) : ~(order[y] < order[x])
      BY <2>2, FirstOfSet DEF TypeOK
    <3>2. ASSUME NEW y \in incoming[x] PROVE FALSE
      <4>1. y \in goesAfter[x] /\ y \in Transfers \ Placed(L)
        BY <3>1, <3>2 DEF Topological, TypeOK
      <4>2. x \in goesBefore[y]
        BY <3>1, <4>1 DEF EdgesMirrored
      <4>3. order[y] < order[x]
        BY <4>1, <4>2 DEF EdgesForward
      <4> QED
        BY <3>1, <4>1, <4>3
    <3>3. x \in S
      BY <3>1, <3>2 DEF Topological
    <3> QED
      BY <3>3
  <2> QED
    BY <2>1, <2>2
<1> QED
  BY <1>1 DEF Permutation, Placed, Topological

(* The improved sequence replaces the first; it holds each transfer once.  *)
LEMMA FinishImproveStep == IInv /\ FinishImprove => IInv'
<1> SUFFICES ASSUME IInv, FinishImprove PROVE IInv'
  OBVIOUS
<1> USE DEF IInv
<1>1. /\ pc = "improve" /\ S = {}
      /\ UNCHANGED <<idx, inputVars, graphVars, seqVars, stashVars, topoVars>>
  BY DEF FinishImprove
<1>2. Permutation(L)
  BY <1>1, AllPlaced
<1>3. Len(L) = Len(transfers)
  BY <1>1, <1>2, PermutationsAlike DEF OrderIsPlace, Sequenced
<1>4. /\ transfers' = L
      /\ order' = [t \in Transfers |-> Position(L, t)]
      /\ pc' = "sequenced"
  BY <1>3 DEF FinishImprove
<1>5. /\ DOMAIN L = 1..Len(L) /\ Len(L) \in Nat
      /\ \A t \in Transfers : order'[t] \in DOMAIN L /\ L[order'[t]] = t
      /\ \A i \in DOMAIN L : L[i] \in Transfers /\ order'[L[i]] = i
  BY <1>2, <1>4, PositionIsPlace DEF Permutation, Injective
<1>6. TypeOK'
  BY <1>1, <1>2, <1>4, <1>5
  DEF TypeOK, Phases, Permutation, inputVars, graphVars, seqVars, stashVars, topoVars
<1>7. OrderIsPlace'
  BY <1>2, <1>4, <1>5 DEF OrderIsPlace
<1>8. ASSUME NEW t \in Transfers, NEW u \in goesAfter[t]
      PROVE  order'[u] < order'[t]
  <2>1. L[order'[t]] = t /\ order'[t] \in DOMAIN L
    BY <1>5
  <2>2. \E j \in DOMAIN L : j < order'[t] /\ L[j] = u
    BY <1>1, <1>8, <2>1 DEF Topological
  <2> QED
    BY <1>5, <2>2
<1>9. SequenceGood'
  <2>1. ASSUME NEW i \in DOMAIN L, NEW j \in DOMAIN L, i < j
        PROVE  Tgt[L[i]] \cap (src[L[j]] \ Stashed(L[j])) = {}
    <3>1. L[i] \in Transfers /\ L[j] \in Transfers /\ L[i] # L[j]
      BY <1>5, <2>1
    <3>2. L[i] \notin goesBefore[L[j]]
      <4>1. L[i] \in goesBefore[L[j]] => L[j] \in goesAfter[L[i]]
        BY <3>1 DEF EdgesMirrored
      <4> QED
        BY <1>5, <1>8, <2>1, <3>1, <4>1
    <3>3. Covered(L[j], L[i])
      BY <1>1, <3>1, <3>2 DEF ReadsCovered
    <3> QED
      BY <3>3 DEF Covered
  <2>2. src' = src /\ \A t : Stashed(t)' = Stashed(t)
    BY <1>1 DEF Stashed, inputVars, stashVars
  <2> QED
    BY <1>2, <1>4, <2>1, <2>2 DEF SequenceGood, Permutation, Injective
<1>10. StashesMatched'
  <2>1. ASSUME NEW t \in Transfers, NEW s \in useStash[t]
        PROVE  s.def \in goesAfter[t] /\ order'[s.def] < order'[t]
    BY <1>1, <1>8 DEF StashesMatched, Sequenced
  <2> QED
    BY <1>1, <1>4, <2>1 DEF StashesMatched, StashesMade, Sequenced, graphVars, stashVars
<1>11. EdgesMirrored' /\ ReadsCovered'
  BY <1>1 DEF EdgesMirrored, ReadsCovered, Covered, Stashed, graphVars, inputVars, stashVars
<1>12. /\ PartsDisjoint' /\ ResidualGraph' /\ WorkSetsExact' /\ Topological'
       /\ EdgesForward' /\ NoReadAfterWrite'
  BY <1>4, <1>9 DEF PartsDisjoint, ResidualGraph, Peeling, WorkSetsExact, Topological,
                    EdgesForward, NoReadAfterWrite
<1> QED
  BY <1>4, <1>6, <1>7, <1>9, <1>10, <1>11, <1>12

(* The parts are about the variables alone.                                *)
LEMMA StutterStep == IInv /\ UNCHANGED vars => IInv'
<1> SUFFICES ASSUME IInv, UNCHANGED vars PROVE IInv'
  OBVIOUS
<1> USE DEF IInv, vars, listVars, inputVars, graphVars, seqVars, stashVars, topoVars
<1>1. TypeOK'
  BY DEF TypeOK
<1>2. EdgesMirrored' /\ PartsDisjoint' /\ ResidualGraph' /\ WorkSetsExact'
  BY DEF EdgesMirrored, PartsDisjoint, ResidualGraph, Peeling, WorkSetsExact, Bare
<1>3. OrderIsPlace' /\ ReadsCovered' /\ EdgesForward' /\ Topological'
  BY DEF OrderIsPlace, Sequenced, ReadsCovered, Covered, Stashed, EdgesForward, Topological
<1>4. StashesMatched' /\ NoReadAfterWrite'
  BY DEF StashesMatched, StashesMade, Sequenced, NoReadAfterWrite, SequenceGood, Stashed
<1> QED
  BY <1>1, <1>2, <1>3, <1>4

(* One step, whichever it is.                                              *)
LEMMA NextStep == IInv /\ [Next]_vars => IInv'
<1> SUFFICES ASSUME IInv, [Next]_vars PROVE IInv'
  OBVIOUS
<1>1. CASE OrderStep
  BY <1>1, GenerateDigraphStep, CopyEdgesStep, TakeSinkStep, NextSinksStep, TakeSourceStep,
     NextSourcesStep, TakeBestStep, RecordOrderStep, RemoveBackwardEdgesStep,
     ReverseBackwardEdgesStep, EdgesDoneStep, StartImproveStep, PlaceNextStep,
     FinishImproveStep
  DEF OrderStep
<1>2. CASE UNCHANGED vars
  BY <1>2, StutterStep
<1> QED
  BY <1>1, <1>2 DEF Next, Returned

(* The strengthening that the theorems below rest on holds always.         *)
THEOREM InductiveInvariant == Spec => []IInv
BY InitIInv, NextStep, PTL DEF Spec

(* Types.                                                                  *)
THEOREM TypeCorrect == Spec => []TypeOK
<1>1. IInv => TypeOK
  BY DEF IInv
<1> QED
  BY <1>1, InductiveInvariant, PTL

(* The double-check of Compute never fails on what the ordering returns:   *)
(* no transfer reads from the partition what an earlier one has written,   *)
(* and each is run exactly once.                                           *)
THEOREM SequenceIsSafe == Spec => []NoReadAfterWrite
<1>1. IInv => NoReadAfterWrite
  BY DEF IInv
<1> QED
  BY <1>1, InductiveInvariant, PTL

(* The assertion of ImproveVertexSequence never fails: reversing the       *)
(* backward edges leaves a digraph without cycles.                         *)
THEOREM NoCycleLeft == Spec => []NeverAborted
<1>1. IInv => NeverAborted
  BY DEF IInv, NeverAborted
<1> QED
  BY <1>1, InductiveInvariant, PTL

(* Every stash is made before it is used, and used once made.              *)
THEOREM StashesAlwaysPaired == Spec => []StashesPaired
<1>1. IInv => StashesPaired
  BY DEF IInv, StashesMatched, StashesPaired, Sequenced
<1> QED
  BY <1>1, InductiveInvariant, PTL

(* The edge lists describe the graph that is left while it is peeled.      *)
THEOREM ResidualGraphKept == Spec => []ResidualGraph
<1>1. IInv => ResidualGraph
  BY DEF IInv
<1> QED
  BY <1>1, InductiveInvariant, PTL

(* A vertex is only guessed when no real source or sink is left.           *)
THEOREM BestOnlyAsLastResort == Spec => []BestIsLastResort
<1>1. IInv => BestIsLastResort
  BY DEF IInv, WorkSetsExact, Bare, BestIsLastResort
<1> QED
  BY <1>1, InductiveInvariant, PTL

-----------------------------------------------------------------------------
(* The scores of the vertices left.                                        *)

(* Sources are blocks of an image of finite size.                          *)
LEMMA WeightNat ==
    ASSUME src \in [Transfers -> SUBSET Blocks], NEW b \in Transfers, NEW a \in Transfers
    PROVE  Weight(b, a) \in Nat
<1>1. src[b] \cap Tgt[a] \subseteq Blocks
  OBVIOUS
<1>2. Cardinality(src[b] \cap Tgt[a]) \in Nat
  BY <1>1, BlocksAssumption, FS_Subset, FS_CardinalityType
<1> QED
  BY <1>2 DEF Weight

(* The functions that WeightOut and WeightIn add up.                       *)
Outs(b) == [a \in Transfers |-> Weight(b, a)]
Ins(a)  == [b \in Transfers |-> Weight(b, a)]

OutAdder(b, T) ==
    CHOOSE g : g = [U \in SUBSET T |->
                      IF U = {} THEN 0 ELSE Weight(b, Pick(U)) + g[U \ {Pick(U)}]]
InAdder(a, T) ==
    CHOOSE g : g = [U \in SUBSET T |->
                      IF U = {} THEN 0 ELSE Weight(Pick(U), a) + g[U \ {Pick(U)}]]

WeightsAdd ==
    \A v \in Transfers : \A T \in SUBSET Transfers :
       WeightOut(v, T) = SumOver(Outs(v), T) /\ WeightIn(v, T) = SumOver(Ins(v), T)

(* The community fold adds up the same numbers as SumOver.                 *)
LEMMA OutIsSum ==
    \A b \in Transfers : \A T \in SUBSET Transfers : WeightOut(b, T) = SumOver(Outs(b), T)
<1> SUFFICES ASSUME NEW b \in Transfers, NEW T \in SUBSET Transfers
             PROVE  WeightOut(b, T) = SumOver(Outs(b), T)
  OBVIOUS
<1>1. WeightOut(b, T) = OutAdder(b, T)[T]
  BY Zenon DEF WeightOut, MapThenSumSet, MapThenFoldSet, OutAdder, Pick
<1>2. \A U \in SUBSET T : U # {} => Outs(b)[Pick(U)] = Weight(b, Pick(U))
  BY PickIn DEF Outs
<1>3. \A g : Adds(g, Outs(b), SUBSET T)
             <=> g = [U \in SUBSET T |->
                        IF U = {} THEN 0 ELSE Weight(b, Pick(U)) + g[U \ {Pick(U)}]]
  BY <1>2 DEF Adds
<1>4. OutAdder(b, T) = Adder(Outs(b), T)
  BY <1>3 DEF OutAdder, Adder
<1> QED
  BY <1>1, <1>4, SumOverDef

LEMMA InIsSum ==
    \A a \in Transfers : \A T \in SUBSET Transfers : WeightIn(a, T) = SumOver(Ins(a), T)
<1> SUFFICES ASSUME NEW a \in Transfers, NEW T \in SUBSET Transfers
             PROVE  WeightIn(a, T) = SumOver(Ins(a), T)
  OBVIOUS
<1>1. WeightIn(a, T) = InAdder(a, T)[T]
  BY Zenon DEF WeightIn, MapThenSumSet, MapThenFoldSet, InAdder, Pick
<1>2. \A U \in SUBSET T : U # {} => Ins(a)[Pick(U)] = Weight(Pick(U), a)
  BY PickIn DEF Ins
<1>3. \A g : Adds(g, Ins(a), SUBSET T)
             <=> g = [U \in SUBSET T |->
                        IF U = {} THEN 0 ELSE Weight(Pick(U), a) + g[U \ {Pick(U)}]]
  BY <1>2 DEF Adds
<1>4. InAdder(a, T) = Adder(Ins(a), T)
  BY <1>3 DEF InAdder, Adder
<1> QED
  BY <1>1, <1>4, SumOverDef

LEMMA WeightsAreSums == WeightsAdd
BY OutIsSum, InIsSum DEF WeightsAdd

(* This holds of any state, so of the next one.                            *)
LEMMA WeightsAreSumsNext == WeightsAdd'
BY WeightsAreSums, PTL

LEMMA WeightsInt ==
    ASSUME src \in [Transfers -> SUBSET Blocks], NEW v \in Transfers, NEW T \in SUBSET Transfers
    PROVE  WeightOut(v, T) \in Int /\ WeightIn(v, T) \in Int
<1>1. IsFiniteSet(T) /\ \A x \in T : Outs(v)[x] \in Int /\ Ins(v)[x] \in Int
  BY TransfersAssumption, FS_Subset, WeightNat DEF Outs, Ins
<1> HIDE DEF Outs, Ins
<1> QED
  BY <1>1, SumInt, OutIsSum, InIsSum

(* An edge less.                                                           *)
LEMMA WeightsRemove ==
    ASSUME src \in [Transfers -> SUBSET Blocks], NEW v \in Transfers,
           NEW T \in SUBSET Transfers, NEW u \in T
    PROVE  /\ WeightOut(v, T) = Weight(v, u) + WeightOut(v, T \ {u})
           /\ WeightIn(v, T) = Weight(u, v) + WeightIn(v, T \ {u})
<1>1. IsFiniteSet(T) /\ \A x \in T : Outs(v)[x] \in Int /\ Ins(v)[x] \in Int
  BY TransfersAssumption, FS_Subset, WeightNat DEF Outs, Ins
<1>2. T \ {u} \in SUBSET Transfers /\ Outs(v)[u] = Weight(v, u) /\ Ins(v)[u] = Weight(u, v)
  BY DEF Outs, Ins
<1>3. SumOver(Outs(v), T) = Outs(v)[u] + SumOver(Outs(v), T \ {u})
  BY <1>1, SumRemove
<1>4. SumOver(Ins(v), T) = Ins(v)[u] + SumOver(Ins(v), T \ {u})
  BY <1>1, SumRemove
<1> QED
  BY <1>2, <1>3, <1>4, OutIsSum, InIsSum

(* The weights depend on the sources alone.                                *)
LEMMA WeightsSame ==
    src' = src =>
      \A v \in Transfers : \A T \in SUBSET Transfers :
         /\ WeightOut(v, T)' = WeightOut(v, T)
         /\ WeightIn(v, T)' = WeightIn(v, T)
<1> SUFFICES ASSUME src' = src, NEW v \in Transfers, NEW T \in SUBSET Transfers
             PROVE  WeightOut(v, T)' = WeightOut(v, T) /\ WeightIn(v, T)' = WeightIn(v, T)
  OBVIOUS
<1>1. Outs(v)' = Outs(v) /\ Ins(v)' = Ins(v)
  BY DEF Outs, Ins, Weight
<1>2. WeightOut(v, T)' = SumOver(Outs(v)', T) /\ WeightIn(v, T)' = SumOver(Ins(v)', T)
  BY WeightsAreSumsNext DEF WeightsAdd
<1> QED
  BY <1>1, <1>2, WeightsAreSums DEF WeightsAdd

(* In the residual graph the neighbours of u are those that know u.        *)
LEMMA Neighbours ==
    ASSUME IInv, Peeling, NEW u \in G, NEW v \in G
    PROVE  /\ u \in goesBefore[v] <=> v \in incoming[u]
           /\ u \in goesAfter[v] <=> v \in outgoing[u]
<1>1. outgoing[u] = goesBefore[u] \cap G /\ incoming[u] = goesAfter[u] \cap G
  BY DEF IInv, ResidualGraph
<1>2. u \in Transfers /\ v \in Transfers
  BY DEF IInv, TypeOK
<1> QED
  BY <1>1, <1>2 DEF IInv, EdgesMirrored

(* A step that takes no vertex out leaves the scores right.                *)
LEMMA ScoreKept ==
    ASSUME IInv, ScoreExact, Peeling,
           UNCHANGED <<src, goesBefore, goesAfter, G, score>>
    PROVE  ScoreExact'
<1> SUFFICES ASSUME NEW v \in G
             PROVE  score[v] = (WeightOut(v, goesBefore[v] \cap G)
                                  - WeightIn(v, goesAfter[v] \cap G))'
  BY DEF ScoreExact
<1>1. PICK A, B : A = goesBefore[v] \cap G /\ B = goesAfter[v] \cap G
  OBVIOUS
<1>2. A \in SUBSET Transfers /\ B \in SUBSET Transfers /\ v \in Transfers
      /\ goesBefore'[v] \cap G' = A /\ goesAfter'[v] \cap G' = B
  BY <1>1 DEF IInv, TypeOK
<1>3. WeightOut(v, A)' = WeightOut(v, A) /\ WeightIn(v, B)' = WeightIn(v, B)
  BY <1>2, WeightsSame
<1>4. (WeightOut(v, goesBefore[v] \cap G))' = WeightOut(v, A)'
      /\ (WeightIn(v, goesAfter[v] \cap G))' = WeightIn(v, B)'
  BY <1>2 DEF WeightOut, WeightIn
<1>5. score[v] = WeightOut(v, A) - WeightIn(v, B)
  BY <1>1 DEF ScoreExact
<1> QED
  BY <1>3, <1>4, <1>5

(* Taking u out of the graph costs each neighbour the weight of its edge.  *)
LEMMA ScoreStep ==
    ASSUME IInv, ScoreExact, Peeling, src' = src, UNCHANGED graphVars,
           NEW u \in G, G' = G \ {u},
           \A v \in G' : score'[v] = (score[v] - (IF u \in goesBefore[v] THEN Weight(v, u) ELSE 0))
                                       + (IF u \in goesAfter[v] THEN Weight(u, v) ELSE 0)
    PROVE  ScoreExact'
<1> SUFFICES ASSUME NEW v \in G'
             PROVE  score'[v] = (WeightOut(v, goesBefore[v] \cap G)
                                   - WeightIn(v, goesAfter[v] \cap G))'
  BY DEF ScoreExact
<1> DEFINE A == goesBefore[v] \cap G
           B == goesAfter[v] \cap G
<1>1. /\ src \in [Transfers -> SUBSET Blocks] /\ v \in Transfers /\ u \in Transfers /\ v \in G
      /\ A \in SUBSET Transfers /\ B \in SUBSET Transfers
  BY DEF IInv, TypeOK
<1>2. score[v] = WeightOut(v, A) - WeightIn(v, B)
  BY <1>1 DEF ScoreExact
<1>3. goesBefore'[v] \cap G' = A \ {u} /\ goesAfter'[v] \cap G' = B \ {u}
  BY DEF graphVars
<1>4. /\ (WeightOut(v, goesBefore[v] \cap G))' = WeightOut(v, A \ {u})
      /\ (WeightIn(v, goesAfter[v] \cap G))' = WeightIn(v, B \ {u})
  <2>1. A \ {u} \in SUBSET Transfers /\ B \ {u} \in SUBSET Transfers
    BY <1>1
  <2>2. PICK A1, B1 : A1 = A \ {u} /\ B1 = B \ {u}
    OBVIOUS
  <2>3. WeightOut(v, A1)' = WeightOut(v, A1) /\ WeightIn(v, B1)' = WeightIn(v, B1)
    BY <1>1, <2>1, <2>2, WeightsSame
  <2>4. (WeightOut(v, goesBefore[v] \cap G))' = WeightOut(v, A1)'
        /\ (WeightIn(v, goesAfter[v] \cap G))' = WeightIn(v, B1)'
    BY <1>3, <2>2 DEF WeightOut, WeightIn
  <2> QED
    BY <2>2, <2>3, <2>4
<1> HIDE DEF A, B
<1>5. WeightOut(v, A) = (IF u \in A THEN Weight(v, u) ELSE 0) + WeightOut(v, A \ {u})
  <2>1. CASE u \in A
    BY <1>1, <2>1, WeightsRemove
  <2>2. CASE u \notin A
    <3>1. A \ {u} = A
      BY <2>2
    <3>2. WeightOut(v, A) \in Int /\ WeightOut(v, A \ {u}) = WeightOut(v, A)
      BY Zenon, <1>1, <3>1, WeightsInt
    <3> QED
      BY <2>2, <3>2
  <2> QED
    BY <2>1, <2>2
<1>6. WeightIn(v, B) = (IF u \in B THEN Weight(u, v) ELSE 0) + WeightIn(v, B \ {u})
  <2>1. CASE u \in B
    BY <1>1, <2>1, WeightsRemove
  <2>2. CASE u \notin B
    <3>1. B \ {u} = B
      BY <2>2
    <3>2. WeightIn(v, B) \in Int /\ WeightIn(v, B \ {u}) = WeightIn(v, B)
      BY Zenon, <1>1, <3>1, WeightsInt
    <3> QED
      BY <2>2, <3>2
  <2> QED
    BY <2>1, <2>2
<1>7. (u \in A <=> u \in goesBefore[v]) /\ (u \in B <=> u \in goesAfter[v])
  BY DEF A, B
<1>8. /\ WeightOut(v, A \ {u}) \in Int /\ WeightIn(v, B \ {u}) \in Int
      /\ Weight(v, u) \in Int /\ Weight(u, v) \in Int
  <2>1. A \ {u} \in SUBSET Transfers /\ B \ {u} \in SUBSET Transfers
    BY <1>1
  <2> QED
    BY <1>1, <2>1, WeightsInt, WeightNat
<1>9. score'[v] = WeightOut(v, A \ {u}) - WeightIn(v, B \ {u})
  BY <1>2, <1>5, <1>6, <1>7, <1>8
<1> QED
  BY <1>4, <1>9

LEMMA ScoreInt ==
    ASSUME IInv, ScoreExact, Peeling, NEW v \in G
    PROVE  score[v] \in Int
<1>1. v \in Transfers /\ goesBefore[v] \cap G \in SUBSET Transfers
      /\ goesAfter[v] \cap G \in SUBSET Transfers /\ src \in [Transfers -> SUBSET Blocks]
  BY DEF IInv, TypeOK
<1>2. WeightOut(v, goesBefore[v] \cap G) \in Int /\ WeightIn(v, goesAfter[v] \cap G) \in Int
  BY <1>1, WeightsInt
<1> QED
  BY <1>2 DEF ScoreExact

-----------------------------------------------------------------------------
(* What the peeling promises, on top of IInv: again a lemma per action.    *)

LEMMA PeelInit == Init => PeelInv
BY DEF Init, PeelInv, ScoreExact, Peeling, EdgesOverlap, PeeledInOrder, Placing, AcyclicIsFree

LEMMA PeelGenerateDigraph == IInv /\ PeelInv /\ GenerateDigraph => PeelInv'
<1> SUFFICES ASSUME IInv, GenerateDigraph PROVE PeelInv'
  OBVIOUS
<1> USE DEF GenerateDigraph
<1>1. EdgesOverlap'
  BY DEF EdgesOverlap, Placing, inputVars
<1> QED
  BY <1>1 DEF PeelInv, ScoreExact, Peeling, PeeledInOrder, Placing, AcyclicIsFree

LEMMA PeelCopyEdges == IInv /\ PeelInv /\ CopyEdges => PeelInv'
<1> SUFFICES ASSUME IInv, PeelInv, CopyEdges PROVE PeelInv'
  OBVIOUS
<1>1. /\ pc = "copy" /\ pc' = "sinks" /\ G' = Transfers /\ UNCHANGED <<src, goesBefore, goesAfter>>
      /\ s1' = <<>> /\ s2' = <<>>
      /\ score' = [t \in Transfers |-> WeightOut(t, goesBefore[t]) - WeightIn(t, goesAfter[t])]
  BY DEF CopyEdges, inputVars, graphVars, IInv, PartsDisjoint
<1>2. ScoreExact'
  <2> SUFFICES ASSUME NEW v \in Transfers
               PROVE  score'[v] = (WeightOut(v, goesBefore[v] \cap G)
                                     - WeightIn(v, goesAfter[v] \cap G))'
    BY <1>1 DEF ScoreExact
  <2>1. PICK A, B : A = goesBefore[v] /\ B = goesAfter[v]
    OBVIOUS
  <2>2. /\ A \in SUBSET Transfers /\ B \in SUBSET Transfers
        /\ goesBefore'[v] \cap G' = A /\ goesAfter'[v] \cap G' = B
    BY <1>1, <2>1 DEF IInv, TypeOK
  <2>3. WeightOut(v, A)' = WeightOut(v, A) /\ WeightIn(v, B)' = WeightIn(v, B)
    BY <1>1, <2>2, WeightsSame
  <2>4. (WeightOut(v, goesBefore[v] \cap G))' = WeightOut(v, A)'
        /\ (WeightIn(v, goesAfter[v] \cap G))' = WeightIn(v, B)'
    BY <2>2 DEF WeightOut, WeightIn
  <2> QED
    BY <1>1, <2>1, <2>3, <2>4
<1>3. EdgesOverlap'
  BY <1>1 DEF PeelInv, EdgesOverlap, Placing
<1>4. PeeledInOrder'
  BY <1>1 DEF PeeledInOrder
<1> QED
  BY <1>1, <1>2, <1>3, <1>4 DEF PeelInv, AcyclicIsFree

LEMMA PeelTakeSink == IInv /\ PeelInv /\ TakeSink => PeelInv'
<1> SUFFICES ASSUME IInv, PeelInv, TakeSink PROVE PeelInv'
  OBVIOUS
<1>1. /\ pc = "sinks" /\ pc' = "sinks"
      /\ UNCHANGED <<graphVars, src, goesBefore, goesAfter, order, s1, idx>>
  BY DEF TakeSink, graphVars, inputVars, listVars
<1>2. EdgesOverlap' /\ AcyclicIsFree'
  BY <1>1 DEF PeelInv, EdgesOverlap, Placing, AcyclicIsFree
<1>3. Acyclic(goesBefore)' = Acyclic(goesBefore)
  BY <1>1 DEF Acyclic
<1>4. PICK u \in sinks :
        \/ u \notin G /\ UNCHANGED <<G, s2, score>>
        \/ /\ u \in G
           /\ s2' = <<u>> \o s2
           /\ G' = G \ {u}
           /\ score' = LoseOut(score, incoming[u], u)
  BY DEF TakeSink
<1>5. CASE u \notin G
  <2>1. UNCHANGED <<G, s2, score>>
    BY <1>4, <1>5
  <2>2. ScoreExact'
    BY <1>1, <2>1, ScoreKept DEF PeelInv, Peeling
  <2>3. PeeledInOrder'
    BY <1>1, <1>3, <2>1 DEF PeelInv, PeeledInOrder
  <2> QED
    BY <1>2, <2>2, <2>3 DEF PeelInv
<1>6. CASE u \in G
  <2>1. s2' = <<u>> \o s2 /\ G' = G \ {u} /\ score' = LoseOut(score, incoming[u], u)
    BY <1>4, <1>6
  <2>2. outgoing[u] = {} /\ goesBefore[u] \cap G = {} /\ u \in Transfers /\ u \notin goesBefore[u]
    BY <1>1, <1>4, <1>6
    DEF IInv, TypeOK, WorkSetsExact, Bare, ResidualGraph, Peeling, EdgesMirrored
  <2>3. ScoreExact'
    <3>1. \A v \in G : v \notin outgoing[u] /\ (u \in goesBefore[v] <=> v \in incoming[u])
                       /\ u \notin goesAfter[v]
      BY <1>1, <1>6, <2>2, Neighbours DEF Peeling
    <3>2. \A v \in G' : /\ v \in G /\ v \in Transfers /\ Weight(v, u) \in Int /\ score[v] \in Int
      <4> TAKE v \in G'
      <4>1. v \in G /\ v \in Transfers /\ src \in [Transfers -> SUBSET Blocks]
        BY <2>1 DEF IInv, TypeOK
      <4> QED
        BY <1>1, <2>2, <4>1, WeightNat, ScoreInt DEF PeelInv, Peeling
    <3>3. \A v \in G' : score'[v] = (score[v] - (IF u \in goesBefore[v] THEN Weight(v, u) ELSE 0))
                                      + (IF u \in goesAfter[v] THEN Weight(u, v) ELSE 0)
      BY <2>1, <3>1, <3>2 DEF LoseOut
    <3> QED
      BY <1>1, <1>6, <2>1, <3>3, ScoreStep DEF PeelInv, Peeling
  <2>4. PeeledInOrder'
    <3> SUFFICES ASSUME Acyclic(goesBefore)
                 PROVE  /\ \A i \in DOMAIN s1 : \A t \in goesAfter[s1[i]] :
                              \E j \in DOMAIN s1 : j < i /\ s1[j] = t
                        /\ \A i \in DOMAIN s2' : \A t \in goesBefore[s2'[i]] :
                              \E j \in DOMAIN s2' : i < j /\ s2'[j] = t
      BY <1>1, <1>3 DEF PeeledInOrder, Placing
    <3>1. /\ \A i \in DOMAIN s1 : \A t \in goesAfter[s1[i]] : \E j \in DOMAIN s1 : j < i /\ s1[j] = t
          /\ \A i \in DOMAIN s2 : \A t \in goesBefore[s2[i]] : \E j \in DOMAIN s2 : i < j /\ s2[j] = t
      BY <1>1 DEF PeelInv, PeeledInOrder, Placing
    <3>2. /\ Len(s2') = Len(s2) + 1 /\ s2'[1] = u
          /\ \A i \in 2..(Len(s2) + 1) : s2'[i] = s2[i - 1]
          /\ DOMAIN s2' = 1..(Len(s2) + 1) /\ DOMAIN s2 = 1..Len(s2) /\ Len(s2) \in Nat
      BY <2>1, <2>2 DEF IInv, TypeOK
    <3>3. goesBefore[u] \subseteq Placed(s2)
      <4> SUFFICES ASSUME NEW t \in goesBefore[u], t \notin Placed(s2) PROVE FALSE
        OBVIOUS
      <4>1. t \in Transfers /\ t \in Placed(s1)
        BY <1>1, <2>2 DEF IInv, TypeOK, PartsDisjoint
      <4>2. u \in goesAfter[t]
        BY <2>2, <4>1 DEF IInv, EdgesMirrored
      <4>3. u \in Placed(s1)
        BY <3>1, <4>1, <4>2 DEF Placed
      <4> QED
        BY <1>1, <1>6, <4>3 DEF IInv, PartsDisjoint
    <3>4. ASSUME NEW i \in DOMAIN s2', NEW t \in goesBefore[s2'[i]]
          PROVE  \E j \in DOMAIN s2' : i < j /\ s2'[j] = t
      <4>1. PICK k \in DOMAIN s2 : s2[k] = t /\ i < k + 1
        <5>1. CASE i = 1
          <6>1. t \in Placed(s2)
            BY <3>2, <3>3, <3>4, <5>1
          <6> QED
            BY <3>2, <5>1, <6>1 DEF Placed
        <5>2. CASE i # 1
          <6>1. i - 1 \in DOMAIN s2 /\ s2'[i] = s2[i - 1] /\ i \in Nat
            BY <3>2, <5>2
          <6>2. PICK k \in DOMAIN s2 : i - 1 < k /\ s2[k] = t
            BY <3>1, <3>4, <6>1
          <6> QED
            BY <3>2, <6>1, <6>2
        <5> QED
          BY <5>1, <5>2
      <4>2. k + 1 \in DOMAIN s2' /\ s2'[k + 1] = t
        BY <3>2, <4>1
      <4> QED
        BY <4>1, <4>2
    <3> QED
      BY <3>1, <3>4
  <2> QED
    BY <1>2, <2>3, <2>4 DEF PeelInv
<1> QED
  BY <1>5, <1>6

LEMMA PeelNextSinks == IInv /\ PeelInv /\ NextSinks => PeelInv'
<1> SUFFICES ASSUME IInv, PeelInv, NextSinks PROVE PeelInv'
  OBVIOUS
<1>1. /\ pc = "sinks" /\ pc' \in {"sinks", "sources"}
      /\ UNCHANGED <<graphVars, src, goesBefore, goesAfter, order, s1, s2, idx, G, score>>
  BY DEF NextSinks, graphVars, inputVars, listVars
<1>2. ScoreExact'
  BY <1>1, ScoreKept DEF PeelInv, Peeling
<1>3. Acyclic(goesBefore)' = Acyclic(goesBefore)
  BY <1>1 DEF Acyclic
<1> QED
  BY <1>1, <1>2, <1>3 DEF PeelInv, EdgesOverlap, Placing, AcyclicIsFree, PeeledInOrder

LEMMA PeelTakeSource == IInv /\ PeelInv /\ TakeSource => PeelInv'
<1> SUFFICES ASSUME IInv, PeelInv, TakeSource PROVE PeelInv'
  OBVIOUS
<1>1. /\ pc = "sources" /\ pc' = "sources"
      /\ UNCHANGED <<graphVars, src, goesBefore, goesAfter, order, s2, idx>>
  BY DEF TakeSource, graphVars, inputVars, listVars
<1>2. EdgesOverlap' /\ AcyclicIsFree'
  BY <1>1 DEF PeelInv, EdgesOverlap, Placing, AcyclicIsFree
<1>3. Acyclic(goesBefore)' = Acyclic(goesBefore)
  BY <1>1 DEF Acyclic
<1>4. PICK u \in sources :
        \/ u \notin G /\ UNCHANGED <<G, s1, score>>
        \/ /\ u \in G
           /\ s1' = Append(s1, u)
           /\ G' = G \ {u}
           /\ score' = LoseIn(score, outgoing[u], u)
  BY DEF TakeSource
<1>5. CASE u \notin G
  <2>1. UNCHANGED <<G, s1, score>>
    BY <1>4, <1>5
  <2>2. ScoreExact'
    BY <1>1, <2>1, ScoreKept DEF PeelInv, Peeling
  <2>3. PeeledInOrder'
    BY <1>1, <1>3, <2>1 DEF PeelInv, PeeledInOrder
  <2> QED
    BY <1>2, <2>2, <2>3 DEF PeelInv
<1>6. CASE u \in G
  <2>1. s1' = Append(s1, u) /\ G' = G \ {u} /\ score' = LoseIn(score, outgoing[u], u)
    BY <1>4, <1>6
  <2>2. incoming[u] = {} /\ goesAfter[u] \cap G = {} /\ u \in Transfers /\ u \notin goesAfter[u]
    BY <1>1, <1>4, <1>6
    DEF IInv, TypeOK, WorkSetsExact, Bare, ResidualGraph, Peeling, EdgesMirrored
  <2>3. ScoreExact'
    <3>1. \A v \in G : v \notin incoming[u] /\ (u \in goesAfter[v] <=> v \in outgoing[u])
                       /\ u \notin goesBefore[v]
      BY <1>1, <1>6, <2>2, Neighbours DEF Peeling
    <3>2. \A v \in G' : /\ v \in G /\ v \in Transfers /\ Weight(u, v) \in Int /\ score[v] \in Int
      <4> TAKE v \in G'
      <4>1. v \in G /\ v \in Transfers /\ src \in [Transfers -> SUBSET Blocks]
        BY <2>1 DEF IInv, TypeOK
      <4> QED
        BY <1>1, <2>2, <4>1, WeightNat, ScoreInt DEF PeelInv, Peeling
    <3>3. \A v \in G' : score'[v] = (score[v] - (IF u \in goesBefore[v] THEN Weight(v, u) ELSE 0))
                                      + (IF u \in goesAfter[v] THEN Weight(u, v) ELSE 0)
      BY <2>1, <3>1, <3>2 DEF LoseIn
    <3> QED
      BY <1>1, <1>6, <2>1, <3>3, ScoreStep DEF PeelInv, Peeling
  <2>4. PeeledInOrder'
    <3> SUFFICES ASSUME Acyclic(goesBefore)
                 PROVE  /\ \A i \in DOMAIN s1' : \A t \in goesAfter[s1'[i]] :
                              \E j \in DOMAIN s1' : j < i /\ s1'[j] = t
                        /\ \A i \in DOMAIN s2 : \A t \in goesBefore[s2[i]] :
                              \E j \in DOMAIN s2 : i < j /\ s2[j] = t
      BY <1>1, <1>3 DEF PeeledInOrder, Placing
    <3>1. /\ \A i \in DOMAIN s1 : \A t \in goesAfter[s1[i]] : \E j \in DOMAIN s1 : j < i /\ s1[j] = t
          /\ \A i \in DOMAIN s2 : \A t \in goesBefore[s2[i]] : \E j \in DOMAIN s2 : i < j /\ s2[j] = t
      BY <1>1 DEF PeelInv, PeeledInOrder, Placing
    <3>2. /\ Len(s1') = Len(s1) + 1 /\ s1'[Len(s1) + 1] = u
          /\ \A i \in 1..Len(s1) : s1'[i] = s1[i]
          /\ DOMAIN s1' = 1..(Len(s1) + 1) /\ DOMAIN s1 = 1..Len(s1) /\ Len(s1) \in Nat
      BY <2>1, <2>2 DEF IInv, TypeOK
    <3>3. goesAfter[u] \subseteq Placed(s1)
      <4> SUFFICES ASSUME NEW t \in goesAfter[u], t \notin Placed(s1) PROVE FALSE
        OBVIOUS
      <4>1. t \in Transfers /\ t \in Placed(s2)
        BY <1>1, <2>2 DEF IInv, TypeOK, PartsDisjoint
      <4>2. u \in goesBefore[t]
        BY <2>2, <4>1 DEF IInv, EdgesMirrored
      <4>3. u \in Placed(s2)
        BY <3>1, <4>1, <4>2 DEF Placed
      <4> QED
        BY <1>1, <1>6, <4>3 DEF IInv, PartsDisjoint
    <3>4. ASSUME NEW i \in DOMAIN s1', NEW t \in goesAfter[s1'[i]]
          PROVE  \E j \in DOMAIN s1' : j < i /\ s1'[j] = t
      <4>1. PICK k \in DOMAIN s1 : s1[k] = t /\ k < i
        <5>1. CASE i = Len(s1) + 1
          <6>1. t \in Placed(s1)
            BY <3>2, <3>3, <3>4, <5>1
          <6> QED
            BY <3>2, <5>1, <6>1 DEF Placed
        <5>2. CASE i # Len(s1) + 1
          <6>1. i \in DOMAIN s1 /\ s1'[i] = s1[i]
            BY <3>2, <5>2
          <6> QED
            BY <3>1, <3>4, <6>1
        <5> QED
          BY <5>1, <5>2
      <4> QED
        BY <3>2, <4>1
    <3> QED
      BY <3>1, <3>4
  <2> QED
    BY <1>2, <2>3, <2>4 DEF PeelInv
<1> QED
  BY <1>5, <1>6

(* An acyclic digraph that has vertices left has a sink among them.        *)
LEMMA PeelNextSources == IInv /\ PeelInv /\ NextSources => PeelInv'
<1> SUFFICES ASSUME IInv, PeelInv, NextSources PROVE PeelInv'
  OBVIOUS
<1>1. /\ pc = "sources" /\ pc' \in {"sources", "best", "record"} /\ (pc' = "best" => G # {})
      /\ UNCHANGED <<graphVars, src, goesBefore, goesAfter, order, s1, s2, idx, G, score>>
  BY DEF NextSources, graphVars, inputVars, listVars
<1>2. ScoreExact'
  <2>1. ScoreExact /\ Peeling
    BY <1>1 DEF PeelInv, Peeling
  <2> QED
    BY <1>1, <2>1, ScoreKept
<1>3. Acyclic(goesBefore)' = Acyclic(goesBefore)
  BY <1>1 DEF Acyclic
<1>4. Acyclic(goesBefore) => pc' # "best"
  <2> SUFFICES ASSUME Acyclic(goesBefore), G # {} PROVE FALSE
    BY <1>1
  <2>1. PICK t \in G : goesBefore[t] \cap G = {}
    BY DEF Acyclic, IInv, TypeOK
  <2>2. outgoing[t] = {}
    BY <1>1, <2>1 DEF IInv, ResidualGraph, Peeling
  <2> QED
    BY <1>1, <2>1, <2>2 DEF IInv, WorkSetsExact, Bare
<1>5. PeeledInOrder'
  BY <1>1, <1>3, <1>4 DEF PeelInv, PeeledInOrder, Placing
<1> QED
  BY <1>1, <1>2, <1>5 DEF PeelInv, EdgesOverlap, Placing, AcyclicIsFree

LEMMA PeelTakeBest == IInv /\ PeelInv /\ TakeBest => PeelInv'
<1> SUFFICES ASSUME IInv, PeelInv, TakeBest PROVE PeelInv'
  OBVIOUS
<1>1. /\ pc = "best" /\ pc' = "sinks"
      /\ UNCHANGED <<graphVars, src, goesBefore, goesAfter, order, s2, idx>>
  BY DEF TakeBest, graphVars, inputVars, listVars
<1>2. EdgesOverlap' /\ AcyclicIsFree'
  BY <1>1 DEF PeelInv, EdgesOverlap, Placing, AcyclicIsFree
<1>3. PeeledInOrder'
  <2>1. Acyclic(goesBefore)' = Acyclic(goesBefore)
    BY <1>1 DEF Acyclic
  <2> QED
    BY <1>1, <2>1 DEF PeelInv, PeeledInOrder, Placing
<1>4. PICK u \in G :
        /\ G' = G \ {u}
        /\ score' = LoseOut(LoseIn(score, outgoing[u], u), incoming[u], u)
  BY DEF TakeBest
<1>5. u \in Transfers
  BY DEF IInv, TypeOK
<1>6. \A v \in G : /\ u \in goesBefore[v] <=> v \in incoming[u]
                   /\ u \in goesAfter[v] <=> v \in outgoing[u]
  BY <1>1, Neighbours DEF Peeling
<1>7. \A v \in G' : /\ v \in G /\ v \in Transfers
                    /\ Weight(u, v) \in Int /\ Weight(v, u) \in Int /\ score[v] \in Int
  <2> TAKE v \in G'
  <2>1. v \in G /\ v \in Transfers /\ src \in [Transfers -> SUBSET Blocks]
    BY <1>4 DEF IInv, TypeOK
  <2> QED
    BY <1>1, <1>5, <2>1, WeightNat, ScoreInt DEF PeelInv, Peeling
<1>8. \A v \in G' : score'[v] = (score[v] - (IF u \in goesBefore[v] THEN Weight(v, u) ELSE 0))
                                  + (IF u \in goesAfter[v] THEN Weight(u, v) ELSE 0)
  BY <1>4, <1>6, <1>7 DEF LoseIn, LoseOut
<1>9. ScoreExact'
  BY <1>1, <1>4, <1>8, ScoreStep DEF PeelInv, Peeling
<1> QED
  BY <1>2, <1>3, <1>9 DEF PeelInv

(* Peeled in order, the sequence of an acyclic digraph has no edge that    *)
(* points back.                                                            *)
LEMMA PeelRecordOrder == IInv /\ IInv' /\ PeelInv /\ RecordOrder => PeelInv'
<1> SUFFICES ASSUME IInv, IInv', PeelInv, RecordOrder PROVE PeelInv'
  OBVIOUS
<1>1. /\ pc = "record" /\ pc' = "edges" /\ idx' = 1 /\ G = {}
      /\ transfers' = s1 \o s2
      /\ UNCHANGED <<src, goesBefore, goesAfter>>
      /\ s1 \in Seq(Transfers) /\ s2 \in Seq(Transfers)
  BY DEF RecordOrder, Sequence, inputVars, graphVars, IInv, PartsDisjoint, TypeOK
<1>2. /\ \A i \in 1..Len(s1) : transfers'[i] = s1[i]
      /\ \A i \in 1..Len(s2) : transfers'[i + Len(s1)] = s2[i]
      /\ DOMAIN transfers' = 1..(Len(s1) + Len(s2)) /\ Len(s1) \in Nat /\ Len(s2) \in Nat
      /\ DOMAIN s1 = 1..Len(s1) /\ DOMAIN s2 = 1..Len(s2)
  BY <1>1
<1>3. /\ Permutation(transfers')
      /\ \A t \in Transfers : order'[t] \in DOMAIN transfers' /\ transfers'[order'[t]] = t
  BY <1>1 DEF IInv, OrderIsPlace, Sequenced
<1>4. /\ \A i \in DOMAIN s1 : s1[i] \in Transfers /\ order'[s1[i]] = i
      /\ \A i \in DOMAIN s2 : s2[i] \in Transfers /\ order'[s2[i]] = i + Len(s1)
  <2>1. ASSUME NEW k \in DOMAIN transfers'
        PROVE  transfers'[k] \in Transfers /\ order'[transfers'[k]] = k
    BY <1>3, <2>1 DEF Permutation, Injective
  <2>2. \A i \in DOMAIN s1 : i \in DOMAIN transfers'
    BY <1>2
  <2>3. \A i \in DOMAIN s2 : i + Len(s1) \in DOMAIN transfers'
    BY <1>2
  <2> QED
    BY <1>2, <2>1, <2>2, <2>3
<1>5. EdgesOverlap'
  BY <1>1 DEF PeelInv, EdgesOverlap, Placing
<1>6. AcyclicIsFree'
  <2> SUFFICES ASSUME Acyclic(goesBefore)', NEW x \in Transfers, NEW u \in goesBefore[x]
               PROVE  order'[x] < order'[u]
    BY <1>1 DEF AcyclicIsFree, Violated
  <2>1. Acyclic(goesBefore)
    BY <1>1 DEF Acyclic
  <2>2. /\ \A i \in DOMAIN s1 : \A t \in goesAfter[s1[i]] : \E j \in DOMAIN s1 : j < i /\ s1[j] = t
        /\ \A i \in DOMAIN s2 : \A t \in goesBefore[s2[i]] : \E j \in DOMAIN s2 : i < j /\ s2[j] = t
    BY <1>1, <2>1 DEF PeelInv, PeeledInOrder, Placing
  <2>3. u \in Transfers /\ x \in goesAfter[u]
    BY DEF IInv, TypeOK, EdgesMirrored
  <2>4. Placed(s1) \cup Placed(s2) = Transfers
    BY <1>1 DEF IInv, PartsDisjoint
  <2>5. CASE x \in Placed(s2)
    <3>1. PICK i \in DOMAIN s2 : s2[i] = x
      BY <2>5 DEF Placed
    <3>2. PICK j \in DOMAIN s2 : i < j /\ s2[j] = u
      BY <2>2, <3>1
    <3> QED
      BY <1>2, <1>4, <3>1, <3>2
  <2>6. CASE u \in Placed(s1)
    <3>1. PICK i \in DOMAIN s1 : s1[i] = u
      BY <2>6 DEF Placed
    <3>2. PICK j \in DOMAIN s1 : j < i /\ s1[j] = x
      BY <2>2, <2>3, <3>1
    <3> QED
      BY <1>2, <1>4, <3>1, <3>2
  <2>7. CASE x \in Placed(s1) /\ u \in Placed(s2)
    <3>1. PICK i \in DOMAIN s1, j \in DOMAIN s2 : s1[i] = x /\ s2[j] = u
      BY <2>7 DEF Placed
    <3> QED
      BY <1>2, <1>4, <3>1
  <2> QED
    BY <2>3, <2>4, <2>5, <2>6, <2>7
<1> QED
  BY <1>1, <1>5, <1>6 DEF PeelInv, ScoreExact, Peeling, PeeledInOrder, Placing

LEMMA PeelRemoveBackwardEdges == IInv /\ PeelInv /\ RemoveBackwardEdges => PeelInv'
<1> SUFFICES ASSUME IInv, PeelInv, RemoveBackwardEdges PROVE PeelInv'
  OBVIOUS
<1>1. PICK xf : xf = transfers[idx]
  OBVIOUS
<1>2. /\ pc = "edges" /\ idx \in DOMAIN transfers /\ idx' = idx + 1
      /\ UNCHANGED <<pc, order, goesBefore>>
      /\ \A t \in Transfers \ {xf} : src'[t] = src[t]
  BY <1>1 DEF RemoveBackwardEdges, listVars, graphVars, IInv, TypeOK
<1>3. /\ xf \in Transfers /\ order[xf] = idx
      /\ \A t \in Transfers : order[t] \in Nat
      /\ idx \in Nat /\ idx >= 1
  BY <1>1, <1>2, CurrentTransfer DEF IInv, EdgesForward
<1>4. EdgesOverlap'
  <2> SUFFICES ASSUME NEW x \in Transfers, idx + 1 <= order[x], NEW u \in goesBefore[x]
               PROVE  order[x] < order[u] \/ src'[x] \cap Tgt[u] # {}
    BY <1>2 DEF EdgesOverlap, Placing
  <2>1. idx <= order[x] /\ x # xf
    BY <1>3
  <2> QED
    BY <1>2, <2>1 DEF PeelInv, EdgesOverlap
<1> QED
  BY <1>2, <1>3, <1>4 DEF PeelInv, ScoreExact, Peeling, PeeledInOrder, Placing, AcyclicIsFree

LEMMA PeelReverseBackwardEdges == IInv /\ PeelInv /\ ReverseBackwardEdges => PeelInv'
<1> SUFFICES ASSUME IInv, PeelInv, ReverseBackwardEdges PROVE PeelInv'
  OBVIOUS
<1>1. PICK xf, B : xf = transfers[idx] /\ B = Violated(xf)
  OBVIOUS
<1>2. /\ pc = "edges" /\ idx \in DOMAIN transfers /\ idx' = idx + 1
      /\ UNCHANGED <<pc, order, src>>
      /\ goesBefore' = MoveEdges(goesBefore, xf, B)
  BY <1>1 DEF ReverseBackwardEdges, listVars, inputVars
<1>3. /\ xf \in Transfers /\ order[xf] = idx
      /\ \A t \in Transfers : order[t] = idx => t = xf
      /\ \A t \in Transfers : order[t] \in Nat
      /\ idx \in Nat /\ idx >= 1
  BY <1>1, <1>2, CurrentTransfer DEF IInv, EdgesForward
<1>4. EdgesOverlap'
  <2> SUFFICES ASSUME NEW x \in Transfers, idx + 1 <= order[x], NEW u \in goesBefore'[x]
               PROVE  order[x] < order[u] \/ src[x] \cap Tgt[u] # {}
    BY <1>2 DEF EdgesOverlap, Placing
  <2>1. idx <= order[x] /\ x # xf
    BY <1>3
  <2>2. x \notin B
    BY <1>1, <1>3 DEF Violated
  <2>3. u \in goesBefore[x]
    BY <1>2, <2>1, <2>2 DEF MoveEdges
  <2> QED
    BY <1>2, <2>1, <2>3 DEF PeelInv, EdgesOverlap
<1> QED
  BY <1>2, <1>3, <1>4 DEF PeelInv, ScoreExact, Peeling, PeeledInOrder, Placing, AcyclicIsFree

(* After the loop over the edges there is nothing left to say.             *)
LEMMA PeelLater ==
    PeelInv /\ (EdgesDone \/ StartImprove \/ PlaceNext \/ FinishImprove) => PeelInv'
<1> SUFFICES ASSUME EdgesDone \/ StartImprove \/ PlaceNext \/ FinishImprove PROVE PeelInv'
  OBVIOUS
<1>1. pc' \in {"sequenced", "toposort", "improve", "aborted"}
  BY DEF EdgesDone, StartImprove, PlaceNext, FinishImprove
<1> QED
  BY <1>1 DEF PeelInv, ScoreExact, Peeling, EdgesOverlap, PeeledInOrder, Placing, AcyclicIsFree

LEMMA PeelStutter == IInv /\ PeelInv /\ UNCHANGED vars => PeelInv'
<1> SUFFICES ASSUME IInv, PeelInv, UNCHANGED vars PROVE PeelInv'
  OBVIOUS
<1> USE DEF PeelInv, vars, listVars, inputVars, graphVars, seqVars
<1>1. ScoreExact'
  <2>1. CASE Peeling
    BY <2>1, ScoreKept
  <2>2. CASE ~Peeling
    BY <2>2 DEF ScoreExact, Peeling
  <2> QED
    BY <2>1, <2>2
<1>2. EdgesOverlap' /\ PeeledInOrder' /\ AcyclicIsFree'
  BY DEF EdgesOverlap, Placing, PeeledInOrder, Acyclic, AcyclicIsFree, Violated
<1> QED
  BY <1>1, <1>2

LEMMA PeelNext == IInv /\ IInv' /\ PeelInv /\ [Next]_vars => PeelInv'
<1> SUFFICES ASSUME IInv, IInv', PeelInv, [Next]_vars PROVE PeelInv'
  OBVIOUS
<1>1. CASE OrderStep
  BY <1>1, PeelGenerateDigraph, PeelCopyEdges, PeelTakeSink, PeelNextSinks, PeelTakeSource,
     PeelNextSources, PeelTakeBest, PeelRecordOrder, PeelRemoveBackwardEdges,
     PeelReverseBackwardEdges, PeelLater
  DEF OrderStep
<1>2. CASE UNCHANGED vars
  BY <1>2, PeelStutter
<1> QED
  BY <1>1, <1>2 DEF Next, Returned

LEMMA PeelSuffices == IInv /\ PeelInv => PeelingExact
<1> SUFFICES ASSUME IInv, PeelInv PROVE ViolatedOverlaps /\ BestIsLastResort
  BY DEF PeelingExact, PeelInv, IInv
<1>1. BestIsLastResort
  BY DEF IInv, WorkSetsExact, Bare, BestIsLastResort
<1>2. ViolatedOverlaps
  <2> SUFFICES ASSUME pc = "edges", idx \in DOMAIN transfers, NEW u \in Violated(transfers[idx])
               PROVE  src[transfers[idx]] \cap Tgt[u] # {}
    BY DEF ViolatedOverlaps
  <2>1. PICK xf : xf = transfers[idx]
    OBVIOUS
  <2>2. xf \in Transfers /\ order[xf] = idx /\ idx \in Nat
    BY <2>1, CurrentTransfer
  <2>3. u \in goesBefore[xf] /\ ~(order[xf] < order[u])
    BY <2>1 DEF Violated
  <2> QED
    BY <2>1, <2>2, <2>3 DEF PeelInv, EdgesOverlap
<1> QED
  BY <1>1, <1>2

(* The peeling is exact: scores, copies and work sets describe the digraph *)
(* that is left, only a cycle costs anything, and what the loops over the  *)
(* backward edges assert of each such edge holds.                          *)
THEOREM PeelingIsExact == Spec => []PeelingExact
BY PeelInit, PeelNext, PeelSuffices, InductiveInvariant, PTL DEF Spec

-----------------------------------------------------------------------------

(* The inductive invariant, by parts.                                      *)

Revising == {"revise", "check", "planned"}

(* A transfer is "new" exactly because nothing is left for it to read.     *)
StylesFit ==
    /\ style \in [Transfers -> {"new", "zero", "diff"}]
    /\ \A t \in Transfers : /\ style[t] = "diff" => src[t] # {}
                            /\ style[t] = "new" => src[t] = {}

(* A stash holds the blocks that its user would read after its maker has   *)
(* written them; in format 1 there is none.                                *)
StashesNeeded ==
    \A t \in Transfers : \A s \in useStash[t] :
        version >= 2 /\ s.blocks # {} /\ s.blocks = src[t] \cap Tgt[s.def]

(* No stash is made twice: the transfers a stash is made for are reached   *)
(* one after the other by the loop over the edges.                         *)
StashesDistinct ==
    /\ \A t \in Transfers : Injective(stashBefore[t])
    /\ pc = "edges" =>
          \A t \in Transfers : \A s \in StashesMade(t) : order[s.use] < idx

(* Nothing is revised before the order is final.                           *)
NotRevised == pc \notin Revising => stashedBlocks = 0 /\ newBlocks = 0

(* What ImproveVertexSequence returned is still in force.                  *)
PlanOrdered ==
    /\ version \in Versions
    /\ idx \in Nat
    /\ transfers \in Seq(Transfers)
    /\ order \in [Transfers -> Nat]
    /\ src \in [Transfers -> SUBSET Blocks]
    /\ stashBefore \in [Transfers -> Seq(Stashes)]
    /\ useStash \in [Transfers -> SUBSET Stashes]
    /\ Permutation(transfers)
    /\ \A t \in Transfers : order[t] \in DOMAIN transfers /\ transfers[order[t]] = t

(* Both ends of a stash know it, and it is made before it is used.         *)
PlanPaired ==
    /\ \A t \in Transfers : \A s \in useStash[t] :
          s.use = t /\ s \in StashesMade(s.def) /\ order[s.def] < order[t]
    /\ \A t \in Transfers : \A s \in StashesMade(t) : s.def = t /\ s \in useStash[s.use]

(* The stashes made by the transfers the loop has passed and used by those *)
(* to come.                                                                *)
Pending == {s \in UNION {useStash[t] : t \in Transfers} :
              order[s.def] < idx /\ idx <= order[s.use]}

(* The running total covers what is stashed at this point, and is exactly  *)
(* that as long as no command had to be replaced; every earlier point fits.*)
TotalCovers ==
    /\ pc = "revise" => /\ version >= 2 /\ cache.known /\ idx >= 1
                        /\ SizeOf(Pending) <= stashedBlocks
                        /\ newBlocks = 0 => SizeOf(Pending) = stashedBlocks
    /\ version >= 2 /\ cache.known =>
          \A i \in DOMAIN transfers : (pc = "revise" => i < idx) =>
             SizeOf(LiveAt(i)) <= cache.allowed

PlanInv ==
    /\ pc \in Phases \cup Revising /\ pc # "aborted"
    /\ pc \in Phases => IInv /\ PeelInv
    /\ cache \in Caches /\ stashedBlocks \in 0..cache.allowed /\ newBlocks \in Nat
    /\ StylesFit /\ StashesNeeded /\ StashesDistinct /\ NotRevised
    /\ pc \in Revising => PlanOrdered /\ PlanPaired /\ SequenceGood /\ TotalCovers

-----------------------------------------------------------------------------
(* Sizes of sets of stashes.                                               *)

LEMMA StashesFinite == IsFiniteSet(Stashes)
<1> DEFINE D == (Transfers \X Transfers) \X (SUBSET Blocks)
           f == [d \in D |-> [def |-> d[1][1], use |-> d[1][2], blocks |-> d[2]]]
<1>1. IsFiniteSet(D)
  BY TransfersAssumption, BlocksAssumption, FS_Product, FS_SUBSET
<1>2. \A s \in Stashes : \E d \in D : f[d] = s
  <2> TAKE s \in Stashes
  <2>1. <<<<s.def, s.use>>, s.blocks>> \in D
    BY DEF Stashes
  <2>2. f[<<<<s.def, s.use>>, s.blocks>>] = s
    BY <2>1 DEF Stashes
  <2> QED
    BY <2>1, <2>2
<1>3. f \in Surjection(D, Stashes)
  <2>1. f \in [D -> Stashes]
    BY DEF Stashes
  <2> HIDE DEF f, D
  <2> QED
    BY <1>2, <2>1 DEF Surjection
<1> HIDE DEF f, D
<1> QED
  BY <1>1, <1>3, FS_Surjection

Sizes == [s \in Stashes |-> Cardinality(s.blocks)]

SizeAdder(T) ==
    CHOOSE g : g = [U \in SUBSET T |->
                      IF U = {} THEN 0 ELSE Cardinality(Pick(U).blocks) + g[U \ {Pick(U)}]]

LEMMA SizeIsSum ==
    ASSUME NEW T \in SUBSET Stashes
    PROVE  SizeOf(T) = SumOver(Sizes, T)
<1>1. SizeOf(T) = SizeAdder(T)[T]
  BY Zenon DEF SizeOf, MapThenSumSet, MapThenFoldSet, SizeAdder, Pick
<1>2. \A U \in SUBSET T : U # {} => Sizes[Pick(U)] = Cardinality(Pick(U).blocks)
  BY PickIn DEF Sizes
<1>3. \A g : Adds(g, Sizes, SUBSET T)
             <=> g = [U \in SUBSET T |->
                        IF U = {} THEN 0 ELSE Cardinality(Pick(U).blocks) + g[U \ {Pick(U)}]]
  BY <1>2 DEF Adds
<1>4. SizeAdder(T) = Adder(Sizes, T)
  BY <1>3 DEF SizeAdder, Adder
<1> QED
  BY <1>1, <1>4, SumOverDef

LEMMA SizesNat == \A s \in Stashes : Sizes[s] \in Nat /\ Sizes[s] = Cardinality(s.blocks)
<1> TAKE s \in Stashes
<1>1. s.blocks \subseteq Blocks
  BY DEF Stashes
<1>2. Cardinality(s.blocks) \in Nat
  BY <1>1, BlocksAssumption, FS_Subset, FS_CardinalityType
<1> QED
  BY <1>2 DEF Sizes

LEMMA SizeNat ==
    ASSUME NEW T \in SUBSET Stashes
    PROVE  SizeOf(T) \in Nat
<1>1. IsFiniteSet(T) /\ \A s \in T : Sizes[s] \in Nat
  BY StashesFinite, FS_Subset, SizesNat
<1> QED
  BY <1>1, SumNat, SizeIsSum

LEMMA SizeEmpty == SizeOf({}) = 0
BY SizeIsSum, SumEmpty

LEMMA SizeSubset ==
    ASSUME NEW U \in SUBSET Stashes, NEW T \in SUBSET U
    PROVE  SizeOf(T) <= SizeOf(U)
<1>1. IsFiniteSet(U) /\ \A s \in U : Sizes[s] \in Nat
  BY StashesFinite, FS_Subset, SizesNat
<1>2. SumOver(Sizes, T) <= SumOver(Sizes, U)
  BY <1>1, SumSubset
<1> QED
  BY <1>2, SizeIsSum

LEMMA SizeUnion ==
    ASSUME NEW T \in SUBSET Stashes, NEW U \in SUBSET Stashes, T \cap U = {}
    PROVE  SizeOf(T \cup U) = SizeOf(T) + SizeOf(U)
<1>1. IsFiniteSet(T) /\ IsFiniteSet(U) /\ \A s \in T \cup U : Sizes[s] \in Int
  BY StashesFinite, FS_Subset, SizesNat
<1>2. SumOver(Sizes, T \cup U) = SumOver(Sizes, T) + SumOver(Sizes, U)
  BY <1>1, SumDisjoint
<1>3. T \cup U \in SUBSET Stashes
  OBVIOUS
<1> QED
  BY <1>2, <1>3, SizeIsSum

(* What is left when a part is taken away.                                 *)
LEMMA SizeMinus ==
    ASSUME NEW U \in SUBSET Stashes, NEW T \in SUBSET U
    PROVE  SizeOf(U \ T) = SizeOf(U) - SizeOf(T)
<1>1. SizeOf((U \ T) \cup T) = SizeOf(U \ T) + SizeOf(T)
  BY SizeUnion
<1>2. (U \ T) \cup T = U
  OBVIOUS
<1>3. SizeOf(U \ T) \in Nat /\ SizeOf(T) \in Nat /\ SizeOf((U \ T) \cup T) = SizeOf(U)
  BY Zenon, <1>2, SizeNat
<1> QED
  BY <1>1, <1>3

LEMMA SizeAdd ==
    ASSUME NEW T \in SUBSET Stashes, NEW s \in Stashes, s \notin T
    PROVE  SizeOf(T \cup {s}) = SizeOf(T) + Cardinality(s.blocks)
<1>1. IsFiniteSet(T) /\ \A x \in T : Sizes[x] \in Int /\ Sizes[s] \in Int
  BY StashesFinite, FS_Subset, SizesNat
<1>2. SumOver(Sizes, T \cup {s}) = Sizes[s] + SumOver(Sizes, T)
  BY <1>1, SizesNat, SumAdd
<1>3. SizeOf(T \cup {s}) = SumOver(Sizes, T \cup {s}) /\ SizeOf(T) = SumOver(Sizes, T)
  BY SizeIsSum
<1>4. Sizes[s] \in Nat /\ Sizes[s] = Cardinality(s.blocks) /\ SizeOf(T) \in Nat
  BY SizesNat, SizeNat
<1> QED
  BY <1>2, <1>3, <1>4

-----------------------------------------------------------------------------
(* What ReviseStashSize takes off a stash_before.                          *)

Keeper(q, D) ==
    CHOOSE f : f = [i \in 0..Len(q) |->
                      IF i = 0 THEN <<>>
                      ELSE IF q[i] \in D THEN f[i-1] ELSE Append(f[i-1], q[i])]

KeeperRule(k, q, n, D) ==
    k = [i \in 0..n |-> IF i = 0 THEN <<>>
                        ELSE IF q[i] \in D THEN k[i-1] ELSE Append(k[i-1], q[i])]

LEMMA KeeperKeeps ==
    ASSUME NEW q \in Seq(Stashes), NEW D
    PROVE  KeeperRule(Keeper(q, D), q, Len(q), D)
<1>0. PICK n, R, base : n = Len(q) /\ R = Seq(Stashes) /\ base = <<>>
  OBVIOUS
<1>1. n \in Nat /\ base \in R /\ \A i \in 1..n : q[i] \in Stashes
  BY <1>0
<1>2. \A s \in R, x \in Stashes : Append(s, x) \in R
  BY <1>0
<1>3. PICK h : h = [i \in 1..n |-> [s \in R |-> IF q[i] \in D THEN s ELSE Append(s, q[i])]]
  OBVIOUS
<1>4. h \in Rules(n, R)
  BY <1>1, <1>2, <1>3 DEF Rules
<1>5. PICK f : Follows(f, n, R, base, h)
  BY <1>1, <1>4, RecursionExists
<1> USE DEF Follows
<1>6. \A i \in 1..n : f[i] = IF q[i] \in D THEN f[i-1] ELSE Append(f[i-1], q[i])
  <2> TAKE i \in 1..n
  <2>1. f[i-1] \in R
    BY <1>1, <1>5
  <2>2. h[i][f[i-1]] = IF q[i] \in D THEN f[i-1] ELSE Append(f[i-1], q[i])
    BY <1>3, <2>1
  <2> QED
    BY <1>5, <2>2
<1>7. KeeperRule(f, q, n, D)
  <2>1. \A i \in 0..n : f[i] = IF i = 0 THEN <<>>
                          ELSE IF q[i] \in D THEN f[i-1] ELSE Append(f[i-1], q[i])
    <3> TAKE i \in 0..n
    <3>1. CASE i = 0
      BY <1>0, <1>5, <3>1
    <3>2. CASE i # 0
      <4>1. i \in 1..n
        BY <1>1, <3>2
      <4> QED
        BY <1>6, <3>2, <4>1
    <3> QED
      BY <3>1, <3>2
  <2>2. f \in [0..n -> R]
    BY <1>5
  <2> QED
    BY <2>1, <2>2 DEF KeeperRule
<1>8. KeeperRule(f, q, Len(q), D)
  BY <1>0, <1>7
<1> QED
  BY Zenon, <1>8 DEF Keeper, KeeperRule

(* The stashes that are not dropped stay, each as often as it was there.   *)
LEMMA WithoutKeeps ==
    ASSUME NEW q \in Seq(Stashes), NEW D
    PROVE  /\ Without(q, D) \in Seq(Stashes)
           /\ Placed(Without(q, D)) = Placed(q) \ D
           /\ Injective(q) => Injective(Without(q, D))
<1>0. PICK k, n : k = Keeper(q, D) /\ n = Len(q)
  OBVIOUS
<1>1. KeeperRule(k, q, n, D)
  BY <1>0, KeeperKeeps
<1>2. /\ n \in Nat /\ DOMAIN q = 1..n
      /\ k[0] = <<>>
      /\ \A i \in 1..n : k[i] = IF q[i] \in D THEN k[i-1] ELSE Append(k[i-1], q[i])
      /\ Without(q, D) = k[n]
  <2>1. n \in Nat /\ DOMAIN q = 1..n
    BY <1>0
  <2>2. Without(q, D) = k[n]
    BY Zenon, <1>0 DEF Without, Keeper
  <2>3. 0 \in 0..n /\ \A i \in 1..n : i \in 0..n /\ i # 0
    BY <2>1
  <2>4. \A i \in 0..n : k[i] = IF i = 0 THEN <<>>
                          ELSE IF q[i] \in D THEN k[i-1] ELSE Append(k[i-1], q[i])
    BY Zenon, <1>1 DEF KeeperRule
  <2>5. k[0] = <<>>
    BY <2>3, <2>4
  <2>6. \A i \in 1..n : k[i] = IF q[i] \in D THEN k[i-1] ELSE Append(k[i-1], q[i])
    BY <2>3, <2>4
  <2> QED
    BY <2>1, <2>2, <2>5, <2>6
<1> DEFINE Upto(i) == {q[j] : j \in 1..i}
           Good(i) == k[i] \in Seq(Stashes) /\ Placed(k[i]) = Upto(i) \ D
                      /\ (Injective(q) => Injective(k[i]))
           B == {i \in 0..n : Good(i)}
<1>3. 0 \in B
  <2>1. Placed(<<>>) = {} /\ Injective(<<>>) /\ <<>> \in Seq(Stashes)
    BY DEF Placed, Injective
  <2>2. Upto(0) = {}
    OBVIOUS
  <2>3. Good(0)
    BY <1>2, <2>1, <2>2
  <2>4. 0 \in 0..n
    BY <1>2
  <2> QED
    BY <2>3, <2>4
<1>4. ASSUME NEW i \in 1..n, i - 1 \in B PROVE i \in B
  <2>0. i - 1 \in 0..n /\ i \in 0..n
    BY <1>2
  <2>1. Good(i - 1) /\ q[i] \in Stashes
    BY <1>0, <1>2, <1>4
  <2>2. Upto(i) = Upto(i - 1) \cup {q[i]}
    <3>1. 1..i = 1..(i-1) \cup {i}
      BY <1>2
    <3> QED
      BY <3>1
  <2>3. CASE q[i] \in D
    <3>1. k[i] = k[i-1]
      BY <1>2, <2>3
    <3>2. Upto(i) \ D = Upto(i-1) \ D
      BY <2>2, <2>3
    <3>3. Good(i)
      <4> HIDE DEF Upto
      <4> QED
        BY <2>1, <3>1, <3>2
    <3> QED
      BY <2>0, <3>3
  <2>4. CASE q[i] \notin D
    <3>2. PICK a : a = k[i-1] /\ a \in Seq(Stashes)
      BY <2>1
    <3>3. PICK r : r = Append(a, q[i])
      OBVIOUS
    <3>0. r \in Seq(Stashes)
      BY <2>1, <3>2, <3>3
    <3>1. k[i] = r /\ r \in Seq(Stashes)
      <4>1. k[i] = Append(k[i-1], q[i])
        BY <1>2, <2>4
      <4> QED
        BY <3>0, <3>2, <3>3, <4>1
    <3>4. /\ DOMAIN r = 1..(Len(a) + 1) /\ DOMAIN a = 1..Len(a) /\ Len(a) \in Nat
          /\ r[Len(a) + 1] = q[i] /\ \A j \in 1..Len(a) : r[j] = a[j]
      BY <2>1, <3>2, <3>3
    <3>5. Placed(r) = Placed(a) \cup {q[i]}
      BY <3>4 DEF Placed
    <3>6. Placed(r) = Upto(i) \ D
      <4> HIDE DEF Upto
      <4> QED
        BY <2>1, <2>2, <2>4, <3>2, <3>5
    <3>7. ASSUME Injective(q) PROVE Injective(r)
      <4>1. q[i] \notin Upto(i - 1)
        BY <1>2, <3>7 DEF Injective
      <4>2. q[i] \notin Placed(a) /\ Injective(a)
        BY <2>1, <3>2, <3>7, <4>1
      <4> QED
        BY <3>4, <4>2 DEF Injective, Placed
    <3>8. Good(i)
      <4> HIDE DEF Upto
      <4> QED
        BY <3>1, <3>6, <3>7
    <3> QED
      BY <2>0, <3>8
  <2> QED
    BY <2>3, <2>4
<1>5. B = 0..n
  <2>1. B \in SUBSET (0..n)
    OBVIOUS
  <2> HIDE DEF B
  <2> QED
    BY <1>2, <1>3, <1>4, <2>1, UpTo
<1>6. Good(n)
  BY <1>2, <1>5
<1>7. Upto(n) = Placed(q)
  BY <1>2 DEF Placed
<1> HIDE DEF Upto
<1> QED
  BY <1>2, <1>6, <1>7

-----------------------------------------------------------------------------
(* What ReviseStashSize finds room for.                                    *)

Teller(q, base, most) ==
    CHOOSE f : f = [i \in 0..Len(q) |->
                      IF i = 0 THEN base
                      ELSE IF f[i-1] + Cardinality(q[i].blocks) > most THEN f[i-1]
                      ELSE f[i-1] + Cardinality(q[i].blocks)]

TellerRule(k, q, n, base, most) ==
    k = [i \in 0..n |->
           IF i = 0 THEN base
           ELSE IF k[i-1] + Cardinality(q[i].blocks) > most THEN k[i-1]
           ELSE k[i-1] + Cardinality(q[i].blocks)]

Refused(k, q, most) ==
    {q[i] : i \in {i \in DOMAIN q : k[i-1] + Cardinality(q[i].blocks) > most}}

LEMMA TellerTells ==
    ASSUME NEW q \in Seq(Stashes), NEW base \in Nat, NEW most \in Nat
    PROVE  TellerRule(Teller(q, base, most), q, Len(q), base, most)
<1>0. PICK n, R : n = Len(q) /\ R = Nat
  OBVIOUS
<1>1. n \in Nat /\ base \in R /\ \A i \in 1..n : q[i] \in Stashes
  BY <1>0
<1>2. \A i \in 1..n : Cardinality(q[i].blocks) \in Nat
  BY <1>1, SizesNat
<1>3. PICK h : h = [i \in 1..n |-> [s \in R |->
                      IF s + Cardinality(q[i].blocks) > most THEN s
                      ELSE s + Cardinality(q[i].blocks)]]
  OBVIOUS
<1>4. h \in Rules(n, R)
  BY <1>0, <1>2, <1>3 DEF Rules
<1>5. PICK f : Follows(f, n, R, base, h)
  BY <1>1, <1>4, RecursionExists
<1> USE DEF Follows
<1>6. \A i \in 1..n : f[i] = IF f[i-1] + Cardinality(q[i].blocks) > most THEN f[i-1]
                             ELSE f[i-1] + Cardinality(q[i].blocks)
  <2> TAKE i \in 1..n
  <2>1. f[i-1] \in R
    BY <1>1, <1>5
  <2>2. h[i][f[i-1]] = IF f[i-1] + Cardinality(q[i].blocks) > most THEN f[i-1]
                       ELSE f[i-1] + Cardinality(q[i].blocks)
    BY <1>3, <2>1
  <2> QED
    BY <1>5, <2>2
<1>7. TellerRule(f, q, n, base, most)
  <2>1. \A i \in 0..n : f[i] = IF i = 0 THEN base
                        ELSE IF f[i-1] + Cardinality(q[i].blocks) > most THEN f[i-1]
                        ELSE f[i-1] + Cardinality(q[i].blocks)
    <3> TAKE i \in 0..n
    <3>1. CASE i = 0
      BY <1>5, <3>1
    <3>2. CASE i # 0
      <4>1. i \in 1..n
        BY <1>1, <3>2
      <4> QED
        BY <1>6, <3>2, <4>1
    <3> QED
      BY <3>1, <3>2
  <2>2. f \in [0..n -> R]
    BY <1>5
  <2> QED
    BY <2>1, <2>2 DEF TellerRule
<1>8. TellerRule(f, q, Len(q), base, most)
  BY <1>0, <1>7
<1> QED
  BY Zenon, <1>8 DEF Teller, TellerRule

(* The running total counts the stashes that fit and no others, stays in   *)
(* the limit, and refuses none when all of them fit.                       *)
LEMMA RoomIsExact ==
    ASSUME NEW q \in Seq(Stashes), Injective(q), NEW most \in Nat, NEW base \in 0..most,
           NEW k, TellerRule(k, q, Len(q), base, most)
    PROVE  /\ Refused(k, q, most) \subseteq Placed(q)
           /\ k[Len(q)] \in 0..most
           /\ k[Len(q)] = base + SizeOf(Placed(q) \ Refused(k, q, most))
           /\ base + SizeOf(Placed(q)) <= most => Refused(k, q, most) = {}
<1>0. PICK n : n = Len(q)
  OBVIOUS
<1>1. n \in Nat /\ DOMAIN q = 1..n /\ base \in Nat /\ \A i \in 1..n : q[i] \in Stashes
  BY <1>0
<1>2. \A i \in 1..n : Cardinality(q[i].blocks) \in Nat
  BY <1>1, SizesNat
<1>3. /\ k[0] = base
      /\ \A i \in 1..n : k[i] = IF k[i-1] + Cardinality(q[i].blocks) > most THEN k[i-1]
                                ELSE k[i-1] + Cardinality(q[i].blocks)
  <2>1. 0 \in 0..n /\ \A i \in 1..n : i \in 0..n /\ i # 0
    BY <1>1
  <2>2. \A i \in 0..n : k[i] = IF i = 0 THEN base
                        ELSE IF k[i-1] + Cardinality(q[i].blocks) > most THEN k[i-1]
                        ELSE k[i-1] + Cardinality(q[i].blocks)
    BY Zenon, <1>0 DEF TellerRule
  <2> QED
    BY <2>1, <2>2
<1> DEFINE Over(i) == k[i-1] + Cardinality(q[i].blocks) > most
           Taken(i) == {q[j] : j \in {j \in 1..i : ~Over(j)}}
           Good(i) == k[i] \in 0..most /\ k[i] = base + SizeOf(Taken(i))
           B == {i \in 0..n : Good(i)}
<1>4. \A i \in 0..n : Taken(i) \in SUBSET Stashes
  <2> TAKE i \in 0..n
  <2>1. \A j \in 1..i : q[j] \in Stashes
    BY <1>1
  <2> HIDE DEF Over
  <2> QED
    BY <2>1
<1>5. 0 \in B
  <2>1. Taken(0) = {}
    OBVIOUS
  <2>2. Good(0)
    <3>1. SizeOf(Taken(0)) = 0
      BY Zenon, <2>1, SizeEmpty
    <3> HIDE DEF Taken
    <3> QED
      BY <1>1, <1>3, <3>1
  <2>3. 0 \in 0..n
    BY <1>1
  <2> QED
    BY <2>2, <2>3
<1>6. ASSUME NEW i \in 1..n, i - 1 \in B PROVE i \in B
  <2>0. i - 1 \in 0..n /\ i \in 0..n /\ i \in Nat /\ 1..i = 1..(i-1) \cup {i}
    BY <1>1
  <2>1. Good(i - 1)
    BY <1>6
  <2>2. CASE Over(i)
    <3>1. k[i] = k[i-1]
      BY <1>3, <2>2
    <3>2. Taken(i) = Taken(i-1)
      <4> HIDE DEF Over
      <4> QED
        BY <2>0, <2>2
    <3>3. Good(i)
      <4> HIDE DEF Taken
      <4> QED
        BY <2>1, <3>1, <3>2
    <3> QED
      BY <2>0, <3>3
  <2>3. CASE ~Over(i)
    <3>1. k[i] = k[i-1] + Cardinality(q[i].blocks)
      BY <1>3, <2>3
    <3>2. Taken(i) = Taken(i-1) \cup {q[i]}
      <4> HIDE DEF Over
      <4> QED
        BY <2>0, <2>3
    <3>3. q[i] \notin Taken(i-1)
      <4>1. \A j \in 1..(i-1) : q[j] # q[i]
        BY <1>1 DEF Injective
      <4> HIDE DEF Over
      <4> QED
        BY <4>1
    <3>5. SizeOf(Taken(i)) = SizeOf(Taken(i-1)) + Cardinality(q[i].blocks)
      <4>1. Taken(i-1) \in SUBSET Stashes
        BY <1>4, <2>0
      <4>2. q[i] \in Stashes
        BY <1>1
      <4> HIDE DEF Taken
      <4>3. SizeOf(Taken(i-1) \cup {q[i]}) = SizeOf(Taken(i-1)) + Cardinality(q[i].blocks)
        BY <3>3, <4>1, <4>2, SizeAdd
      <4> QED
        BY Zenon, <3>2, <4>3
    <3>6. SizeOf(Taken(i-1)) \in Nat
      <4>1. Taken(i-1) \in SUBSET Stashes
        BY <1>4, <2>0
      <4> HIDE DEF Taken
      <4> QED
        BY <4>1, SizeNat
    <3>7. Good(i)
      <4>1. Cardinality(q[i].blocks) \in Nat /\ k[i-1] + Cardinality(q[i].blocks) <= most
        BY <1>2, <2>1, <2>3
      <4> HIDE DEF Taken, Over
      <4> QED
        BY <1>1, <2>1, <3>1, <3>5, <3>6, <4>1
    <3> QED
      BY <2>0, <3>7
  <2> QED
    BY <2>2, <2>3
<1>7. B = 0..n
  <2>1. B \in SUBSET (0..n)
    OBVIOUS
  <2> HIDE DEF B
  <2> QED
    BY <1>1, <1>5, <1>6, <2>1, UpTo
<1>8. \A i \in 0..n : Good(i)
  BY <1>7
<1>9. Refused(k, q, most) = {q[j] : j \in {j \in 1..n : Over(j)}}
  BY <1>1 DEF Refused
<1>10. Placed(q) = {q[j] : j \in 1..n}
  BY <1>1 DEF Placed
<1>11. Placed(q) \ Refused(k, q, most) = Taken(n)
  <2>1. \A i, j \in 1..n : q[i] = q[j] => i = j
    BY <1>1 DEF Injective
  <2> HIDE DEF Over
  <2> QED
    BY <1>9, <1>10, <2>1
<1>12. ASSUME base + SizeOf(Placed(q)) <= most, NEW j \in 1..n, Over(j)
       PROVE  FALSE
  <2>1. j - 1 \in 0..n /\ j \in Nat
    BY <1>1
  <2>2. Taken(j-1) \cup {q[j]} \subseteq Placed(q) /\ Placed(q) \in SUBSET Stashes
    <3> HIDE DEF Over
    <3> QED
      BY <1>1, <1>10, <2>1
  <2>3. q[j] \notin Taken(j-1)
    <3>1. \A i \in 1..(j-1) : q[i] # q[j]
      BY <1>1 DEF Injective
    <3> HIDE DEF Over
    <3> QED
      BY <3>1
  <2>4. q[j] \in Stashes
    BY <1>1
  <2>5. Taken(j-1) \in SUBSET Stashes
    BY <1>4, <2>1
  <2>6. Good(j-1)
    BY <1>8, <2>1
  <2>8. SizeOf(Taken(j-1) \cup {q[j]}) = SizeOf(Taken(j-1)) + Cardinality(q[j].blocks)
    <3> HIDE DEF Taken
    <3> QED
      BY <2>3, <2>4, <2>5, SizeAdd
  <2>9. SizeOf(Taken(j-1) \cup {q[j]}) <= SizeOf(Placed(q))
    <3> HIDE DEF Taken
    <3> QED
      BY <2>2, SizeSubset
  <2>10. SizeOf(Placed(q)) \in Nat /\ SizeOf(Taken(j-1)) \in Nat /\ Cardinality(q[j].blocks) \in Nat
    <3> HIDE DEF Taken
    <3> QED
      BY <1>2, <2>2, <2>5, SizeNat
  <2>11. k[j-1] = base + SizeOf(Taken(j-1))
    BY <2>6
  <2>12. k[j-1] + Cardinality(q[j].blocks) > most
    BY <1>12
  <2> HIDE DEF Taken, Over
  <2> QED
    BY <1>1, <1>12, <2>8, <2>9, <2>10, <2>11, <2>12
<1>13. Good(n)
  BY <1>1, <1>8
<1>14. Refused(k, q, most) \subseteq Placed(q)
  <2> HIDE DEF Over
  <2> QED
    BY <1>9, <1>10
<1>15. base + SizeOf(Placed(q)) <= most => Refused(k, q, most) = {}
  <2> HIDE DEF Over
  <2> QED
    BY <1>9, <1>12
<1>16. k[n] = base + SizeOf(Placed(q) \ Refused(k, q, most))
  <2>1. k[n] = base + SizeOf(Taken(n))
    BY <1>13
  <2> HIDE DEF Taken
  <2> QED
    BY Zenon, <2>1, <1>11
<1>17. k[n] \in 0..most
  BY <1>13
<1> QED
  BY <1>0, <1>14, <1>15, <1>16, <1>17

(* The running total and the refusals of one round of ReviseStashSize.     *)
LEMMA FittingFacts ==
    ASSUME NEW xf \in Transfers, stashBefore \in [Transfers -> Seq(Stashes)],
           Injective(stashBefore[xf]), cache.allowed \in Nat,
           stashedBlocks \in 0..cache.allowed
    PROVE  /\ Fitting(xf).unmade \subseteq StashesMade(xf)
           /\ Fitting(xf).total \in 0..cache.allowed
           /\ Fitting(xf).total = stashedBlocks + SizeOf(StashesMade(xf) \ Fitting(xf).unmade)
           /\ stashedBlocks + SizeOf(StashesMade(xf)) <= cache.allowed =>
                 Fitting(xf).unmade = {}
<1>1. PICK q, base, most, k :
         /\ q = stashBefore[xf] /\ base = stashedBlocks /\ most = cache.allowed
         /\ k = Teller(q, base, most)
  OBVIOUS
<1>2. q \in Seq(Stashes) /\ Injective(q) /\ most \in Nat /\ base \in 0..most /\ base \in Nat
  BY <1>1
<1>3. TellerRule(k, q, Len(q), base, most)
  BY <1>1, <1>2, TellerTells
<1>4. Fitting(xf) = [total |-> k[Len(q)], unmade |-> Refused(k, q, most)]
  <2>1. Fitting(xf) =
           [total |-> Teller(stashBefore[xf], stashedBlocks, cache.allowed)
                            [Len(stashBefore[xf])],
            unmade |-> Refused(Teller(stashBefore[xf], stashedBlocks, cache.allowed),
                               stashBefore[xf], cache.allowed)]
    BY Zenon DEF Fitting, Exceeds, Teller, Refused
  <2> QED
    BY Zenon, <1>1, <2>1
<1>5. StashesMade(xf) = Placed(q)
  BY <1>1 DEF StashesMade, Placed
<1>6. Fitting(xf).total = k[Len(q)] /\ Fitting(xf).unmade = Refused(k, q, most)
  BY <1>4
<1>7. /\ Refused(k, q, most) \subseteq Placed(q)
      /\ k[Len(q)] \in 0..most
      /\ k[Len(q)] = base + SizeOf(Placed(q) \ Refused(k, q, most))
      /\ base + SizeOf(Placed(q)) <= most => Refused(k, q, most) = {}
  BY <1>2, <1>3, RoomIsExact
<1>8. SizeOf(Placed(q) \ Refused(k, q, most)) = SizeOf(StashesMade(xf) \ Fitting(xf).unmade)
      /\ SizeOf(Placed(q)) = SizeOf(StashesMade(xf))
  BY Zenon, <1>5, <1>6
<1> QED
  BY <1>1, <1>5, <1>6, <1>7, <1>8

(* The target blocks of commands that become "new".                        *)
Widths == [t \in Transfers |-> Cardinality(Tgt[t])]

Lost(T) == MapThenSumSet(LAMBDA t : Cardinality(Tgt[t]), T)

LostAdder(T) ==
    CHOOSE g : g = [U \in SUBSET T |->
                      IF U = {} THEN 0 ELSE Cardinality(Tgt[Pick(U)]) + g[U \ {Pick(U)}]]

LEMMA LostIsSum ==
    ASSUME NEW T \in SUBSET Transfers
    PROVE  Lost(T) = SumOver(Widths, T)
<1>1. Lost(T) = LostAdder(T)[T]
  BY Zenon DEF Lost, MapThenSumSet, MapThenFoldSet, LostAdder, Pick
<1>2. \A U \in SUBSET T : U # {} => Widths[Pick(U)] = Cardinality(Tgt[Pick(U)])
  BY PickIn DEF Widths
<1>3. \A g : Adds(g, Widths, SUBSET T)
             <=> g = [U \in SUBSET T |->
                        IF U = {} THEN 0 ELSE Cardinality(Tgt[Pick(U)]) + g[U \ {Pick(U)}]]
  BY <1>2 DEF Adds
<1>4. LostAdder(T) = Adder(Widths, T)
  BY <1>3 DEF LostAdder, Adder
<1> QED
  BY <1>1, <1>4, SumOverDef

(* Something is lost whenever a command is replaced.                       *)
LEMMA LostNat ==
    ASSUME NEW T \in SUBSET Transfers
    PROVE  Lost(T) \in Nat /\ (Lost(T) = 0 <=> T = {})
<1>1. \A t \in Transfers : Widths[t] \in Nat /\ Widths[t] # 0
  <2> TAKE t \in Transfers
  <2>1. IsFiniteSet(Tgt[t]) /\ Tgt[t] # {}
    BY TgtAssumption, BlocksAssumption, FS_Subset
  <2>2. Cardinality(Tgt[t]) \in Nat /\ Cardinality(Tgt[t]) # 0
    BY <2>1, FS_CardinalityType, FS_EmptySet
  <2> QED
    BY <2>2 DEF Widths
<1>2. \A U \in SUBSET Transfers :
         IsFiniteSet(U) /\ SumOver(Widths, U) \in Nat /\ Lost(U) = SumOver(Widths, U)
  <2> TAKE U \in SUBSET Transfers
  <2>1. IsFiniteSet(U) /\ \A t \in U : Widths[t] \in Nat
    BY <1>1, TransfersAssumption, FS_Subset
  <2> QED
    BY <2>1, SumNat, LostIsSum
<1>3. ASSUME NEW x \in T PROVE Lost(T) # 0
  <2>1. T \ {x} \in SUBSET Transfers /\ \A t \in T : Widths[t] \in Int
    BY <1>1
  <2>2. SumOver(Widths, T) = Widths[x] + SumOver(Widths, T \ {x})
    BY <1>2, <2>1, SumRemove
  <2>3. SumOver(Widths, T \ {x}) \in Nat /\ Widths[x] \in Nat /\ Widths[x] # 0
    BY <1>1, <1>2, <2>1
  <2> QED
    BY <1>2, <2>2, <2>3
<1>4. Lost({}) = 0
  BY LostIsSum, SumEmpty
<1>5. T = {} => Lost(T) = 0
  BY Zenon, <1>4
<1> QED
  BY <1>2, <1>3, <1>5

-----------------------------------------------------------------------------
(* One round of ReviseStashSize.                                           *)

Current == transfers[idx]

TotalNow == Fitting(Current).total - SizeOf(useStash[Current])

ReplacedNow ==
    {s.use : s \in Fitting(Current).unmade}
      \cup {x \in {Current} : /\ StashesImplicitly(x)
                              /\ Exceeds(TotalNow, Cardinality(src[x]))}

SaneNow ==
    /\ style[Current] = "diff" /\ version >= 3 => src[Current] # {}
    /\ \A s \in Dropped(ReplacedNow) : s \in StashesMade(s.def)
    /\ \A c \in ReplacedNow : style[c] # "new"

Revised(xf, total, replaced, dropped) ==
    /\ stashedBlocks' = total
    /\ newBlocks' = newBlocks + Lost(replaced)
    /\ stashBefore' = [t \in Transfers |-> Without(stashBefore[t], dropped)]
    /\ useStash' = [t \in Transfers |-> IF t \in replaced THEN {} ELSE useStash[t]]
    /\ style' = [t \in Transfers |-> IF t \in replaced THEN "new" ELSE style[t]]
    /\ src' = [t \in Transfers |-> IF t \in replaced THEN {} ELSE src[t]]
    /\ pc' = pc

LEMMA RoundOfRevise ==
    ReviseStashSize =>
      /\ pc = "revise" /\ idx \in DOMAIN transfers
      /\ idx' = idx + 1 /\ version' = version /\ cache' = cache
      /\ transfers' = transfers /\ order' = order
      /\ SaneNow => Revised(Current, TotalNow, ReplacedNow, Dropped(ReplacedNow))
BY Zenon DEF ReviseStashSize, Current, TotalNow, ReplacedNow, SaneNow, Revised, Lost, listVars

(* The stashes that a round of a loop over the sequence is about.          *)
LEMMA StashesAround ==
    ASSUME PlanOrdered, PlanPaired, idx \in DOMAIN transfers, NEW xf, xf = Current
    PROVE  /\ xf \in Transfers /\ order[xf] = idx /\ idx \in Nat
           /\ \A t \in Transfers : order[t] \in Nat /\ (order[t] = idx => t = xf)
           /\ Pending \in SUBSET Stashes /\ StashesMade(xf) \in SUBSET Stashes
           /\ useStash[xf] \subseteq Pending
           /\ Pending \cap StashesMade(xf) = {}
           /\ LiveAt(idx) = Pending \cup StashesMade(xf)
<1>1. PlanOrdered /\ PlanPaired
  OBVIOUS
<1>2. /\ xf \in Transfers /\ order[xf] = idx /\ idx \in Nat
      /\ \A t \in Transfers : order[t] \in Nat /\ (order[t] = idx => t = xf)
  BY <1>1 DEF PlanOrdered, Permutation, Injective, Current
<1>3. \A t \in Transfers : useStash[t] \in SUBSET Stashes /\ StashesMade(t) \in SUBSET Stashes
  BY <1>1 DEF PlanOrdered, StashesMade
<1>4. \A s \in Stashes : s.def \in Transfers /\ s.use \in Transfers
  BY DEF Stashes
<1>5. Pending \in SUBSET Stashes
  BY <1>3 DEF Pending
<1>6. \A t \in Transfers : \A s \in useStash[t] :
         s.use = t /\ s \in StashesMade(s.def) /\ order[s.def] < order[t]
  BY <1>1 DEF PlanPaired
<1>7. \A t \in Transfers : \A s \in StashesMade(t) : s.def = t /\ s \in useStash[s.use]
  BY <1>1 DEF PlanPaired
<1>8. useStash[xf] \subseteq Pending
  BY <1>2, <1>3, <1>6 DEF Pending
<1>9. Pending \cap StashesMade(xf) = {}
  BY <1>2, <1>7 DEF Pending
<1>10. ASSUME NEW s \in LiveAt(idx) PROVE s \in Pending \cup StashesMade(xf)
  <2>1. PICK t \in Transfers : s \in useStash[t]
    BY DEF LiveAt
  <2>2. s \in Stashes /\ order[s.def] <= idx /\ idx <= order[s.use] /\ s.def \in Transfers
    BY <1>3, <1>4, <2>1 DEF LiveAt
  <2>3. CASE order[s.def] = idx
    BY <1>2, <1>6, <2>1, <2>2, <2>3
  <2>4. CASE order[s.def] # idx
    BY <1>2, <2>1, <2>2, <2>4 DEF Pending
  <2> QED
    BY <2>3, <2>4
<1>11. Pending \subseteq LiveAt(idx)
  <2> SUFFICES ASSUME NEW s \in Pending PROVE s \in LiveAt(idx)
    OBVIOUS
  <2>1. order[s.def] \in Nat /\ order[s.def] < idx
    BY <1>2, <1>4, <1>5 DEF Pending
  <2> QED
    BY <1>2, <2>1 DEF Pending, LiveAt
<1>12. StashesMade(xf) \subseteq LiveAt(idx)
  <2> SUFFICES ASSUME NEW s \in StashesMade(xf) PROVE s \in LiveAt(idx)
    OBVIOUS
  <2>1. s \in Stashes /\ s.use \in Transfers /\ s.def = xf /\ s \in useStash[s.use]
    BY <1>2, <1>3, <1>4, <1>7
  <2>2. order[s.def] < order[s.use] /\ order[s.use] \in Nat
    BY <1>2, <1>6, <2>1
  <2> QED
    BY <1>2, <2>1, <2>2 DEF LiveAt
<1>13. LiveAt(idx) = Pending \cup StashesMade(xf)
  BY <1>10, <1>11, <1>12
<1> QED
  BY <1>2, <1>3, <1>5, <1>8, <1>9, <1>13

LEMMA RoundMeasures ==
    ASSUME PlanInv, pc = "revise", idx \in DOMAIN transfers, NEW xf, xf = Current
    PROVE  /\ xf \in Transfers /\ order[xf] = idx /\ idx \in Nat
           /\ \A t \in Transfers : order[t] \in Nat /\ (order[t] = idx => t = xf)
           /\ Pending \in SUBSET Stashes /\ StashesMade(xf) \in SUBSET Stashes
           /\ useStash[xf] \subseteq Pending
           /\ Pending \cap StashesMade(xf) = {}
           /\ LiveAt(idx) = Pending \cup StashesMade(xf)
<1>1. PlanOrdered /\ PlanPaired
  BY DEF PlanInv, Revising
<1> QED
  BY <1>1, StashesAround

(* What the fitting leaves, in blocks.                                     *)
LEMMA RoundFits ==
    ASSUME PlanInv, pc = "revise", idx \in DOMAIN transfers, NEW xf, xf = Current
    PROVE  /\ Fitting(xf).unmade \subseteq StashesMade(xf)
           /\ Fitting(xf).total = stashedBlocks + SizeOf(StashesMade(xf) \ Fitting(xf).unmade)
           /\ Fitting(xf).total \in 0..cache.allowed
           /\ stashedBlocks + SizeOf(StashesMade(xf)) <= cache.allowed =>
                 Fitting(xf).unmade = {}
           /\ TotalNow = Fitting(xf).total - SizeOf(useStash[xf])
           /\ TotalNow \in 0..cache.allowed
           /\ SizeOf(Pending) <= stashedBlocks
           /\ newBlocks = 0 => SizeOf(Pending) = stashedBlocks
<1>1. xf \in Transfers /\ Pending \in SUBSET Stashes /\ useStash[xf] \subseteq Pending
      /\ StashesMade(xf) \in SUBSET Stashes
  BY RoundMeasures
<1>2. /\ stashBefore \in [Transfers -> Seq(Stashes)] /\ Injective(stashBefore[xf])
      /\ cache.allowed \in Nat /\ stashedBlocks \in 0..cache.allowed
      /\ SizeOf(Pending) <= stashedBlocks
      /\ newBlocks = 0 => SizeOf(Pending) = stashedBlocks
  BY <1>1, CacheAssumption DEF PlanInv, Revising, PlanOrdered, StashesDistinct, TotalCovers
<1>3. /\ Fitting(xf).unmade \subseteq StashesMade(xf)
      /\ Fitting(xf).total = stashedBlocks + SizeOf(StashesMade(xf) \ Fitting(xf).unmade)
      /\ Fitting(xf).total \in 0..cache.allowed
      /\ stashedBlocks + SizeOf(StashesMade(xf)) <= cache.allowed =>
            Fitting(xf).unmade = {}
  BY <1>1, <1>2, FittingFacts
<1>4. SizeOf(useStash[xf]) <= SizeOf(Pending)
  BY <1>1, SizeSubset
<1>5. SizeOf(useStash[xf]) \in Nat /\ SizeOf(Pending) \in Nat
      /\ SizeOf(StashesMade(xf) \ Fitting(xf).unmade) \in Nat
  <2>1. useStash[xf] \in SUBSET Stashes
        /\ StashesMade(xf) \ Fitting(xf).unmade \in SUBSET Stashes
    BY <1>1
  <2> QED
    BY <1>1, <2>1, SizeNat
<1>6. TotalNow = Fitting(xf).total - SizeOf(useStash[xf])
  BY DEF TotalNow
<1>7. TotalNow \in 0..cache.allowed
  BY <1>2, <1>3, <1>4, <1>5, <1>6
<1> QED
  BY <1>2, <1>3, <1>6, <1>7

(* The assertions of ReviseStashSize hold.                                 *)
LEMMA RoundIsSane ==
    ASSUME PlanInv, pc = "revise", idx \in DOMAIN transfers
    PROVE  SaneNow /\ ReplacedNow \in SUBSET Transfers
<1>1. PICK xf : xf = Current
  OBVIOUS
<1>2. xf \in Transfers /\ Fitting(xf).unmade \subseteq StashesMade(xf)
      /\ StashesMade(xf) \in SUBSET Stashes
  BY <1>1, RoundMeasures, RoundFits
<1>3. PlanOrdered /\ PlanPaired /\ StylesFit /\ StashesNeeded
  BY DEF PlanInv, Revising
<1>4. \A c \in ReplacedNow : (\E s \in StashesMade(xf) : c = s.use)
                             \/ (c = xf /\ StashesImplicitly(xf))
  BY <1>1, <1>2 DEF ReplacedNow
<1>5. \A c \in ReplacedNow : c \in Transfers /\ style[c] # "new"
  <2> TAKE c \in ReplacedNow
  <2>1. CASE c = xf /\ StashesImplicitly(xf)
    BY <1>2, <2>1 DEF StashesImplicitly
  <2>2. ASSUME NEW s \in StashesMade(xf), c = s.use PROVE c \in Transfers /\ style[c] # "new"
    <3>1. c \in Transfers /\ s \in useStash[c]
      BY <1>2, <1>3, <2>2 DEF PlanPaired, Stashes
    <3>2. s.blocks # {} /\ s.blocks \subseteq src[c]
      BY <1>3, <3>1 DEF StashesNeeded
    <3> QED
      BY <1>3, <3>1, <3>2 DEF StylesFit
  <2> QED
    BY <1>4, <2>1, <2>2
<1>6. \A s \in Dropped(ReplacedNow) : s \in StashesMade(s.def)
  BY <1>3, <1>5 DEF Dropped, PlanPaired
<1>7. style[Current] = "diff" => src[Current] # {}
  BY <1>1, <1>2, <1>3 DEF StylesFit
<1> QED
  BY <1>5, <1>6, <1>7 DEF SaneNow

(* What is left of the plan after the round.                               *)
LEMMA RoundKeeps ==
    ASSUME PlanInv, ReviseStashSize, NEW xf, xf = Current, NEW R, R = ReplacedNow
    PROVE  /\ PlanOrdered' /\ PlanPaired' /\ SequenceGood'
           /\ StylesFit' /\ StashesNeeded' /\ StashesDistinct'
           /\ \A t \in Transfers : useStash'[t] = IF t \in R THEN {} ELSE useStash[t]
           /\ \A t \in Transfers : StashesMade(t)' = StashesMade(t) \ Dropped(R)
           /\ \A s \in Dropped(R) : s.use \in R
           /\ \A s \in Fitting(xf).unmade : s \in Dropped(R)
           /\ R = {} => Dropped(R) = {} /\ Fitting(xf).unmade = {}
<1>1. /\ pc = "revise" /\ idx \in DOMAIN transfers
      /\ idx' = idx + 1 /\ version' = version /\ cache' = cache
      /\ transfers' = transfers /\ order' = order
      /\ SaneNow => Revised(Current, TotalNow, R, Dropped(R))
  <2>1. SaneNow => Revised(Current, TotalNow, ReplacedNow, Dropped(ReplacedNow))
    BY RoundOfRevise
  <2> QED
    BY RoundOfRevise, <2>1
<1>2. SaneNow /\ R \in SUBSET Transfers
  BY <1>1, RoundIsSane
<1>3. Revised(Current, TotalNow, R, Dropped(R))
  BY <1>1, <1>2
<1>4. /\ stashBefore' = [t \in Transfers |-> Without(stashBefore[t], Dropped(R))]
      /\ useStash' = [t \in Transfers |-> IF t \in R THEN {} ELSE useStash[t]]
      /\ style' = [t \in Transfers |-> IF t \in R THEN "new" ELSE style[t]]
      /\ src' = [t \in Transfers |-> IF t \in R THEN {} ELSE src[t]]
      /\ pc' = "revise"
  BY <1>1, <1>3 DEF Revised
<1>5. PlanOrdered /\ PlanPaired /\ SequenceGood /\ StylesFit /\ StashesNeeded /\ StashesDistinct
  BY <1>1 DEF PlanInv, Revising
<1>6. \A t \in Transfers :
         /\ stashBefore'[t] \in Seq(Stashes)
         /\ Placed(stashBefore'[t]) = Placed(stashBefore[t]) \ Dropped(R)
         /\ Injective(stashBefore'[t])
  <2> TAKE t \in Transfers
  <2>1. stashBefore[t] \in Seq(Stashes) /\ Injective(stashBefore[t])
    BY <1>5 DEF PlanOrdered, StashesDistinct
  <2>2. stashBefore'[t] = Without(stashBefore[t], Dropped(R))
    BY <1>4
  <2>3. PICK q, w : q = stashBefore[t] /\ w = Without(q, Dropped(R)) /\ w = stashBefore'[t]
    BY <2>2
  <2>4. w \in Seq(Stashes) /\ Placed(w) = Placed(q) \ Dropped(R) /\ Injective(w)
    BY <2>1, <2>3, WithoutKeeps
  <2> QED
    BY <2>3, <2>4
<1>7. \A t \in Transfers : StashesMade(t)' = StashesMade(t) \ Dropped(R)
  BY <1>6 DEF StashesMade, Placed
<1>8. \A t \in Transfers : useStash'[t] = IF t \in R THEN {} ELSE useStash[t]
  BY <1>4
<1>9. \A s \in Dropped(R) : s.use \in R
  BY <1>2, <1>5 DEF Dropped, PlanPaired
<1>10. \A s \in Fitting(xf).unmade : s \in Dropped(R)
  <2> TAKE s \in Fitting(xf).unmade
  <2>1. s \in StashesMade(xf) /\ xf \in Transfers
    BY <1>1, RoundMeasures, RoundFits
  <2>2. s.use \in R /\ s \in useStash[s.use]
    BY <1>5, <2>1 DEF PlanPaired, ReplacedNow
  <2> QED
    BY <2>2 DEF Dropped
<1>11. R = {} => Dropped(R) = {} /\ Fitting(xf).unmade = {}
  BY <1>10 DEF Dropped
<1>12. PlanOrdered'
  <2>1. version' \in Versions /\ idx' \in Nat /\ transfers' \in Seq(Transfers)
        /\ order' \in [Transfers -> Nat]
    BY <1>1, <1>5 DEF PlanOrdered
  <2>2. src' \in [Transfers -> SUBSET Blocks] /\ useStash' \in [Transfers -> SUBSET Stashes]
    BY <1>4, <1>5 DEF PlanOrdered
  <2>3. stashBefore' \in [Transfers -> Seq(Stashes)]
    BY <1>4, <1>6
  <2>4. Permutation(transfers')
    BY <1>1, <1>5 DEF PlanOrdered
  <2>5. \A t \in Transfers : order'[t] \in DOMAIN transfers' /\ transfers'[order'[t]] = t
    BY <1>1, <1>5 DEF PlanOrdered
  <2> QED
    BY <2>1, <2>2, <2>3, <2>4, <2>5 DEF PlanOrdered, Permutation
<1>13. PlanPaired'
  <2>1. ASSUME NEW t \in Transfers, NEW s \in useStash'[t]
        PROVE  s.use = t /\ s \in StashesMade(s.def)' /\ order[s.def] < order[t]
    <3>1. t \notin R /\ s \in useStash[t]
      BY <1>8, <2>1
    <3>2. s.use = t /\ s \in StashesMade(s.def) /\ order[s.def] < order[t] /\ s.def \in Transfers
      BY <1>5, <3>1 DEF PlanPaired, PlanOrdered, Stashes
    <3>3. s \notin Dropped(R)
      BY <1>9, <3>1, <3>2
    <3> QED
      BY <1>7, <3>2, <3>3
  <2>2. ASSUME NEW t \in Transfers, NEW s \in StashesMade(t)'
        PROVE  s.def = t /\ s \in useStash'[s.use]
    <3>1. s \in StashesMade(t) /\ s \notin Dropped(R)
      BY <1>7, <2>2
    <3>2. StashesMade(t) \in SUBSET Stashes
      BY <1>5 DEF PlanOrdered, StashesMade
    <3>3. s.def = t /\ s \in useStash[s.use] /\ s \in Stashes
      BY <1>5, <3>1, <3>2 DEF PlanPaired
    <3>4. s.use \in Transfers /\ s.use \notin R
      BY <3>1, <3>3 DEF Stashes, Dropped
    <3> QED
      BY <1>8, <3>3, <3>4
  <2> QED
    BY <1>1, <2>1, <2>2 DEF PlanPaired
<1>14. StylesFit'
  BY <1>4, <1>5 DEF StylesFit
<1>15. StashesNeeded'
  BY <1>1, <1>4, <1>5, <1>8 DEF StashesNeeded
<1>16. StashesDistinct'
  BY <1>4, <1>6 DEF StashesDistinct
<1>17. SequenceGood'
  <2>1. ASSUME NEW i \in DOMAIN transfers, NEW j \in DOMAIN transfers, i < j
        PROVE  Tgt[transfers[i]] \cap (src'[transfers[j]] \ Stashed(transfers[j])') = {}
    <3>1. transfers[j] \in Transfers
      BY <1>5 DEF PlanOrdered
    <3>2. CASE transfers[j] \in R
      BY <1>4, <3>1, <3>2
    <3>3. CASE transfers[j] \notin R
      <4>1. /\ src'[transfers[j]] = src[transfers[j]]
            /\ useStash'[transfers[j]] = useStash[transfers[j]]
        BY <1>4, <3>1, <3>3
      <4>2. Tgt[transfers[i]] \cap (src[transfers[j]] \ Stashed(transfers[j])) = {}
        BY <1>5, <2>1 DEF SequenceGood
      <4>3. Stashed(transfers[j])' = Stashed(transfers[j])
        BY <1>1, <4>1 DEF Stashed
      <4> QED
        BY <4>1, <4>2, <4>3
    <3> QED
      BY <3>2, <3>3
  <2>2. /\ \A t \in Transfers : \E i \in DOMAIN transfers : transfers[i] = t
        /\ \A i, j \in DOMAIN transfers : transfers[i] = transfers[j] => i = j
    BY <1>5 DEF SequenceGood
  <2>3. \A i, j \in DOMAIN transfers' : i < j =>
           Tgt[transfers'[i]] \cap (src'[transfers'[j]] \ Stashed(transfers[j])') = {}
    BY <1>1, <2>1
  <2> QED
    BY <1>1, <2>2, <2>3 DEF SequenceGood
<1> QED
  BY <1>7, <1>8, <1>9, <1>10, <1>11, <1>12, <1>13, <1>14, <1>15, <1>16, <1>17

(* The running total still covers what is stashed.                         *)
LEMMA RoundCovers ==
    ASSUME PlanInv, ReviseStashSize
    PROVE  /\ TotalCovers' /\ stashedBlocks' \in 0..cache.allowed /\ newBlocks' \in Nat
           /\ pc' = "revise" /\ cache' = cache
<1>1. PICK xf, R, U : xf = Current /\ R = ReplacedNow /\ U = Fitting(xf).unmade
  OBVIOUS
<1>2. /\ pc = "revise" /\ idx \in DOMAIN transfers
      /\ idx' = idx + 1 /\ version' = version /\ cache' = cache
      /\ transfers' = transfers /\ order' = order
  BY RoundOfRevise
<1>3. SaneNow /\ R \in SUBSET Transfers
  BY <1>1, <1>2, RoundIsSane
<1>4. stashedBlocks' = TotalNow /\ newBlocks' = newBlocks + Lost(R) /\ pc' = "revise"
  <2>1. Revised(Current, TotalNow, ReplacedNow, Dropped(ReplacedNow))
    BY <1>1, <1>3, RoundOfRevise
  <2>2. newBlocks' = newBlocks + Lost(ReplacedNow)
    BY <2>1 DEF Revised
  <2>3. newBlocks' = newBlocks + Lost(R)
    BY Zenon, <1>1, <2>2
  <2> QED
    BY <1>2, <2>1, <2>3 DEF Revised
<1>5. /\ \A t \in Transfers : useStash'[t] = IF t \in R THEN {} ELSE useStash[t]
      /\ \A s \in Dropped(R) : s.use \in R
      /\ \A s \in U : s \in Dropped(R)
      /\ R = {} => Dropped(R) = {} /\ U = {}
  BY <1>1, RoundKeeps
<1>6. /\ xf \in Transfers /\ order[xf] = idx /\ idx \in Nat
      /\ \A t \in Transfers : order[t] \in Nat /\ (order[t] = idx => t = xf)
      /\ Pending \in SUBSET Stashes /\ StashesMade(xf) \in SUBSET Stashes
      /\ useStash[xf] \subseteq Pending
      /\ Pending \cap StashesMade(xf) = {}
      /\ LiveAt(idx) = Pending \cup StashesMade(xf)
  BY <1>1, <1>2, RoundMeasures
<1>7. /\ U \subseteq StashesMade(xf)
      /\ Fitting(xf).total = stashedBlocks + SizeOf(StashesMade(xf) \ U)
      /\ Fitting(xf).total \in 0..cache.allowed
      /\ TotalNow = Fitting(xf).total - SizeOf(useStash[xf])
      /\ TotalNow \in 0..cache.allowed
      /\ SizeOf(Pending) <= stashedBlocks
      /\ newBlocks = 0 => SizeOf(Pending) = stashedBlocks
  BY <1>1, <1>2, RoundFits
<1>8. /\ PlanOrdered /\ PlanPaired /\ TotalCovers
      /\ cache.allowed \in Nat /\ stashedBlocks \in Nat /\ newBlocks \in Nat
  BY <1>2, CacheAssumption DEF PlanInv, Revising
<1>9. \A t \in Transfers : \A s \in useStash[t] :
         /\ s \in Stashes /\ s.def \in Transfers /\ s.use = t
         /\ s \in StashesMade(s.def) /\ order[s.def] < order[t]
  BY <1>8 DEF PlanPaired, PlanOrdered, Stashes
<1>10. \A t \in Transfers : \A s \in useStash'[t] : s \in useStash[t] /\ s \notin Dropped(R)
  <2> TAKE t \in Transfers
  <2> TAKE s \in useStash'[t]
  <2>1. t \notin R /\ s \in useStash[t]
    BY <1>5
  <2> QED
    BY <1>5, <1>9, <2>1
(* The stashes that are carried on to the next command.                    *)
<1>11. Pending' \subseteq (Pending \ useStash[xf]) \cup (StashesMade(xf) \ U)
  <2> SUFFICES ASSUME NEW s \in Pending'
               PROVE  s \in (Pending \ useStash[xf]) \cup (StashesMade(xf) \ U)
    OBVIOUS
  <2>1. PICK t \in Transfers : s \in useStash'[t]
    BY DEF Pending
  <2>2. /\ s \in useStash[t] /\ s \notin Dropped(R) /\ s.def \in Transfers /\ s.use = t
        /\ order[s.def] < idx + 1 /\ idx + 1 <= order[t]
    BY <1>2, <1>9, <1>10, <2>1 DEF Pending
  <2>3. CASE order[s.def] = idx
    <3>1. s \in StashesMade(xf) /\ s \notin U
      BY <1>5, <1>6, <1>9, <2>2, <2>3
    <3> QED
      BY <3>1
  <2>4. CASE order[s.def] # idx
    <3>1. order[s.def] < idx /\ idx <= order[t] /\ t # xf
      BY <1>6, <2>2, <2>4
    <3>2. s \in Pending
      BY <2>2, <3>1 DEF Pending
    <3>3. s \notin useStash[xf]
      BY <1>6, <1>9, <2>2, <3>1
    <3> QED
      BY <3>2, <3>3
  <2> QED
    BY <2>3, <2>4
<1>12. SizeOf((Pending \ useStash[xf]) \cup (StashesMade(xf) \ U))
          = SizeOf(Pending) - SizeOf(useStash[xf]) + SizeOf(StashesMade(xf) \ U)
  <2>1. SizeOf(Pending \ useStash[xf]) = SizeOf(Pending) - SizeOf(useStash[xf])
    BY <1>6, SizeMinus
  <2>2. /\ Pending \ useStash[xf] \in SUBSET Stashes
        /\ StashesMade(xf) \ U \in SUBSET Stashes
        /\ (Pending \ useStash[xf]) \cap (StashesMade(xf) \ U) = {}
    BY <1>6
  <2>3. SizeOf((Pending \ useStash[xf]) \cup (StashesMade(xf) \ U))
          = SizeOf(Pending \ useStash[xf]) + SizeOf(StashesMade(xf) \ U)
    BY <2>2, SizeUnion
  <2> QED
    BY <2>1, <2>3
<1>13. /\ SizeOf(Pending) \in Nat /\ SizeOf(useStash[xf]) \in Nat
       /\ SizeOf(StashesMade(xf) \ U) \in Nat
  <2>1. useStash[xf] \in SUBSET Stashes /\ StashesMade(xf) \ U \in SUBSET Stashes
    BY <1>6
  <2> QED
    BY <1>6, <2>1, SizeNat
<1>14. SizeOf(Pending') <= stashedBlocks'
  <2>1. (Pending \ useStash[xf]) \cup (StashesMade(xf) \ U) \in SUBSET Stashes
    BY <1>6
  <2>2. SizeOf(Pending') <= SizeOf((Pending \ useStash[xf]) \cup (StashesMade(xf) \ U))
    BY <1>11, <2>1, SizeSubset
  <2>3. SizeOf(Pending') \in Nat
    BY <1>11, <2>1, SizeNat
  <2> QED
    BY <1>4, <1>7, <1>8, <1>12, <1>13, <2>2, <2>3
<1>15. newBlocks' \in Nat /\ (newBlocks' = 0 => newBlocks = 0 /\ R = {})
  <2>1. Lost(R) \in Nat /\ (Lost(R) = 0 <=> R = {})
    BY <1>3, LostNat
  <2> QED
    BY <1>4, <1>8, <2>1
<1>16. ASSUME newBlocks' = 0 PROVE SizeOf(Pending') = stashedBlocks'
  <2>1. newBlocks = 0 /\ R = {} /\ Dropped(R) = {} /\ U = {}
    BY <1>5, <1>15, <1>16
  <2>2. \A t \in Transfers : useStash'[t] = useStash[t]
    BY <1>5, <2>1
  <2>3. ASSUME NEW s \in (Pending \ useStash[xf]) \cup StashesMade(xf) PROVE s \in Pending'
    <3>1. PICK t \in Transfers :
             s \in useStash[t] /\ order[s.def] < idx + 1 /\ idx + 1 <= order[t]
      <4>1. CASE s \in Pending \ useStash[xf]
        <5>1. PICK t \in Transfers : s \in useStash[t]
          BY <4>1 DEF Pending
        <5>2. s.use = t /\ s.def \in Transfers /\ order[s.def] < idx /\ idx <= order[t] /\ t # xf
          BY <1>9, <4>1, <5>1 DEF Pending
        <5>3. order[t] # idx /\ order[t] \in Nat /\ order[s.def] \in Nat
          BY <1>6, <5>2
        <5> QED
          BY <1>6, <5>1, <5>2, <5>3
      <4>2. CASE s \in StashesMade(xf)
        <5>1. s.def = xf /\ s \in useStash[s.use] /\ s.use \in Transfers
          BY <1>6, <1>8, <4>2 DEF PlanPaired, Stashes
        <5>2. order[s.def] < order[s.use] /\ order[s.use] \in Nat
          BY <1>6, <1>9, <5>1
        <5> QED
          BY <1>6, <5>1, <5>2
      <4> QED
        BY <2>3, <4>1, <4>2
    <3>2. s \in useStash'[t] /\ s.use = t
      BY <1>9, <2>2, <3>1
    <3> QED
      BY <1>2, <3>1, <3>2 DEF Pending
  <2>4. Pending' = (Pending \ useStash[xf]) \cup (StashesMade(xf) \ U)
    BY <1>11, <2>1, <2>3
  <2>5. SizeOf(Pending') = SizeOf((Pending \ useStash[xf]) \cup (StashesMade(xf) \ U))
    BY Zenon, <2>4
  <2>6. SizeOf(Pending) = stashedBlocks
    BY <1>7, <2>1
  <2> QED
    BY <1>4, <1>7, <1>8, <1>12, <1>13, <2>5, <2>6
(* What is there while a command up to this one runs.                      *)
<1>17. ASSUME NEW i \in DOMAIN transfers, i < idx + 1
       PROVE  SizeOf(LiveAt(i)') <= cache.allowed
  <2>0. i \in Nat
    BY <1>8 DEF PlanOrdered
  <2>1. ASSUME NEW s \in LiveAt(i)'
        PROVE  s \in LiveAt(i) /\ s \notin U
    <3>1. PICK t \in Transfers : s \in useStash'[t]
      BY <2>1 DEF LiveAt
    <3>2. s \in useStash[t] /\ s \notin U /\ order[s.def] <= i /\ i <= order[s.use]
      BY <1>2, <1>5, <1>10, <2>1, <3>1 DEF LiveAt
    <3> QED
      BY <3>1, <3>2 DEF LiveAt
  <2>2. \A j \in DOMAIN transfers : LiveAt(j) \in SUBSET Stashes
    BY <1>9 DEF LiveAt
  <2>3. CASE i < idx
    <3>1. SizeOf(LiveAt(i)) <= cache.allowed
      BY <1>2, <1>8, <2>3 DEF TotalCovers
    <3>2. SizeOf(LiveAt(i)') <= SizeOf(LiveAt(i))
      BY <2>1, <2>2, SizeSubset
    <3>3. SizeOf(LiveAt(i)) \in Nat /\ SizeOf(LiveAt(i)') \in Nat
      BY <2>1, <2>2, SizeNat
    <3> QED
      BY <1>8, <3>1, <3>2, <3>3
  <2>4. CASE i = idx
    <3>1. PICK M : M = StashesMade(xf) \ U
      OBVIOUS
    <3>2. Pending \cup M \in SUBSET Stashes /\ M \in SUBSET Stashes /\ Pending \cap M = {}
      BY <1>6, <3>1
    <3>3. LiveAt(i)' \subseteq Pending \cup M
      BY <1>6, <2>1, <2>4, <3>1
    <3>4. SizeOf(LiveAt(i)') <= SizeOf(Pending \cup M)
      BY <3>2, <3>3, SizeSubset
    <3>5. SizeOf(Pending \cup M) = SizeOf(Pending) + SizeOf(M)
      BY <1>6, <3>2, SizeUnion
    <3>6. SizeOf(LiveAt(i)') \in Nat /\ SizeOf(Pending) \in Nat /\ SizeOf(M) \in Nat
      BY <1>6, <3>2, <3>3, SizeNat
    <3>7. SizeOf(M) = SizeOf(StashesMade(xf) \ U)
      BY Zenon, <3>1
    <3> QED
      BY <1>7, <1>8, <3>4, <3>5, <3>6, <3>7
  <2> QED
    BY <1>6, <1>17, <2>0, <2>3, <2>4
<1>18. TotalCovers'
  <2>1. version >= 2 /\ cache.known /\ idx >= 1
    BY <1>2, <1>8 DEF TotalCovers
  <2>2. version' >= 2 /\ cache'.known /\ idx' >= 1
    BY <1>2, <1>6, <2>1
  <2>3. \A i \in DOMAIN transfers' : i < idx' => SizeOf(LiveAt(i)') <= cache'.allowed
    BY <1>2, <1>17
  <2> QED
    BY <1>4, <1>14, <1>16, <2>2, <2>3 DEF TotalCovers
<1> QED
  BY <1>2, <1>4, <1>7, <1>15, <1>18

LEMMA ReviseStep == PlanInv /\ ReviseStashSize => PlanInv'
<1> SUFFICES ASSUME PlanInv, ReviseStashSize PROVE PlanInv'
  OBVIOUS
<1>1. /\ TotalCovers' /\ stashedBlocks' \in 0..cache.allowed /\ newBlocks' \in Nat
      /\ pc' = "revise" /\ cache' = cache
  BY RoundCovers
<1>2. PICK xf, R : xf = Current /\ R = ReplacedNow
  OBVIOUS
<1>3. /\ PlanOrdered' /\ PlanPaired' /\ SequenceGood'
      /\ StylesFit' /\ StashesNeeded' /\ StashesDistinct'
  BY <1>2, RoundKeeps
<1>4. NotRevised'
  BY <1>1 DEF NotRevised, Revising
<1>5. pc' \in Revising /\ pc' \notin Phases /\ pc' # "aborted"
  BY <1>1 DEF Revising, Phases
<1>6. cache' \in Caches /\ stashedBlocks' \in 0..cache'.allowed
  BY <1>1 DEF PlanInv
<1> QED
  BY <1>1, <1>3, <1>4, <1>5, <1>6 DEF PlanInv

-----------------------------------------------------------------------------
(* The steps of TransferOrder, seen from here.                             *)

LEMMA OrderPhases == OrderStep => pc \in Phases /\ pc # "aborted"
BY DEF OrderStep, GenerateDigraph, CopyEdges, TakeSink, NextSinks, TakeSource, NextSources,
       TakeBest, RecordOrder, RemoveBackwardEdges, ReverseBackwardEdges, EdgesDone,
       StartImprove, PlaceNext, FinishImprove, Phases

(* Only the loops over the edges change what a command reads or stashes.   *)
LEMMA OrderFrame ==
    OrderStep =>
       \/ RemoveBackwardEdges
       \/ ReverseBackwardEdges
       \/ /\ UNCHANGED <<version, src, style, stashBefore, useStash>>
          /\ pc' = "edges" => pc = "record"
BY DEF OrderStep, GenerateDigraph, CopyEdges, TakeSink, NextSinks, TakeSource, NextSources,
       TakeBest, RecordOrder, EdgesDone, StartImprove, PlaceNext, FinishImprove,
       inputVars, stashVars

LEMMA OrderKeeps == PlanInv /\ OrderStep /\ UNCHANGED sizeVars => PlanInv'
<1> SUFFICES ASSUME PlanInv, OrderStep, UNCHANGED sizeVars PROVE PlanInv'
  OBVIOUS
<1>1. pc \in Phases /\ pc # "aborted" /\ IInv /\ PeelInv
  BY OrderPhases DEF PlanInv
<1>2. IInv' /\ PeelInv'
  <2>1. [Next]_vars
    BY DEF Next
  <2>2. IInv'
    BY <1>1, <2>1, NextStep
  <2> QED
    BY <1>1, <2>1, <2>2, PeelNext
<1>3. pc' \in Phases /\ pc' # "aborted" /\ pc' \notin Revising
  BY <1>2 DEF IInv, TypeOK, Phases, Revising
<1>4. /\ cache' = cache /\ stashedBlocks' = stashedBlocks /\ newBlocks' = newBlocks
      /\ stashedBlocks = 0 /\ newBlocks = 0
  BY <1>1 DEF sizeVars, PlanInv, NotRevised, Revising, Phases
<1>5. StylesFit /\ StashesNeeded /\ StashesDistinct
  BY DEF PlanInv
<1>6. /\ src \in [Transfers -> SUBSET Blocks] /\ style \in [Transfers -> {"new", "zero", "diff"}]
      /\ stashBefore \in [Transfers -> Seq(Stashes)] /\ useStash \in [Transfers -> SUBSET Stashes]
      /\ goesBefore \in [Transfers -> SUBSET Transfers]
  BY <1>1 DEF IInv, TypeOK
<1>7. CASE RemoveBackwardEdges
  <2>1. PICK xf : xf = transfers[idx]
    OBVIOUS
  <2>2. /\ pc = "edges" /\ pc' = "edges" /\ version = 1 /\ version' = 1
        /\ idx \in DOMAIN transfers /\ idx' = idx + 1
        /\ UNCHANGED <<order, stashBefore, useStash>>
        /\ \E kept : /\ kept \subseteq src[xf]
                     /\ src' = [src EXCEPT ![xf] = kept]
                     /\ style' = [style EXCEPT ![xf] =
                                    IF @ = "diff" /\ kept = {} THEN "new" ELSE @]
    BY <1>7, <2>1 DEF RemoveBackwardEdges, listVars, stashVars
  <2>3. /\ xf \in Transfers /\ idx \in Nat
        /\ \A t \in Transfers : order[t] \in Nat
    BY <1>1, <2>1, <2>2, CurrentTransfer DEF IInv, TypeOK
  <2>4. StylesFit'
    BY <1>5, <1>6, <2>2, <2>3 DEF StylesFit
  <2>5. \A t \in Transfers : useStash[t] = {}
    BY <1>5, <2>2 DEF StashesNeeded
  <2>6. StashesNeeded'
    BY <2>2, <2>5 DEF StashesNeeded
  <2>7. StashesDistinct'
    <3>1. \A t \in Transfers : \A s \in StashesMade(t) : s.use \in Transfers
      <4>1. \A t \in Transfers : StashesMade(t) \in SUBSET Stashes
        BY <1>6 DEF StashesMade
      <4> QED
        BY <4>1 DEF Stashes
    <3>2. \A t \in Transfers : \A s \in StashesMade(t) : s \in useStash[s.use]
      BY <1>1 DEF IInv, StashesMatched
    <3>3. \A t \in Transfers : StashesMade(t)' = StashesMade(t)
      BY <2>2 DEF StashesMade
    <3>4. \A t \in Transfers : StashesMade(t)' = {}
      BY <2>5, <3>1, <3>2, <3>3
    <3> QED
      BY <1>5, <2>2, <3>4 DEF StashesDistinct
  <2> QED
    BY <1>2, <1>3, <1>4, <2>4, <2>6, <2>7 DEF PlanInv, NotRevised
<1>8. CASE ReverseBackwardEdges
  <2>1. PICK xf, B : xf = transfers[idx] /\ B = Violated(xf)
    OBVIOUS
  <2>2. /\ pc = "edges" /\ pc' = "edges" /\ version >= 2 /\ version' = version
        /\ idx \in DOMAIN transfers /\ idx' = idx + 1
        /\ UNCHANGED <<order, src, style>>
        /\ stashBefore' = [u \in Transfers |->
              IF u \in B THEN Append(stashBefore[u], Stash(u, xf)) ELSE stashBefore[u]]
        /\ useStash' = [useStash EXCEPT ![xf] = @ \cup {Stash(u, xf) : u \in B}]
    BY <1>8, <2>1 DEF ReverseBackwardEdges, listVars, inputVars
  <2>3. /\ xf \in Transfers /\ order[xf] = idx /\ idx \in Nat
        /\ \A t \in Transfers : order[t] \in Nat
    BY <1>1, <2>1, <2>2, CurrentTransfer DEF IInv, TypeOK
  <2>4. B \subseteq Transfers /\ \A u \in B : src[xf] \cap Tgt[u] # {}
    BY <1>1, <1>6, <2>1, <2>2, <2>3, PeelSuffices
    DEF PeelingExact, ViolatedOverlaps, Violated
  <2>5. \A u \in B : /\ Stash(u, xf) \in Stashes
                     /\ Stash(u, xf).use = xf
                     /\ Stash(u, xf).blocks # {}
                     /\ Stash(u, xf).blocks = src[xf] \cap Tgt[Stash(u, xf).def]
    BY <1>6, <2>3, <2>4 DEF Stash, Stashes
  <2>6. StashesNeeded'
    <3> SUFFICES ASSUME NEW t \in Transfers, NEW s \in useStash'[t]
                 PROVE  s.blocks # {} /\ s.blocks = src[t] \cap Tgt[s.def]
      BY <2>2 DEF StashesNeeded
    <3>1. CASE s \in useStash[t]
      BY <1>5, <3>1 DEF StashesNeeded
    <3>2. CASE s \notin useStash[t]
      <4>1. t = xf /\ \E u \in B : s = Stash(u, xf)
        BY <1>6, <2>2, <3>2
      <4> QED
        BY <2>5, <4>1
    <3> QED
      BY <3>1, <3>2
  <2>7. ASSUME NEW t \in Transfers
        PROVE  Injective(stashBefore'[t]) /\ \A s \in StashesMade(t)' : order[s.use] < idx + 1
    <3>1. CASE t \notin B
      <4>1. stashBefore'[t] = stashBefore[t]
        BY <2>2, <3>1
      <4>2. StashesMade(t)' = StashesMade(t) /\ StashesMade(t) \in SUBSET Stashes
        BY <1>6, <4>1 DEF StashesMade
      <4>3. \A s \in StashesMade(t) : order[s.use] < idx /\ order[s.use] \in Nat
        BY <1>5, <2>2, <2>3, <4>2 DEF StashesDistinct, Stashes
      <4> QED
        BY <1>5, <2>3, <4>1, <4>2, <4>3 DEF StashesDistinct
    <3>2. CASE t \in B
      <4>1. PICK q, x, w : q = stashBefore[t] /\ x = Stash(t, xf) /\ w = Append(q, x)
                           /\ w = stashBefore'[t]
        BY <2>2, <3>2
      <4>2. q \in Seq(Stashes) /\ x \in Stashes /\ x.use = xf /\ Injective(q)
        BY <1>5, <1>6, <2>5, <3>2, <4>1 DEF StashesDistinct
      <4>3. /\ DOMAIN w = 1..(Len(q) + 1) /\ DOMAIN q = 1..Len(q) /\ Len(q) \in Nat
            /\ w[Len(q) + 1] = x /\ \A j \in 1..Len(q) : w[j] = q[j] /\ q[j] \in Stashes
        <5>1. q \in Seq(Stashes) /\ x \in Stashes /\ w = Append(q, x)
          BY <4>1, <4>2
        <5> QED
          BY <5>1
      <4>4. \A j \in 1..Len(q) : order[q[j].use] < idx /\ q[j].use \in Transfers
        BY <1>5, <2>2, <4>1, <4>3 DEF StashesDistinct, StashesMade, Stashes
      <4>5. \A j \in 1..Len(q) : q[j] # x
        BY <2>3, <4>2, <4>4
      <4>6. Injective(w)
        BY <4>2, <4>3, <4>5 DEF Injective
      <4>7. \A j \in DOMAIN w : order[w[j].use] < idx + 1
        BY <2>3, <4>2, <4>3, <4>4
      <4>8. \A s \in StashesMade(t)' : \E j \in DOMAIN w : s = w[j]
        BY <4>1 DEF StashesMade
      <4> QED
        BY <4>1, <4>6, <4>7, <4>8
    <3> QED
      BY <3>1, <3>2
  <2>8. StashesDistinct'
    BY <2>2, <2>7 DEF StashesDistinct
  <2>9. StylesFit'
    BY <1>5, <2>2 DEF StylesFit
  <2> QED
    BY <1>2, <1>3, <1>4, <2>6, <2>8, <2>9 DEF PlanInv, NotRevised
<1>9. CASE /\ UNCHANGED <<version, src, style, stashBefore, useStash>>
           /\ pc' = "edges" => pc = "record"
  <2>1. StylesFit' /\ StashesNeeded'
    BY <1>5, <1>9 DEF StylesFit, StashesNeeded
  <2>2. pc' = "edges" => \A t \in Transfers : StashesMade(t) = {}
    BY <1>1, <1>9 DEF IInv, StashesMatched
  <2>3. \A t \in Transfers : StashesMade(t)' = StashesMade(t)
    BY <1>9 DEF StashesMade
  <2>4. StashesDistinct'
    BY <1>5, <1>9, <2>2, <2>3 DEF StashesDistinct
  <2> QED
    BY <1>2, <1>3, <1>4, <2>1, <2>4 DEF PlanInv, NotRevised
<1> QED
  BY <1>7, <1>8, <1>9, OrderFrame

LEMMA PlanStutterStep == PlanInv /\ UNCHANGED planVars => PlanInv'
<1> SUFFICES ASSUME PlanInv, UNCHANGED planVars PROVE PlanInv'
  OBVIOUS
<1>1. UNCHANGED vars /\ UNCHANGED sizeVars
  BY DEF planVars
<1>2. /\ UNCHANGED <<pc, idx, transfers, order, version, src, style, stashBefore, useStash>>
      /\ UNCHANGED <<cache, stashedBlocks, newBlocks>>
  BY <1>1 DEF vars, sizeVars, listVars, inputVars, stashVars
<1>3. pc \in Phases => IInv' /\ PeelInv'
  BY <1>1, StutterStep, PeelStutter DEF PlanInv
<1>4. PlanOrdered => PlanOrdered'
  BY <1>2 DEF PlanOrdered, Permutation
<1>5. \A t \in Transfers : StashesMade(t)' = StashesMade(t)
  BY <1>2 DEF StashesMade
<1>6. PlanPaired => PlanPaired'
  <2>1. ASSUME PlanOrdered PROVE \A t \in Transfers : \A s \in useStash[t] : s.def \in Transfers
    BY <2>1 DEF PlanOrdered, Stashes
  <2> QED
    BY <1>2 DEF PlanPaired, StashesMade
<1>7. SequenceGood => SequenceGood'
  BY <1>2 DEF SequenceGood, Stashed
<1>8. Pending' = Pending /\ \A i : LiveAt(i)' = LiveAt(i)
  BY <1>2 DEF Pending, LiveAt
<1>9. SizeOf(Pending') = SizeOf(Pending) /\ \A i : SizeOf(LiveAt(i)') = SizeOf(LiveAt(i))
  BY Zenon, <1>8
<1>10. TotalCovers => TotalCovers'
  BY <1>2, <1>9 DEF TotalCovers
<1>11. StylesFit' /\ StashesNeeded'
  BY <1>2 DEF PlanInv, StylesFit, StashesNeeded
<1>12. StashesDistinct'
  BY <1>2, <1>5 DEF PlanInv, StashesDistinct
<1>13. NotRevised'
  BY <1>2 DEF PlanInv, NotRevised
<1> QED
  BY <1>2, <1>3, <1>4, <1>6, <1>7, <1>10, <1>11, <1>12, <1>13 DEF PlanInv

(* Once the order is final, only the place in the program changes.         *)
LEMMA PlanStays ==
    ASSUME PlanInv, pc' \in Revising,
           UNCHANGED <<transfers, order, version, src, style, stashBefore, useStash>>,
           UNCHANGED sizeVars, idx' \in Nat,
           PlanOrdered, PlanPaired, SequenceGood, TotalCovers'
    PROVE  PlanInv'
<1>1. UNCHANGED <<cache, stashedBlocks, newBlocks>> /\ pc' \notin Phases /\ pc' # "aborted"
      /\ pc' # "edges"
  BY DEF sizeVars, Revising, Phases
<1>2. PlanOrdered'
  BY DEF PlanOrdered, Permutation
<1>3. PlanPaired'
  BY DEF PlanPaired, StashesMade
<1>4. SequenceGood'
  BY DEF SequenceGood, Stashed
<1>5. StylesFit' /\ StashesNeeded'
  BY DEF PlanInv, StylesFit, StashesNeeded
<1>6. StashesDistinct'
  BY <1>1 DEF PlanInv, StashesDistinct
<1>7. NotRevised'
  BY DEF NotRevised
<1> QED
  BY <1>1, <1>2, <1>3, <1>4, <1>5, <1>6, <1>7 DEF PlanInv

LEMMA StartReviseStep == PlanInv /\ StartRevise => PlanInv'
<1> SUFFICES ASSUME PlanInv, StartRevise PROVE PlanInv'
  OBVIOUS
<1>1. /\ pc = "sequenced" /\ idx' = 1
      /\ pc' = IF version >= 2 /\ cache.known THEN "revise" ELSE "check"
      /\ UNCHANGED <<transfers, order, version, src, style, stashBefore, useStash>>
      /\ UNCHANGED sizeVars
  BY DEF StartRevise, listVars, inputVars, stashVars
<1>2. IInv /\ pc' \in Revising /\ idx' \in Nat
  BY <1>1 DEF PlanInv, Phases, Revising
<1>3. /\ UNCHANGED <<cache, stashedBlocks, newBlocks>> /\ stashedBlocks = 0 /\ newBlocks = 0
  BY <1>1 DEF sizeVars, PlanInv, NotRevised, Revising
<1>4. PlanOrdered
  BY <1>1, <1>2 DEF IInv, TypeOK, PlanOrdered, OrderIsPlace, Sequenced
<1>5. PlanPaired
  BY <1>1, <1>2 DEF IInv, StashesMatched, PlanPaired, Sequenced
<1>6. SequenceGood
  BY <1>1, <1>2 DEF IInv, NoReadAfterWrite
<1>7. SizeOf(Pending') = 0
  <2>1. \A t \in Transfers : \A s \in useStash[t] : order[s.def] \in Nat /\ order[s.def] >= 1
    <3>1. \A t \in Transfers : \A s \in useStash[t] : s.def \in Transfers
      BY <1>4 DEF PlanOrdered, Stashes
    <3>2. \A t \in Transfers : order[t] \in DOMAIN transfers
      BY <1>4 DEF PlanOrdered
    <3>3. \A i \in DOMAIN transfers : i \in Nat /\ i >= 1
      BY <1>4 DEF PlanOrdered
    <3> QED
      BY <3>1, <3>2, <3>3
  <2>2. Pending' = {}
    BY <1>1, <2>1 DEF Pending
  <2> QED
    BY Zenon, <2>2, SizeEmpty
<1>8. \A i \in DOMAIN transfers : ~(i < 1)
  BY <1>4 DEF PlanOrdered
<1>9. TotalCovers'
  BY <1>1, <1>3, <1>7, <1>8 DEF TotalCovers
<1> QED
  BY <1>1, <1>2, <1>4, <1>5, <1>6, <1>9, PlanStays

LEMMA ReviseDoneStep == PlanInv /\ ReviseDone => PlanInv'
<1> SUFFICES ASSUME PlanInv, ReviseDone PROVE PlanInv'
  OBVIOUS
<1>1. /\ pc = "revise" /\ idx \notin DOMAIN transfers /\ pc' = "check" /\ idx' = idx
      /\ UNCHANGED <<transfers, order, version, src, style, stashBefore, useStash>>
      /\ UNCHANGED sizeVars
  BY DEF ReviseDone, listVars, inputVars, stashVars
<1>2. PlanOrdered /\ PlanPaired /\ SequenceGood /\ TotalCovers
  BY <1>1 DEF PlanInv, Revising
<1>3. pc' \in Revising /\ idx' \in Nat
  BY <1>1, <1>2 DEF PlanOrdered, Revising
<1>4. \A i \in DOMAIN transfers : i < idx
  BY <1>1, <1>2 DEF PlanOrdered, TotalCovers
<1>5. \A i \in DOMAIN transfers : SizeOf(LiveAt(i)) <= cache.allowed
  BY <1>1, <1>2, <1>4 DEF TotalCovers
<1>6. \A i : SizeOf(LiveAt(i)') = SizeOf(LiveAt(i))
  <2>1. \A i : LiveAt(i)' = LiveAt(i)
    BY <1>1 DEF LiveAt
  <2> QED
    BY Zenon, <2>1
<1>7. TotalCovers'
  BY <1>1, <1>5, <1>6 DEF TotalCovers, sizeVars
<1> QED
  BY <1>1, <1>2, <1>3, <1>7, PlanStays

LEMMA AssertStep == PlanInv /\ AssertSequenceGood => PlanInv'
<1> SUFFICES ASSUME PlanInv, AssertSequenceGood PROVE PlanInv'
  OBVIOUS
<1>1. /\ pc = "check" /\ pc' = (IF SequenceGood THEN "planned" ELSE "aborted") /\ idx' = idx
      /\ UNCHANGED <<transfers, order, version, src, style, stashBefore, useStash>>
      /\ UNCHANGED sizeVars
  BY DEF AssertSequenceGood, listVars, inputVars, stashVars
<1>2. PlanOrdered /\ PlanPaired /\ SequenceGood /\ TotalCovers
  BY <1>1 DEF PlanInv, Revising
<1>3. pc' = "planned" /\ pc' \in Revising /\ idx' \in Nat
  BY <1>1, <1>2 DEF PlanOrdered, Revising
<1>4. \A i : SizeOf(LiveAt(i)') = SizeOf(LiveAt(i))
  <2>1. \A i : LiveAt(i)' = LiveAt(i)
    BY <1>1 DEF LiveAt
  <2> QED
    BY Zenon, <2>1
<1>5. TotalCovers'
  BY <1>1, <1>2, <1>3, <1>4 DEF TotalCovers, sizeVars
<1> QED
  BY <1>1, <1>2, <1>3, <1>5, PlanStays

LEMMA InitPlanInv == PlanInit => PlanInv
<1> SUFFICES ASSUME PlanInit PROVE PlanInv
  OBVIOUS
<1>1. IInv /\ PeelInv /\ Init
  BY InitIInv, PeelInit DEF PlanInit
<1>2. /\ pc = "digraph" /\ cache \in Caches /\ stashedBlocks = 0 /\ newBlocks = 0
      /\ stashBefore = [t \in Transfers |-> <<>>] /\ useStash = [t \in Transfers |-> {}]
      /\ style = [t \in Transfers |-> InitialStyle(t, src[t])]
  BY DEF PlanInit, Init
<1>3. StylesFit
  BY <1>2 DEF StylesFit, InitialStyle
<1>4. StashesNeeded /\ StashesDistinct /\ NotRevised
  BY <1>2 DEF StashesNeeded, StashesDistinct, NotRevised, Injective
<1>5. stashedBlocks \in 0..cache.allowed
  BY <1>2, CacheAssumption
<1> QED
  BY <1>1, <1>2, <1>3, <1>4, <1>5 DEF PlanInv, Phases, Revising

LEMMA PlanNextStep == PlanInv /\ [PlanNext]_planVars => PlanInv'
<1> SUFFICES ASSUME PlanInv, [PlanNext]_planVars PROVE PlanInv'
  OBVIOUS
<1>1. CASE PlanStep
  BY <1>1, OrderKeeps, StartReviseStep, ReviseStep, ReviseDoneStep, AssertStep DEF PlanStep
<1>2. CASE UNCHANGED planVars
  BY <1>2, PlanStutterStep
<1> QED
  BY <1>1, <1>2 DEF PlanNext, PlanReturned

(* A round replaces nothing when everything fits as it is.                 *)
LEMMA RoundSpares ==
    ASSUME PlanInv, ReviseStashSize, newBlocks = 0, NeedAt(idx) <= cache.allowed
    PROVE  newBlocks' = 0
<1>1. PICK xf, U, W : xf = Current /\ U = Fitting(xf).unmade /\ W = StashesMade(xf)
  OBVIOUS
<1>2. /\ pc = "revise" /\ idx \in DOMAIN transfers
      /\ SaneNow => Revised(Current, TotalNow, ReplacedNow, Dropped(ReplacedNow))
  BY RoundOfRevise
<1>3. SaneNow /\ ReplacedNow \in SUBSET Transfers
  BY <1>2, RoundIsSane
<1>4. newBlocks' = newBlocks + Lost(ReplacedNow)
  BY <1>2, <1>3 DEF Revised
<1>5. /\ xf \in Transfers /\ Pending \in SUBSET Stashes /\ W \in SUBSET Stashes
      /\ useStash[xf] \subseteq Pending /\ Pending \cap W = {}
      /\ LiveAt(idx) = Pending \cup W
  BY <1>1, <1>2, RoundMeasures
<1>6. /\ Fitting(xf).total = stashedBlocks + SizeOf(W \ U)
      /\ stashedBlocks + SizeOf(W) <= cache.allowed => U = {}
      /\ TotalNow = Fitting(xf).total - SizeOf(useStash[xf])
      /\ TotalNow \in 0..cache.allowed
      /\ newBlocks = 0 => SizeOf(Pending) = stashedBlocks
  BY <1>1, <1>2, RoundFits
<1>7. SizeOf(LiveAt(idx)) = stashedBlocks + SizeOf(W)
  <2>1. SizeOf(Pending \cup W) = SizeOf(Pending) + SizeOf(W)
    BY <1>5, SizeUnion
  <2>2. SizeOf(LiveAt(idx)) = SizeOf(Pending \cup W)
    BY Zenon, <1>5
  <2> QED
    BY <1>6, <2>1, <2>2
<1>8. stashedBlocks \in Nat /\ cache.allowed \in Nat /\ src \in [Transfers -> SUBSET Blocks]
  BY <1>2, CacheAssumption DEF PlanInv, PlanOrdered, Revising
<1>9. SizeOf(W) \in Nat /\ SizeOf(useStash[xf]) \in Nat /\ Cardinality(src[xf]) \in Nat
  <2>1. useStash[xf] \in SUBSET Stashes
    BY <1>5
  <2>2. IsFiniteSet(src[xf])
    BY <1>5, <1>8, BlocksAssumption, FS_Subset
  <2> QED
    BY <1>5, <2>1, <2>2, SizeNat, FS_CardinalityType
<1>10. NeedAt(idx) = SizeOf(LiveAt(idx)) + (IF StashesImplicitly(xf)
                                            THEN Cardinality(src[xf]) ELSE 0)
  BY <1>1 DEF NeedAt, Current
<1>11. U = {}
  <2>1. stashedBlocks + SizeOf(W) <= cache.allowed
    BY <1>7, <1>8, <1>9, <1>10
  <2> QED
    BY <1>6, <2>1
<1>12. SizeOf(W \ U) = SizeOf(W)
  <2>1. W \ U = W
    BY <1>11
  <2> QED
    BY Zenon, <2>1
<1>13. ~(StashesImplicitly(xf) /\ Exceeds(TotalNow, Cardinality(src[xf])))
  BY <1>6, <1>7, <1>8, <1>9, <1>10, <1>12 DEF Exceeds
<1>14. ReplacedNow = {}
  BY <1>1, <1>11, <1>13 DEF ReplacedNow
<1>15. Lost(ReplacedNow) = 0
  BY <1>3, <1>14, LostNat
<1> QED
  BY <1>4, <1>15

-----------------------------------------------------------------------------

(* The strengthening that the theorems below rest on holds always.         *)
THEOREM PlanInductiveInvariant == PlanSpec => []PlanInv
BY InitPlanInv, PlanNextStep, PTL DEF PlanSpec

(* Types, and the running total of ReviseStashSize: a number of blocks     *)
(* that is never negative and never more than the cache takes.             *)
THEOREM PlanTypeCorrect == PlanSpec => []PlanTypeOK
<1>1. PlanInv => PlanTypeOK
  BY DEF PlanInv, PlanTypeOK, PlanOrdered, IInv, TypeOK
<1> QED
  BY <1>1, PlanInductiveInvariant, PTL

(* The stashes of a plan that is being revised.                            *)
LEMMA ConsistentPlan == PlanInv => PlanConsistent
<1> SUFFICES ASSUME PlanInv, pc \in Revising
             PROVE  \A t \in Transfers :
                       /\ \A s \in useStash[t] : s.use = t /\ s \in StashesMade(s.def)
                       /\ \A s \in StashesMade(t) : s.def = t /\ s \in useStash[s.use]
  BY DEF PlanInv, PlanConsistent, Revising
<1> QED
  BY DEF PlanInv, PlanPaired

(* The double-check of Compute (AssertSequenceGood) and the assertions of  *)
(* ReviseStashSize never fail, and the stashes that are left after the     *)
(* revision are made before they are used and used once made.              *)
THEOREM PlanStaysConsistent == PlanSpec => []PlanConsistent
BY ConsistentPlan, PlanInductiveInvariant, PTL

(* What ReviseStashSize leaves in the plan never stashes more at once than *)
(* the cache partition takes.                                              *)
THEOREM ExplicitStashesFit == PlanSpec => []ExplicitStashFits
<1>1. PlanInv => ExplicitStashFits
  BY DEF PlanInv, ExplicitStashFits, TotalCovers, Revising
<1> QED
  BY <1>1, PlanInductiveInvariant, PTL

(* A round of the revision, or any other step, on a plan that fits.        *)
LEMMA FittingRound ==
    PlanInv /\ [PlanNext]_planVars =>
       [/\ newBlocks = 0 /\ pc = "revise"
        /\ \A i \in DOMAIN transfers : NeedAt(i) <= cache.allowed
        => newBlocks' = 0]_planVars
<1> SUFFICES ASSUME PlanInv, PlanNext, newBlocks = 0, pc = "revise",
                    \A i \in DOMAIN transfers : NeedAt(i) <= cache.allowed
             PROVE  newBlocks' = 0
  OBVIOUS
<1>1. CASE ReviseStashSize
  <2>1. idx \in DOMAIN transfers
    BY <1>1, RoundOfRevise
  <2> QED
    BY <1>1, <2>1, RoundSpares
<1>2. CASE UNCHANGED sizeVars
  BY <1>2 DEF sizeVars
<1> QED
  BY <1>1, <1>2 DEF PlanNext, PlanStep, PlanReturned, StartRevise, ReviseDone,
     AssertSequenceGood, planVars

(* ReviseStashSize gives up no command of a plan that fits the cache.      *)
THEOREM FittingPlansKept == PlanSpec => FittingPlanKept
BY FittingRound, PlanInductiveInvariant, PTL DEF PlanSpec, FittingPlanKept

-----------------------------------------------------------------------------
(* The folds over the stashes of a transfer: the states of the writer one  *)
(* after the other.                                                        *)

Handle(making, w, s) == IF making THEN MakeStash(w, s) ELSE TakeStash(w, s)

FolderRule(f, m, making, w, q) ==
    f = [U \in SUBSET (1..m) |-> IF U = {} THEN w
                                 ELSE Handle(making, f[U \ {Max(U)}], q[Max(U)])]

Folder(m, making, w, q) == CHOOSE f : FolderRule(f, m, making, w, q)

LEMMA MaxIsLast ==
    ASSUME NEW m \in Nat, NEW U \in SUBSET (1..m), m \in U
    PROVE  Max(U) = m
<1>1. \A x \in U : m >= x
  OBVIOUS
<1>2. \A x \in U : (\A y \in U : x >= y) => x = m
  OBVIOUS
<1> QED
  BY <1>1, <1>2 DEF Max

LEMMA FolderExists ==
    ASSUME NEW n \in Nat, NEW making, NEW w, NEW q
    PROVE  FolderRule(Folder(n, making, w, q), n, making, w, q)
<1> DEFINE B == {m \in 0..n : \E f : FolderRule(f, m, making, w, q)}
<1>1. 0 \in B
  <2> DEFINE z == [U \in SUBSET (1..0) |-> w]
  <2>1. \A U \in SUBSET (1..0) : U = {}
    OBVIOUS
  <2>2. z = [U \in SUBSET (1..0) |-> IF U = {} THEN w
                                 ELSE Handle(making, z[U \ {Max(U)}], q[Max(U)])]
    BY <2>1
  <2>3. FolderRule(z, 0, making, w, q)
    <3> HIDE DEF z
    <3> QED
      BY <2>2 DEF FolderRule
  <2> QED
    BY <2>3
<1>2. ASSUME NEW m \in 1..n, m - 1 \in B PROVE m \in B
  <2>1. PICK f : FolderRule(f, m - 1, making, w, q)
    BY <1>2
  <2>2. \A U \in SUBSET (1..(m-1)) :
           f[U] = IF U = {} THEN w ELSE Handle(making, f[U \ {Max(U)}], q[Max(U)])
    BY Zenon, <2>1 DEF FolderRule
  <2> DEFINE g == [U \in SUBSET (1..m) |->
                     IF m \in U THEN Handle(making, f[U \ {m}], q[m]) ELSE f[U]]
  <2>3. \A U \in SUBSET (1..m) : m \notin U => U \in SUBSET (1..(m-1))
    OBVIOUS
  <2>3a. \A U \in SUBSET (1..m) : U \ {m} \in SUBSET (1..(m-1))
                                  /\ U \ {m} \in SUBSET (1..m) /\ m \notin U \ {m}
    OBVIOUS
  <2>3b. \A U \in SUBSET (1..m) : m \in U => Max(U) = m /\ U # {}
    BY MaxIsLast
  <2>3c. \A U \in SUBSET (1..m) : U \ {Max(U)} \in SUBSET (1..m) /\ (m \notin U => m \notin U \ {Max(U)})
    OBVIOUS
  <2>4. \A U \in SUBSET (1..m) :
           g[U] = IF U = {} THEN w ELSE Handle(making, g[U \ {Max(U)}], q[Max(U)])
    <3> TAKE U \in SUBSET (1..m)
    <3>1. CASE m \in U
      <4>1. g[U] = Handle(making, f[U \ {m}], q[m])
        BY Zenon, <3>1
      <4>2. g[U \ {m}] = f[U \ {m}]
        BY Zenon, <2>3a
      <4> QED
        BY Zenon, <2>3b, <3>1, <4>1, <4>2
    <3>2. CASE m \notin U
      <4>1. g[U] = f[U]
        BY Zenon, <3>2
      <4>2. g[U \ {Max(U)}] = f[U \ {Max(U)}]
        BY Zenon, <2>3c, <3>2
      <4> QED
        BY Zenon, <2>2, <2>3, <3>2, <4>1, <4>2
    <3> QED
      BY <3>1, <3>2
  <2>5. FolderRule(g, m, making, w, q)
    <3>1. g = [U \in SUBSET (1..m) |-> g[U]]
      OBVIOUS
    <3> HIDE DEF g
    <3> QED
      BY Zenon, <2>4, <3>1 DEF FolderRule
  <2> HIDE DEF g
  <2> QED
    BY <2>5
<1>3. B = 0..n
  <2>1. B \in SUBSET (0..n)
    OBVIOUS
  <2> HIDE DEF B
  <2> QED
    BY <1>1, <1>2, <2>1, UpTo
<1>4. \E f : FolderRule(f, n, making, w, q)
  BY <1>3
<1> QED
  BY Zenon, <1>4 DEF Folder

(* k passes through the states of the fold.                                *)
Passes(k, making, w, q) ==
    k[0] = w /\ \A i \in 1..Len(q) : k[i] = Handle(making, k[i-1], q[i])

LEMMA FoldPasses ==
    ASSUME NEW q, Len(q) \in Nat, DOMAIN q = 1..Len(q), NEW making, NEW w
    PROVE  \E k : Passes(k, making, w, q)
                  /\ k[Len(q)] = Folder(Len(q), making, w, q)[DOMAIN q]
<1>1. PICK n, f : n = Len(q) /\ f = Folder(n, making, w, q)
  OBVIOUS
<1>2. FolderRule(f, n, making, w, q)
  BY <1>1, FolderExists
<1>3. \A U \in SUBSET (1..n) :
         f[U] = IF U = {} THEN w ELSE Handle(making, f[U \ {Max(U)}], q[Max(U)])
  BY Zenon, <1>2 DEF FolderRule
<1>4. PICK k : k = [i \in 0..n |-> f[1..i]]
  OBVIOUS
<1>5. \A i \in 0..n : k[i] = f[1..i] /\ 1..i \in SUBSET (1..n)
  BY <1>1, <1>4
<1>6. k[0] = w
  <2>1. 1..0 = {} /\ 0 \in 0..n
    BY <1>1
  <2> QED
    BY <1>3, <1>5, <2>1
<1>7. ASSUME NEW i \in 1..n PROVE k[i] = Handle(making, k[i-1], q[i])
  <2>0. i \in Nat /\ i \in 1..i /\ 1..i \in SUBSET (1..i)
    BY <1>1
  <2>1. i \in 0..n /\ i - 1 \in 0..n
    BY <1>1, <2>0
  <2>1a. 1..i # {}
    BY <2>0
  <2>2. Max(1..i) = i
    BY <2>0, MaxIsLast
  <2>3. (1..i) \ {i} = 1..(i-1)
    BY <2>0
  <2>4. f[1..i] = Handle(making, f[(1..i) \ {i}], q[i])
    BY Zenon, <1>3, <1>5, <2>1, <2>1a, <2>2
  <2> QED
    BY Zenon, <1>5, <2>1, <2>3, <2>4
<1>8. n \in 0..n
  BY <1>1
<1> QED
  BY Zenon, <1>1, <1>5, <1>6, <1>7, <1>8 DEF Passes

Maker(w, q) ==
    CHOOSE iter : iter = [s \in SUBSET DOMAIN q |->
                            IF s = {} THEN w ELSE MakeStash(iter[s \ {Max(s)}], q[Max(s)])]

LEMMA MakingPasses ==
    ASSUME NEW q, Len(q) \in Nat, DOMAIN q = 1..Len(q), NEW w
    PROVE  \E k : Passes(k, TRUE, w, q) /\ FoldLeft(MakeStash, w, q) = k[Len(q)]
<1>1. FoldLeft(MakeStash, w, q) = Maker(w, q)[DOMAIN q]
  BY Zenon DEF FoldLeft, MapThenFoldSet, Maker
<1>2. \A f : FolderRule(f, Len(q), TRUE, w, q)
             <=> f = [U \in SUBSET DOMAIN q |->
                        IF U = {} THEN w ELSE MakeStash(f[U \ {Max(U)}], q[Max(U)])]
  BY Zenon DEF FolderRule, Handle
<1>3. Maker(w, q) = Folder(Len(q), TRUE, w, q)
  BY <1>2 DEF Maker, Folder
<1> QED
  BY <1>1, <1>3, FoldPasses

Taker(w, q) ==
    CHOOSE iter : iter = [s \in SUBSET DOMAIN q |->
                            IF s = {} THEN w ELSE TakeStash(iter[s \ {Max(s)}], q[Max(s)])]

LEMMA TakingPasses ==
    ASSUME NEW q, Len(q) \in Nat, DOMAIN q = 1..Len(q), NEW w
    PROVE  \E k : Passes(k, FALSE, w, q) /\ FoldLeft(TakeStash, w, q) = k[Len(q)]
<1>1. FoldLeft(TakeStash, w, q) = Taker(w, q)[DOMAIN q]
  BY Zenon DEF FoldLeft, MapThenFoldSet, Taker
<1>2. \A f : FolderRule(f, Len(q), FALSE, w, q)
             <=> f = [U \in SUBSET DOMAIN q |->
                        IF U = {} THEN w ELSE TakeStash(f[U \ {Max(U)}], q[Max(U)])]
  BY Zenon DEF FolderRule, Handle
<1>3. Taker(w, q) = Folder(Len(q), FALSE, w, q)
  BY <1>2 DEF Taker, Folder
<1> QED
  BY <1>1, <1>3, FoldPasses

-----------------------------------------------------------------------------
(* Hashes, and the files they name.                                        *)

Hashes == {HashBlocks(blocks) : blocks \in SUBSET Blocks}

HashOf(s) == HashBlocks(s.blocks)

LEMMA BlocksCount ==
    ASSUME NEW blocks \in SUBSET Blocks
    PROVE  IsFiniteSet(blocks) /\ Cardinality(blocks) \in Nat
BY BlocksAssumption, FS_Subset, FS_CardinalityType

LEMMA StashHasBlocks ==
    ASSUME NEW s \in Stashes
    PROVE  /\ s.blocks \in SUBSET Blocks /\ HashOf(s) \in Hashes
           /\ Cardinality(s.blocks) \in Nat
<1>1. s.blocks \in SUBSET Blocks
  BY DEF Stashes
<1> QED
  BY <1>1, BlocksCount DEF HashOf, Hashes

LEMMA HashLength ==
    ASSUME NEW blocks \in SUBSET Blocks
    PROVE  /\ DOMAIN HashBlocks(blocks) = 1..Cardinality(blocks)
           /\ Len(HashBlocks(blocks)) = Cardinality(blocks)
<1>1. PICK n : n = Cardinality(blocks) /\ n \in Nat
  BY BlocksCount
<1>2. PICK at : at = Ascending(blocks) /\ DOMAIN at = 1..n
  <2>1. DOMAIN Ascending(blocks) = 1..n
    BY Zenon, <1>1 DEF Ascending
  <2> QED
    BY <2>1
<1>3. HashBlocks(blocks) = [i \in 1..n |-> SourceData[at[i]]]
  BY Zenon, <1>2 DEF HashBlocks
<1>4. \A f : f = [i \in 1..n |-> SourceData[at[i]]] => DOMAIN f = 1..n /\ Len(f) = n
  BY <1>1
<1> QED
  BY <1>1, <1>3, <1>4

LEMMA HashesFinite == IsFiniteSet(Hashes)
<1> DEFINE f == [blocks \in SUBSET Blocks |-> HashBlocks(blocks)]
<1>1. IsFiniteSet(SUBSET Blocks)
  BY BlocksAssumption, FS_SUBSET
<1>2. f \in Surjection(SUBSET Blocks, Hashes)
  BY DEF Surjection, Hashes
<1> HIDE DEF f
<1> QED
  BY <1>1, <1>2, FS_Surjection

Lengths == [h \in Hashes |-> Len(h)]

LEMMA LengthsNat ==
    /\ \A h \in Hashes : Lengths[h] \in Nat
    /\ \A s \in Stashes : Lengths[HashOf(s)] = Cardinality(s.blocks)
<1>1. ASSUME NEW h \in Hashes PROVE Lengths[h] \in Nat
  BY HashLength, BlocksCount DEF Hashes, Lengths
<1>2. ASSUME NEW s \in Stashes PROVE Lengths[HashOf(s)] = Cardinality(s.blocks)
  BY StashHasBlocks, HashLength DEF Lengths, HashOf
<1> QED
  BY <1>1, <1>2

(* The files that exist, each with the number of stashes that wait in it.  *)
Counters == UNION {[H -> Nat \ {0}] : H \in SUBSET Hashes}

LEMMA CountersAreBags ==
    ASSUME NEW B \in Counters
    PROVE  IsABag(B) /\ BagToSet(B) \in SUBSET Hashes
BY DEF Counters, IsABag, BagToSet

LEMMA OneMoreWaits ==
    ASSUME NEW B \in Counters, NEW h \in Hashes, NEW C, C = B (+) SetToBag({h})
    PROVE  /\ C \in Counters
           /\ BagToSet(C) = BagToSet(B) \cup {h}
           /\ Waiting(h, C) = Waiting(h, B) + 1
           /\ \A g \in Hashes \ {h} : Waiting(g, C) = Waiting(g, B)
<1>1. PICK H : H \in SUBSET Hashes /\ B \in [H -> Nat \ {0}]
  BY DEF Counters
<1>2. C = [e \in H \cup {h} |-> (IF e \in H THEN B[e] ELSE 0) + (IF e = h THEN 1 ELSE 0)]
  BY <1>1 DEF (+), SetToBag
<1>3. C \in [H \cup {h} -> Nat \ {0}]
  BY <1>1, <1>2
<1>4. C \in Counters
  BY <1>1, <1>3 DEF Counters
<1> QED
  BY <1>1, <1>2, <1>3, <1>4 DEF BagToSet, BagIn, Waiting

LEMMA OneLessWaits ==
    ASSUME NEW B \in Counters, NEW h \in Hashes, BagIn(h, B), NEW C, C = B (-) SetToBag({h})
    PROVE  /\ C \in Counters
           /\ Waiting(h, C) = Waiting(h, B) - 1
           /\ BagIn(h, C) => BagToSet(C) = BagToSet(B)
           /\ ~BagIn(h, C) => BagToSet(C) = BagToSet(B) \ {h}
           /\ \A g \in Hashes \ {h} : Waiting(g, C) = Waiting(g, B)
<1>1. PICK H : H \in SUBSET Hashes /\ B \in [H -> Nat \ {0}] /\ h \in H
  BY DEF Counters, BagIn, BagToSet
<1>2. PICK D : D = [e \in H |-> IF e = h THEN B[e] - 1 ELSE B[e]]
  OBVIOUS
<1>3. C = [e \in {d \in H : D[d] > 0} |-> D[e]]
  BY <1>1, <1>2 DEF (-), SetToBag
<1>4. PICK K : K = {d \in H : D[d] > 0}
  OBVIOUS
<1>5. K \in SUBSET Hashes /\ C \in [K -> Nat \ {0}] /\ \A e \in K : C[e] = D[e]
  <2>1. K \in SUBSET Hashes
    BY <1>1, <1>4
  <2>2. C = [e \in K |-> D[e]]
    BY Zenon, <1>3, <1>4
  <2>3. \A e \in K : D[e] \in Nat \ {0}
    BY <1>1, <1>2, <1>4
  <2> QED
    BY <2>1, <2>2, <2>3
<1>6. C \in Counters
  BY <1>5 DEF Counters
<1>7. \A e \in H : e # h => e \in K
  BY <1>1, <1>2, <1>4
<1>8. DOMAIN C = K /\ DOMAIN B = H
  BY <1>1, <1>5
<1>9. (h \in K => K = H) /\ (h \notin K => K = H \ {h})
  BY <1>4, <1>7
<1>10. h \notin K => B[h] = 1
  BY <1>1, <1>2, <1>4
<1>11. h \in K => C[h] = B[h] - 1
  BY <1>1, <1>2, <1>5
<1>12. \A g \in K \ {h} : C[g] = B[g]
  BY <1>2, <1>4, <1>5
<1>13. Waiting(h, C) = Waiting(h, B) - 1
  BY <1>1, <1>8, <1>10, <1>11 DEF Waiting, BagIn, BagToSet
<1>14. \A g \in Hashes \ {h} : Waiting(g, C) = Waiting(g, B)
  BY <1>4, <1>7, <1>8, <1>12 DEF Waiting, BagIn, BagToSet
<1> QED
  BY <1>6, <1>8, <1>9, <1>13, <1>14 DEF BagIn, BagToSet

-----------------------------------------------------------------------------
(* The writer: its types.                                                  *)

Keys == Nat \cup Hashes

Names == [key : Keys, blocks : SUBSET Blocks]

Commands ==
    [op : {"stash", "free", "move", "bsdiff", "new", "zero", "erase"}, tgt : SUBSET Blocks,
     src : SUBSET Blocks, key : Keys, refs : SUBSET Names]

Writers ==
    [ids : SUBSET (Stashes \X Nat), free : SUBSET Nat, next : Nat, refs : Counters,
     stashed : Int, peak : Nat, touched : SUBSET Blocks, frees : Seq(Commands),
     freeSize : Nat, total : Nat, out : Seq(Commands)]

LEMMA LeastIn ==
    ASSUME NEW T \in SUBSET Nat, T # {}
    PROVE  Min(T) \in T
<1>1. PICK m \in T : \A k \in T : ~(k < m)
  <2>1. \E m \in T : \A k \in T : ~(<<k, m>> \in OpToRel(<, Nat))
    BY WFMin, NatLessThanWellFounded
  <2> QED
    BY <2>1 DEF OpToRel
<1>2. \A k \in T : m <= k
  BY <1>1
<1> QED
  BY <1>2 DEF Min

(* The slot that the next stash gets.                                      *)
FreshSlot(w) == IF w.free = {} THEN w.next ELSE Min(w.free)

-----------------------------------------------------------------------------
(* What MakeStash makes of a writer.                                       *)

LEMMA FreshIsNat ==
    ASSUME NEW w \in Writers
    PROVE  FreshSlot(w) \in Nat /\ (w.free # {} => FreshSlot(w) \in w.free)
BY LeastIn DEF Writers, FreshSlot

SlotTaken(v, w, s) ==
    /\ v \in Writers
    /\ v.ids = w.ids \cup {<<s, FreshSlot(w)>>}
    /\ v.free = w.free \ {FreshSlot(w)}
    /\ v.next = IF w.free = {} THEN w.next + 1 ELSE w.next
    /\ v.refs = w.refs /\ v.stashed = w.stashed /\ v.peak = w.peak /\ v.touched = w.touched
    /\ v.frees = w.frees /\ v.freeSize = w.freeSize /\ v.total = w.total /\ v.out = w.out

LEMMA TakeSlotTakes ==
    ASSUME NEW w \in Writers, NEW s \in Stashes
    PROVE  SlotTaken(TakeSlot(w, s), w, s)
<1>1. FreshSlot(w) \in Nat /\ w.ids \in SUBSET (Stashes \X Nat) /\ w.free \in SUBSET Nat
      /\ w.next \in Nat
  BY FreshIsNat DEF Writers
<1>2. <<s, FreshSlot(w)>> \in Stashes \X Nat
  BY <1>1
<1>3. CASE w.free = {}
  <2>1. TakeSlot(w, s) = [w EXCEPT !.ids = w.ids \cup {<<s, FreshSlot(w)>>}, !.next = w.next + 1]
    BY <1>3 DEF TakeSlot, FreshSlot
  <2>2. w.free \ {FreshSlot(w)} = w.free
    BY <1>3
  <2>3. w.ids \cup {<<s, FreshSlot(w)>>} \in SUBSET (Stashes \X Nat) /\ w.next + 1 \in Nat
    BY <1>1, <1>2
  <2> QED
    BY <1>3, <2>1, <2>2, <2>3 DEF SlotTaken, Writers
<1>4. CASE w.free # {}
  <2>1. TakeSlot(w, s) = [w EXCEPT !.ids = w.ids \cup {<<s, FreshSlot(w)>>},
                                   !.free = w.free \ {FreshSlot(w)}]
    BY <1>4 DEF TakeSlot, FreshSlot
  <2>3. w.ids \cup {<<s, FreshSlot(w)>>} \in SUBSET (Stashes \X Nat)
        /\ w.free \ {FreshSlot(w)} \in SUBSET Nat
    BY <1>1, <1>2
  <2> QED
    BY <1>4, <2>1, <2>3 DEF SlotTaken, Writers
<1> QED
  BY <1>3, <1>4

(* The file of s is written; or it was there already.                      *)
StashCommand(w, s) ==
    Command("stash", {}, s.blocks, IF version = 2 THEN FreshSlot(w) ELSE HashOf(s), {})

Sharer(w, s) == version # 2 /\ BagIn(HashOf(s), w.refs)

StashMade(v, w, s) ==
    /\ v \in Writers
    /\ v.ids = w.ids \cup {<<s, FreshSlot(w)>>}
    /\ v.free = w.free \ {FreshSlot(w)}
    /\ v.next = IF w.free = {} THEN w.next + 1 ELSE w.next
    /\ v.refs = IF version = 2 THEN w.refs ELSE w.refs (+) SetToBag({HashOf(s)})
    /\ v.stashed = IF Sharer(w, s) THEN w.stashed ELSE w.stashed + Cardinality(s.blocks)
    /\ v.touched = IF version = 2 \/ Sharer(w, s) THEN w.touched
                   ELSE w.touched \cup s.blocks
    /\ v.out = IF Sharer(w, s) THEN w.out ELSE Append(w.out, StashCommand(w, s))
    /\ v.peak = w.peak /\ v.frees = w.frees /\ v.freeSize = w.freeSize /\ v.total = w.total

LEMMA StashCommandType ==
    ASSUME NEW w \in Writers, NEW s \in Stashes
    PROVE  StashCommand(w, s) \in Commands
<1>1. s.blocks \in SUBSET Blocks /\ FreshSlot(w) \in Keys /\ HashOf(s) \in Keys
  BY StashHasBlocks, FreshIsNat DEF Keys
<1> QED
  BY <1>1 DEF StashCommand, Command, Commands

LEMMA MakeStashMakes ==
    ASSUME NEW w \in Writers, NEW s \in Stashes
    PROVE  StashMade(MakeStash(w, s), w, s)
<1>1. PICK u : u = TakeSlot(w, s) /\ SlotTaken(u, w, s)
  BY TakeSlotTakes
<1>2. PICK h, C, n, o :
         /\ h = HashOf(s)
         /\ C = w.refs (+) SetToBag({h})
         /\ n = Cardinality(s.blocks)
         /\ o = Append(w.out, StashCommand(w, s))
  OBVIOUS
<1>3. h \in Hashes /\ n \in Nat /\ s.blocks \in SUBSET Blocks
  BY <1>2, StashHasBlocks
<1>4. C \in Counters
  BY <1>2, <1>3, OneMoreWaits DEF Writers
<1>5. o \in Seq(Commands)
  BY <1>2, StashCommandType DEF Writers
<1>6. u \in Writers /\ u.refs = w.refs /\ u.stashed = w.stashed /\ u.touched = w.touched
      /\ u.out = w.out
  BY <1>1 DEF SlotTaken
<1>7. w.stashed \in Int /\ w.stashed + n \in Int /\ w.touched \in SUBSET Blocks
      /\ w.touched \cup s.blocks \in SUBSET Blocks
  BY <1>3 DEF Writers
<1>8. StashCommand(w, s)
        = Command("stash", {}, s.blocks,
                  IF version = 2 THEN IF w.free # {} THEN Min(w.free) ELSE w.next ELSE h, {})
  BY <1>2 DEF StashCommand, FreshSlot
<1>9. CASE version = 2
  <2>1. MakeStash(w, s) = [u EXCEPT !.stashed = w.stashed + n, !.out = o]
    BY <1>1, <1>2, <1>6, <1>8, <1>9 DEF MakeStash, HashOf
  <2> HIDE DEF Writers
  <2>2. [u EXCEPT !.stashed = w.stashed + n, !.out = o] \in Writers
    BY <1>5, <1>6, <1>7 DEF Writers
  <2>3. ~Sharer(w, s)
    BY <1>9 DEF Sharer
  <2> QED
    BY <1>1, <1>2, <1>6, <1>9, <2>1, <2>2, <2>3 DEF StashMade, SlotTaken, Writers
<1>10. CASE version # 2 /\ BagIn(h, w.refs)
  <2>1. MakeStash(w, s) = [u EXCEPT !.refs = C]
    BY <1>1, <1>2, <1>6, <1>10 DEF MakeStash, HashOf
  <2>2. [u EXCEPT !.refs = C] \in Writers
    BY <1>4, <1>6 DEF Writers
  <2>3. Sharer(w, s)
    BY <1>2, <1>10 DEF Sharer
  <2> QED
    BY <1>1, <1>2, <1>6, <1>10, <2>1, <2>2, <2>3 DEF StashMade, SlotTaken, Writers
<1>11. CASE version # 2 /\ ~BagIn(h, w.refs)
  <2>1. MakeStash(w, s) = [u EXCEPT !.refs = C, !.stashed = w.stashed + n,
                                    !.touched = w.touched \cup s.blocks, !.out = o]
    BY <1>1, <1>2, <1>6, <1>8, <1>11 DEF MakeStash, HashOf
  <2>2. [u EXCEPT !.refs = C, !.stashed = w.stashed + n,
                  !.touched = w.touched \cup s.blocks, !.out = o] \in Writers
    BY <1>4, <1>5, <1>6, <1>7 DEF Writers
  <2>3. ~Sharer(w, s)
    BY <1>2, <1>11 DEF Sharer
  <2> QED
    BY <1>1, <1>2, <1>6, <1>11, <2>1, <2>2, <2>3 DEF StashMade, SlotTaken, Writers
<1> QED
  BY <1>9, <1>10, <1>11

-----------------------------------------------------------------------------
(* What TakeStash makes of a writer that has a slot for the stash.         *)

LEMMA SlotFound ==
    ASSUME NEW w \in Writers, NEW s \in Stashes, NEW id \in 0..w.next, <<s, id>> \in w.ids,
           \A p, q \in w.ids : p[1] = q[1] => p = q
    PROVE  SlotOf(w, s) = id
<1>1. <<s, SlotOf(w, s)>> \in w.ids
  BY Zenon DEF SlotOf
<1>2. <<s, SlotOf(w, s)>> = <<s, id>>
  <2> HIDE DEF SlotOf
  <2>1. <<s, SlotOf(w, s)>>[1] = <<s, id>>[1]
    OBVIOUS
  <2> QED
    BY Zenon, <1>1, <2>1
<1> QED
  BY <1>2

Left(w, s) == IF version = 2 THEN w.refs ELSE w.refs (-) SetToBag({HashOf(s)})

FreeCommand(w, s) ==
    Command("free", {}, {}, IF version = 2 THEN SlotOf(w, s) ELSE HashOf(s), {})

StashTaken(v, w, s) ==
    /\ v \in Writers
    /\ v.ids = w.ids \ {<<s, SlotOf(w, s)>>}
    /\ v.free = w.free \cup {SlotOf(w, s)}
    /\ v.refs = Left(w, s)
    /\ v.freeSize = IF version # 2 /\ BagIn(HashOf(s), Left(w, s)) THEN w.freeSize
                    ELSE w.freeSize + Cardinality(s.blocks)
    /\ v.frees = IF version # 2 /\ BagIn(HashOf(s), Left(w, s)) THEN w.frees
                 ELSE Append(w.frees, FreeCommand(w, s))
    /\ v.next = w.next /\ v.stashed = w.stashed /\ v.peak = w.peak
    /\ v.touched = w.touched /\ v.total = w.total /\ v.out = w.out

LEMMA TakeStashTakes ==
    ASSUME NEW w \in Writers, NEW s \in Stashes, SlotOf(w, s) \in Nat,
           version # 2 => BagIn(HashOf(s), w.refs)
    PROVE  StashTaken(TakeStash(w, s), w, s)
<1>1. PICK id, h, C, n, f :
         /\ id = SlotOf(w, s) /\ h = HashOf(s) /\ C = Left(w, s)
         /\ n = Cardinality(s.blocks) /\ f = Append(w.frees, FreeCommand(w, s))
  OBVIOUS
<1>2. h \in Hashes /\ n \in Nat /\ id \in Nat
  BY <1>1, StashHasBlocks
<1>3. C \in Counters
  <2>1. CASE version = 2
    BY <1>1, <2>1 DEF Left, Writers
  <2>2. CASE version # 2
    <3>1. C = w.refs (-) SetToBag({h})
      BY <1>1, <2>2 DEF Left
    <3>2. w.refs \in Counters /\ BagIn(h, w.refs)
      BY <1>1, <2>2 DEF Writers
    <3> QED
      BY <1>2, <3>1, <3>2, OneLessWaits
  <2> QED
    BY <2>1, <2>2
<1>4. f \in Seq(Commands)
  <2>1. FreeCommand(w, s) \in Commands
    <3>1. (IF version = 2 THEN SlotOf(w, s) ELSE HashOf(s)) \in Keys
      BY <1>1, <1>2 DEF Keys
    <3> QED
      BY <3>1 DEF FreeCommand, Command, Commands
  <2> QED
    BY <1>1, <2>1 DEF Writers
<1>5. PICK u : u = [w EXCEPT !.ids = w.ids \ {<<s, id>>}, !.free = w.free \cup {id}, !.refs = C]
  OBVIOUS
<1>6. u \in Writers
  <2>1. w.ids \ {<<s, id>>} \in SUBSET (Stashes \X Nat) /\ w.free \cup {id} \in SUBSET Nat
    BY <1>2 DEF Writers
  <2> QED
    BY <1>3, <1>5, <2>1 DEF Writers
<1>7. /\ u.ids = w.ids \ {<<s, id>>} /\ u.free = w.free \cup {id} /\ u.refs = C
      /\ u.next = w.next /\ u.stashed = w.stashed /\ u.peak = w.peak
      /\ u.touched = w.touched /\ u.total = w.total /\ u.out = w.out
      /\ u.freeSize = w.freeSize /\ u.frees = w.frees /\ w.freeSize \in Nat
  BY <1>5 DEF Writers
<1>8. TakeStash(w, s) = IF version # 2 /\ BagIn(h, C) THEN u
                        ELSE [u EXCEPT !.freeSize = w.freeSize + n, !.frees = f]
  <2>1. FreeCommand(w, s) = Command("free", {}, {}, Key(w, s), {})
    BY DEF FreeCommand, Key, HashOf
  <2>2. u = [w EXCEPT !.ids = w.ids \ {<<s, id>>}, !.free = w.free \cup {id},
                      !.refs = IF version = 2 THEN w.refs ELSE w.refs (-) SetToBag({h})]
    BY Zenon, <1>1, <1>5 DEF Left
  <2>3. h = HashBlocks(s.blocks)
    BY <1>1 DEF HashOf
  <2> QED
    BY <1>1, <1>7, <2>1, <2>2, <2>3 DEF TakeStash, OthersWait
<1>9. CASE version # 2 /\ BagIn(h, C)
  <2>1. TakeStash(w, s) = u
    BY <1>8, <1>9
  <2> QED
    BY <1>1, <1>6, <1>7, <1>9, <2>1 DEF StashTaken
<1>10. CASE ~(version # 2 /\ BagIn(h, C))
  <2>1. TakeStash(w, s) = [u EXCEPT !.freeSize = w.freeSize + n, !.frees = f]
    BY <1>8, <1>10
  <2>2. [u EXCEPT !.freeSize = w.freeSize + n, !.frees = f] \in Writers
    <3>1. PICK m : m = w.freeSize + n /\ m \in Nat
      BY <1>2, <1>7
    <3>2. [u EXCEPT !.freeSize = m, !.frees = f] \in Writers
      BY <1>4, <1>6, <3>1 DEF Writers
    <3> QED
      BY Zenon, <3>1, <3>2
  <2> QED
    BY <1>1, <1>6, <1>7, <1>10, <2>1, <2>2 DEF StashTaken, Writers
<1> QED
  BY <1>9, <1>10

-----------------------------------------------------------------------------
(* What the writer keeps of a set of stashes that are made and not used.   *)

(* Each has a slot of its own; the other slots are free.                   *)
SlotsKept(w, O) ==
    /\ {p[1] : p \in w.ids} = O
    /\ \A p, q \in w.ids : p[1] = q[1] \/ p[2] = q[2] => p = q
    /\ {p[2] : p \in w.ids} \cap w.free = {}
    /\ {p[2] : p \in w.ids} \cup w.free = 0..(w.next - 1)

Sharing(h, O) == {s \in O : HashOf(s) = h}

(* Each waits in the file of its hash, and the blocks are counted of those *)
(* that exist, or were freed by the command that is being written.         *)
CountsKept(w, O) ==
    /\ version = 2 => w.stashed - w.freeSize = SizeOf(O)
    /\ version >= 3 =>
          /\ \A h \in Hashes : Waiting(h, w.refs) = Cardinality(Sharing(h, O))
          /\ w.stashed - w.freeSize = SumOver(Lengths, BagToSet(w.refs))

LEMMA SlotsGrow ==
    ASSUME NEW w \in Writers, NEW s \in Stashes, NEW O, s \notin O, SlotsKept(w, O),
           NEW v, StashMade(v, w, s)
    PROVE  SlotsKept(v, O \cup {s})
<1>1. PICK id : id = FreshSlot(w) /\ id \in Nat /\ (w.free # {} => id \in w.free)
  BY FreshIsNat
<1>2. /\ v.ids = w.ids \cup {<<s, id>>} /\ v.free = w.free \ {id}
      /\ v.next = IF w.free = {} THEN w.next + 1 ELSE w.next
  BY <1>1 DEF StashMade
<1>3. /\ w.ids \in SUBSET (Stashes \X Nat) /\ w.next \in Nat /\ w.free \in SUBSET Nat
  BY DEF Writers
<1>4. PICK T : T = {p[2] : p \in w.ids}
  OBVIOUS
<1>5. T \cap w.free = {} /\ T \cup w.free = 0..(w.next - 1)
  BY <1>4 DEF SlotsKept
<1>6. w.free = {} => id = w.next
  BY <1>1 DEF FreshSlot
<1>7. id \notin T
  BY <1>1, <1>3, <1>5, <1>6
<1>7a. PICK e : e = <<s, id>> /\ e[1] = s /\ e[2] = id /\ v.ids = w.ids \cup {e}
  BY <1>2
<1>8. {p[2] : p \in v.ids} = T \cup {id}
  BY <1>4, <1>7a
<1>9. {p[1] : p \in v.ids} = O \cup {s}
  <2>1. {p[1] : p \in w.ids} = O
    BY DEF SlotsKept
  <2> QED
    BY <1>7a, <2>1
<1>10. \A p, q \in v.ids : p[1] = q[1] \/ p[2] = q[2] => p = q
  <2> SUFFICES ASSUME NEW p \in v.ids, NEW q \in v.ids, p[1] = q[1] \/ p[2] = q[2]
               PROVE  p = q
    OBVIOUS
  <2>1. \A r \in w.ids : r[1] \in O /\ r[2] \in T
    BY <1>4 DEF SlotsKept
  <2>2. \A r \in w.ids : r[1] # s /\ r[2] # id
    BY <1>7, <2>1
  <2>3. \A r \in v.ids : r \in w.ids \/ (r = <<s, id>> /\ r[1] = s /\ r[2] = id)
    BY <1>2
  <2>4. CASE p \in w.ids /\ q \in w.ids
    BY <2>4 DEF SlotsKept
  <2>5. CASE p \notin w.ids \/ q \notin w.ids
    BY <2>2, <2>3, <2>5
  <2> QED
    BY <2>4, <2>5
<1>11. (T \cup {id}) \cap v.free = {}
  BY <1>2, <1>5
<1>12. (T \cup {id}) \cup v.free = 0..(v.next - 1)
  <2>1. CASE w.free = {}
    <3>1. v.free = {} /\ v.next = w.next + 1 /\ id = w.next /\ T = 0..(w.next - 1)
      BY <1>2, <1>5, <1>6, <2>1
    <3>2. 0..(w.next - 1) \cup {w.next} = 0..w.next /\ w.next = (w.next + 1) - 1
      BY <1>3
    <3> QED
      BY <3>1, <3>2
  <2>2. CASE w.free # {}
    BY <1>1, <1>2, <1>5, <2>2
  <2> QED
    BY <2>1, <2>2
<1> QED
  BY <1>8, <1>9, <1>10, <1>11, <1>12 DEF SlotsKept

LEMMA SharingFinite ==
    ASSUME NEW O \in SUBSET Stashes, NEW h
    PROVE  IsFiniteSet(Sharing(h, O)) /\ Cardinality(Sharing(h, O)) \in Nat
<1>1. IsFiniteSet(O)
  BY StashesFinite, FS_Subset
<1> QED
  BY <1>1, FS_Subset, FS_CardinalityType DEF Sharing

LEMMA SharingGrows ==
    ASSUME NEW O \in SUBSET Stashes, NEW s \in Stashes, s \notin O, NEW h
    PROVE  Cardinality(Sharing(h, O \cup {s}))
             = Cardinality(Sharing(h, O)) + (IF HashOf(s) = h THEN 1 ELSE 0)
<1>1. IsFiniteSet(Sharing(h, O)) /\ Cardinality(Sharing(h, O)) \in Nat
  BY SharingFinite
<1>2. CASE HashOf(s) = h
  <2>1. Sharing(h, O \cup {s}) = Sharing(h, O) \cup {s} /\ s \notin Sharing(h, O)
    BY <1>2 DEF Sharing
  <2> QED
    BY <1>1, <1>2, <2>1, FS_AddElement
<1>3. CASE HashOf(s) # h
  <2>1. Sharing(h, O \cup {s}) = Sharing(h, O)
    BY <1>3 DEF Sharing
  <2> QED
    BY <1>1, <1>3, <2>1
<1> QED
  BY <1>2, <1>3

LEMMA CountsGrow ==
    ASSUME NEW w \in Writers, NEW s \in Stashes, NEW O \in SUBSET Stashes, s \notin O,
           version \in Versions, CountsKept(w, O), NEW v, StashMade(v, w, s)
    PROVE  CountsKept(v, O \cup {s})
<1>1. PICK h, n : h = HashOf(s) /\ n = Cardinality(s.blocks)
  OBVIOUS
<1>2. h \in Hashes /\ n \in Nat /\ version \in 1..4
  BY <1>1, StashHasBlocks, VersionAssumption
<1>3. /\ v.freeSize = w.freeSize
      /\ w.stashed \in Int /\ w.freeSize \in Nat /\ w.refs \in Counters
      /\ v.refs = IF version = 2 THEN w.refs ELSE w.refs (+) SetToBag({h})
      /\ v.stashed = IF version # 2 /\ BagIn(h, w.refs) THEN w.stashed ELSE w.stashed + n
  BY <1>1 DEF StashMade, Writers, Sharer
<1>4. ASSUME version = 2 PROVE v.stashed - v.freeSize = SizeOf(O \cup {s})
  <2>1. SizeOf(O \cup {s}) = SizeOf(O) + n
    BY <1>1, SizeAdd
  <2>2. w.stashed - w.freeSize = SizeOf(O)
    BY <1>4 DEF CountsKept
  <2> QED
    BY <1>2, <1>3, <1>4, <2>1, <2>2
<1>5. ASSUME version >= 3
      PROVE  /\ \A g \in Hashes : Waiting(g, v.refs) = Cardinality(Sharing(g, O \cup {s}))
             /\ v.stashed - v.freeSize = SumOver(Lengths, BagToSet(v.refs))
  <2>1. PICK C : C = v.refs /\ C = w.refs (+) SetToBag({h})
    BY <1>2, <1>3, <1>5
  <2>2. /\ BagToSet(C) = BagToSet(w.refs) \cup {h}
        /\ Waiting(h, C) = Waiting(h, w.refs) + 1
        /\ \A g \in Hashes \ {h} : Waiting(g, C) = Waiting(g, w.refs)
    <3>1. h \in Hashes /\ w.refs \in Counters /\ C = w.refs (+) SetToBag({h})
      BY <1>2, <1>3, <2>1
    <3> QED
      BY ONLY <3>1, OneMoreWaits
  <2>3. /\ \A g \in Hashes : Waiting(g, w.refs) = Cardinality(Sharing(g, O))
        /\ w.stashed - w.freeSize = SumOver(Lengths, BagToSet(w.refs))
    BY <1>5 DEF CountsKept
  <2>4. \A g \in Hashes : Waiting(g, C) = Cardinality(Sharing(g, O \cup {s}))
    <3> TAKE g \in Hashes
    <3>1. Cardinality(Sharing(g, O \cup {s}))
             = Cardinality(Sharing(g, O)) + (IF h = g THEN 1 ELSE 0)
      BY <1>1, SharingGrows
    <3>2. Cardinality(Sharing(g, O)) \in Nat
      BY SharingFinite
    <3> QED
      BY <2>2, <2>3, <3>1, <3>2
  <2>5. v.stashed - v.freeSize = SumOver(Lengths, BagToSet(C))
    <3>1. BagToSet(w.refs) \in SUBSET Hashes
      BY <1>3, CountersAreBags
    <3>2. IsFiniteSet(BagToSet(w.refs)) /\ \A g \in BagToSet(w.refs) : Lengths[g] \in Int
      BY <3>1, HashesFinite, FS_Subset, LengthsNat
    <3>3. Lengths[h] = n
      BY <1>1, LengthsNat
    <3>4. CASE BagIn(h, w.refs)
      <4>1. BagToSet(C) = BagToSet(w.refs)
        BY <2>2, <3>4 DEF BagIn
      <4> QED
        BY <1>2, <1>3, <1>5, <2>3, <3>4, <4>1
    <3>5. CASE ~BagIn(h, w.refs)
      <4>1. SumOver(Lengths, BagToSet(w.refs) \cup {h}) = Lengths[h] + SumOver(Lengths, BagToSet(w.refs))
        <5>1. h \notin BagToSet(w.refs) /\ Lengths[h] \in Int
          BY <1>2, <3>3, <3>5 DEF BagIn
        <5> QED
          BY <3>2, <5>1, SumAdd
      <4>2. SumOver(Lengths, BagToSet(C)) = n + (w.stashed - w.freeSize)
        BY <2>2, <2>3, <3>3, <4>1
      <4> QED
        BY <1>2, <1>3, <3>5, <4>2
    <3> QED
      BY <3>4, <3>5
  <2> QED
    BY <2>1, <2>4, <2>5
<1> QED
  BY <1>4, <1>5 DEF CountsKept

LEMMA SlotsShrink ==
    ASSUME NEW w \in Writers, NEW O, NEW s \in O, SlotsKept(w, O), O \in SUBSET Stashes
    PROVE  /\ SlotOf(w, s) \in Nat /\ SlotOf(w, s) \in 0..w.next
           /\ <<s, SlotOf(w, s)>> \in w.ids
           /\ \A v : StashTaken(v, w, s) => SlotsKept(v, O \ {s})
<1>1. PICK p \in w.ids : p[1] = s
  BY DEF SlotsKept
<1>2. w.ids \in SUBSET (Stashes \X Nat) /\ w.next \in Nat /\ w.free \in SUBSET Nat
  BY DEF Writers
<1>3. PICK id : id = p[2] /\ p = <<s, id>> /\ id \in Nat
  BY <1>1, <1>2
<1>4. PICK T : T = {q[2] : q \in w.ids}
  OBVIOUS
<1>5. T \cap w.free = {} /\ T \cup w.free = 0..(w.next - 1) /\ id \in T
  BY <1>3, <1>4 DEF SlotsKept
<1>6. id \in 0..w.next
  BY <1>2, <1>5
<1>7. \A q, r \in w.ids : q[1] = r[1] \/ q[2] = r[2] => q = r
  BY DEF SlotsKept
<1>8. SlotOf(w, s) = id
  <2>1. \A q, r \in w.ids : q[1] = r[1] => q = r
    BY <1>7
  <2>2. <<s, id>> \in w.ids /\ s \in Stashes
    BY <1>3
  <2> QED
    BY <1>6, <2>1, <2>2, SlotFound
<1>9. ASSUME NEW v, StashTaken(v, w, s) PROVE SlotsKept(v, O \ {s})
  <2>1. v.ids = w.ids \ {p} /\ v.free = w.free \cup {id} /\ v.next = w.next
    BY <1>3, <1>8, <1>9 DEF StashTaken
  <2>2. {q[1] : q \in v.ids} = O \ {s}
    <3>1. \A q \in w.ids : q[1] = s => q = p
      BY <1>1, <1>7
    <3>2. {q[1] : q \in w.ids} = O
      BY DEF SlotsKept
    <3> QED
      BY <1>1, <2>1, <3>1, <3>2
  <2>3. {q[2] : q \in v.ids} = T \ {id}
    <3>1. \A q \in w.ids : q[2] = id => q = p
      BY <1>3, <1>7
    <3> QED
      BY <1>3, <1>4, <2>1, <3>1
  <2>4. \A q, r \in v.ids : q[1] = r[1] \/ q[2] = r[2] => q = r
    BY <1>7, <2>1
  <2>5. (T \ {id}) \cap v.free = {} /\ (T \ {id}) \cup v.free = 0..(v.next - 1)
    BY <1>5, <2>1
  <2> QED
    BY <2>2, <2>3, <2>4, <2>5 DEF SlotsKept
<1> QED
  BY <1>3, <1>6, <1>8, <1>9

LEMMA CountsShrink ==
    ASSUME NEW w \in Writers, NEW O \in SUBSET Stashes, NEW s \in O,
           version \in Versions, version >= 2, CountsKept(w, O)
    PROVE  /\ version # 2 => BagIn(HashOf(s), w.refs)
           /\ \A v : StashTaken(v, w, s) => CountsKept(v, O \ {s})
<1>1. PICK h, n, P : h = HashOf(s) /\ n = Cardinality(s.blocks) /\ P = O \ {s}
  OBVIOUS
<1>2. h \in Hashes /\ n \in Nat /\ version \in 1..4
  BY <1>1, StashHasBlocks, VersionAssumption
<1>3. /\ P \in SUBSET Stashes /\ s \notin P /\ P \cup {s} = O /\ s \in Stashes
  BY <1>1
<1>4. w.stashed \in Int /\ w.freeSize \in Nat /\ w.refs \in Counters
  BY DEF Writers
<1>5. \A g : /\ Cardinality(Sharing(g, O))
                   = Cardinality(Sharing(g, P)) + (IF h = g THEN 1 ELSE 0)
             /\ Cardinality(Sharing(g, P)) \in Nat
  <2> TAKE g
  <2>1. Cardinality(Sharing(g, P \cup {s}))
                   = Cardinality(Sharing(g, P)) + (IF HashOf(s) = g THEN 1 ELSE 0)
    BY <1>3, SharingGrows
  <2>2. Cardinality(Sharing(g, P)) \in Nat
    BY <1>3, SharingFinite
  <2> QED
    BY <1>1, <1>3, <2>1, <2>2
<1>6. ASSUME version # 2 PROVE BagIn(h, w.refs)
  <2>1. Waiting(h, w.refs) = Cardinality(Sharing(h, P)) + 1
    BY <1>2, <1>5, <1>6 DEF CountsKept
  <2> QED
    BY <1>5, <2>1 DEF Waiting
<1>7. ASSUME NEW v, StashTaken(v, w, s) PROVE CountsKept(v, P)
  <2>1. /\ v.stashed = w.stashed
        /\ v.refs = Left(w, s)
        /\ v.freeSize = IF version # 2 /\ BagIn(h, v.refs) THEN w.freeSize ELSE w.freeSize + n
    BY <1>1, <1>7 DEF StashTaken
  <2>2. ASSUME version = 2 PROVE v.stashed - v.freeSize = SizeOf(P)
    <3>1. SizeOf(P \cup {s}) = SizeOf(P) + n
      BY <1>1, <1>3, SizeAdd
    <3>2. SizeOf(P) \in Nat
      BY <1>3, SizeNat
    <3>3. w.stashed - w.freeSize = SizeOf(O)
      BY <2>2 DEF CountsKept
    <3>4. SizeOf(P \cup {s}) = SizeOf(O)
      BY Zenon, <1>3
    <3> QED
      BY <1>2, <1>4, <2>1, <2>2, <3>1, <3>2, <3>3, <3>4
  <2>3. ASSUME version >= 3
        PROVE  /\ \A g \in Hashes : Waiting(g, v.refs) = Cardinality(Sharing(g, P))
               /\ v.stashed - v.freeSize = SumOver(Lengths, BagToSet(v.refs))
    <3>1. PICK C : C = v.refs /\ C = w.refs (-) SetToBag({h})
      BY <1>1, <1>2, <2>1, <2>3 DEF Left
    <3>2. /\ Waiting(h, C) = Waiting(h, w.refs) - 1
          /\ BagIn(h, C) => BagToSet(C) = BagToSet(w.refs)
          /\ ~BagIn(h, C) => BagToSet(C) = BagToSet(w.refs) \ {h}
          /\ \A g \in Hashes \ {h} : Waiting(g, C) = Waiting(g, w.refs)
      <4>1. BagIn(h, w.refs)
        BY <1>2, <1>6, <2>3
      <4>2. h \in Hashes /\ w.refs \in Counters /\ C = w.refs (-) SetToBag({h})
        BY <1>2, <1>4, <3>1
      <4> QED
        BY ONLY <4>1, <4>2, OneLessWaits
    <3>3. /\ \A g \in Hashes : Waiting(g, w.refs) = Cardinality(Sharing(g, O))
          /\ w.stashed - w.freeSize = SumOver(Lengths, BagToSet(w.refs))
      BY <2>3 DEF CountsKept
    <3>4. \A g \in Hashes : Waiting(g, C) = Cardinality(Sharing(g, P))
      <4> TAKE g \in Hashes
      <4>1. CASE g = h
        BY <1>5, <3>2, <3>3, <4>1
      <4>2. CASE g # h
        BY <1>5, <3>2, <3>3, <4>2
      <4> QED
        BY <4>1, <4>2
    <3>5. v.stashed - v.freeSize = SumOver(Lengths, BagToSet(C))
      <4>1. CASE BagIn(h, C)
        BY <1>2, <2>1, <2>3, <3>1, <3>2, <3>3, <4>1
      <4>2. CASE ~BagIn(h, C)
        <5>1. BagToSet(w.refs) \in SUBSET Hashes
          BY <1>4, CountersAreBags
        <5>2. IsFiniteSet(BagToSet(w.refs)) /\ \A g \in BagToSet(w.refs) : Lengths[g] \in Int
          BY <5>1, HashesFinite, FS_Subset, LengthsNat
        <5>3. h \in BagToSet(w.refs)
          BY <1>2, <1>6, <2>3 DEF BagIn
        <5>4. SumOver(Lengths, BagToSet(w.refs))
                = Lengths[h] + SumOver(Lengths, BagToSet(w.refs) \ {h})
          BY <5>2, <5>3, SumRemove
        <5>5. Lengths[h] = n
          BY <1>1, <1>3, LengthsNat
        <5>6. SumOver(Lengths, BagToSet(w.refs) \ {h}) \in Int
          <6>1. IsFiniteSet(BagToSet(w.refs) \ {h})
                /\ \A g \in BagToSet(w.refs) \ {h} : Lengths[g] \in Int
            BY <5>2, FS_Subset
          <6> QED
            BY <6>1, SumInt
        <5>7. v.stashed - v.freeSize = SumOver(Lengths, BagToSet(w.refs) \ {h})
          BY <1>2, <1>4, <2>1, <3>1, <3>3, <4>2, <5>4, <5>5, <5>6
        <5> QED
          BY <3>2, <4>2, <5>7
      <4> QED
        BY <4>1, <4>2
    <3> QED
      BY <3>1, <3>4, <3>5
  <2> QED
    BY <2>2, <2>3 DEF CountsKept
<1> QED
  BY <1>1, <1>6, <1>7

-----------------------------------------------------------------------------
(* What the folds keep.                                                    *)

LEMMA SetIsListed ==
    ASSUME NEW T, IsFiniteSet(T)
    PROVE  /\ SetToSeq(T) \in Seq(T)
           /\ Len(SetToSeq(T)) = Cardinality(T)
           /\ Injective(SetToSeq(T))
           /\ Placed(SetToSeq(T)) = T
<1>1. Cardinality(T) \in Nat /\ ExistsBijection(1..Cardinality(T), T)
  BY FS_CardinalityType
<1>2. PICK n \in Nat : n = Cardinality(T)
  BY <1>1
<1>3. PICK g \in [1..n -> T] : IsInjective(g)
  BY <1>1, <1>2 DEF ExistsBijection, Bijection, Injection
<1>4. PICK f : f = SetToSeq(T) /\ f \in [1..n -> T] /\ IsInjective(f)
  <2>1. SetToSeq(T) = CHOOSE f \in [1..n -> T] : IsInjective(f)
    BY Zenon, <1>2 DEF SetToSeq
  <2>2. \E f \in [1..n -> T] : IsInjective(f)
    BY <1>3
  <2>3. SetToSeq(T) \in [1..n -> T] /\ IsInjective(SetToSeq(T))
    BY Zenon, <2>1, <2>2
  <2> QED
    BY <2>3
<1>5. DOMAIN f = 1..n /\ Len(f) = n /\ f \in Seq(T)
  BY <1>4
<1>6. Injective(f)
  BY <1>4 DEF Injective, IsInjective
<1>7. Placed(f) = T
  <2>1. f \in Injection(1..n, T)
    BY <1>4 DEF Injection
  <2>2. IsFiniteSet(1..n) /\ Cardinality(1..n) = n
    BY <1>2, FS_Interval
  <2>3. f \in Surjection(1..n, T)
    BY Zenon, <1>2, <2>1, <2>2, FS_Injection
  <2> QED
    BY <1>5, <2>3 DEF Surjection, Placed
<1> QED
  BY <1>2, <1>4, <1>5, <1>6, <1>7

(* The first i of q.                                                       *)
FirstOf(q, i) == {q[j] : j \in 1..i}

LEMMA FirstOfGrows ==
    ASSUME NEW T, NEW q \in Seq(T), Injective(q), NEW i \in 1..Len(q)
    PROVE  /\ i - 1 \in 0..Len(q)
           /\ q[i] \in T /\ q[i] \in Placed(q)
           /\ q[i] \notin FirstOf(q, i - 1)
           /\ FirstOf(q, i) = FirstOf(q, i - 1) \cup {q[i]}
           /\ FirstOf(q, i) \subseteq Placed(q) /\ FirstOf(q, i - 1) \subseteq Placed(q)
<1>1. DOMAIN q = 1..Len(q) /\ Len(q) \in Nat /\ i - 1 \in 0..Len(q)
  OBVIOUS
<1>2. \A j \in 1..i : j \in 1..Len(q) /\ (j = i \/ j \in 1..(i-1))
  BY <1>1
<1>3. \A j \in 1..(i-1) : j \in 1..i /\ j # i
  BY <1>1
<1>4. i \in 1..i
  BY <1>1
<1> QED
  BY <1>1, <1>2, <1>3, <1>4 DEF Injective, Placed, FirstOf

LEMMA FirstOfEnds ==
    ASSUME NEW q, Len(q) \in Nat, DOMAIN q = 1..Len(q)
    PROVE  FirstOf(q, 0) = {} /\ FirstOf(q, Len(q)) = Placed(q)
BY DEF FirstOf, Placed

(* The passes of the loop over the stashes to be made: k[i] is the writer  *)
(* after the first i.                                                      *)
MadeUpTo(k, q, O, i) ==
    /\ k[i] \in Writers
    /\ SlotsKept(k[i], O \cup FirstOf(q, i))
    /\ CountsKept(k[i], O \cup FirstOf(q, i))

LEMMA MakingKeeps ==
    ASSUME NEW q \in Seq(Stashes), Injective(q), NEW O \in SUBSET Stashes,
           O \cap Placed(q) = {}, version \in Versions,
           NEW w \in Writers, SlotsKept(w, O), CountsKept(w, O),
           NEW k, Passes(k, TRUE, w, q)
    PROVE  /\ \A i \in 0..Len(q) : MadeUpTo(k, q, O, i)
           /\ \A i \in 1..Len(q) : k[i-1] \in Writers /\ StashMade(k[i], k[i-1], q[i])
<1>1. Len(q) \in Nat /\ DOMAIN q = 1..Len(q)
  OBVIOUS
<1>2. MadeUpTo(k, q, O, 0)
  <2>1. k[0] = w
    BY DEF Passes
  <2>2. O \cup FirstOf(q, 0) = O
    BY <1>1, FirstOfEnds
  <2> QED
    BY <2>1, <2>2 DEF MadeUpTo
<1>3. ASSUME NEW i \in 1..Len(q), MadeUpTo(k, q, O, i - 1)
      PROVE  MadeUpTo(k, q, O, i) /\ StashMade(k[i], k[i-1], q[i])
  <2>1. /\ q[i] \in Stashes /\ q[i] \in Placed(q) /\ q[i] \notin FirstOf(q, i - 1)
        /\ FirstOf(q, i) = FirstOf(q, i - 1) \cup {q[i]}
        /\ FirstOf(q, i - 1) \subseteq Placed(q)
    BY FirstOfGrows
  <2>2. PICK u, v, s, P : u = k[i-1] /\ v = k[i] /\ s = q[i] /\ P = O \cup FirstOf(q, i - 1)
    OBVIOUS
  <2>3. u \in Writers /\ SlotsKept(u, P) /\ CountsKept(u, P)
    BY <1>3, <2>2 DEF MadeUpTo
  <2>4. v = MakeStash(u, s)
    BY <2>2 DEF Passes, Handle
  <2>5. StashMade(v, u, s)
    BY <2>1, <2>2, <2>3, <2>4, MakeStashMakes
  <2>6. s \notin P /\ s \in Stashes /\ P \in SUBSET Stashes
    <3>1. Placed(q) \in SUBSET Stashes
      BY DEF Placed
    <3> QED
      BY <2>1, <2>2, <3>1
  <2>7. SlotsKept(v, P \cup {s}) /\ CountsKept(v, P \cup {s})
    BY <2>3, <2>5, <2>6, SlotsGrow, CountsGrow
  <2>8. P \cup {s} = O \cup FirstOf(q, i)
    BY <2>1, <2>2
  <2>9. v \in Writers
    BY <2>5 DEF StashMade
  <2> QED
    BY <2>2, <2>5, <2>7, <2>8, <2>9 DEF MadeUpTo
<1>4. \A i \in 0..Len(q) : MadeUpTo(k, q, O, i)
  <2> DEFINE B == {i \in 0..Len(q) : MadeUpTo(k, q, O, i)}
  <2>1. 0 \in B
    BY <1>1, <1>2
  <2>2. \A i \in 1..Len(q) : i - 1 \in B => i \in B
    BY <1>1, <1>3
  <2>3. B \in SUBSET (0..Len(q))
    OBVIOUS
  <2>4. B = 0..Len(q)
    <3> HIDE DEF B
    <3> QED
      BY <1>1, <2>1, <2>2, <2>3, UpTo
  <2> QED
    BY <2>4
<1>5. \A i \in 1..Len(q) : i - 1 \in 0..Len(q)
  BY <1>1
<1> QED
  BY <1>3, <1>4, <1>5 DEF MadeUpTo

(* The same of the loop over the stashes to be used.                       *)
TakenUpTo(k, q, O, i) ==
    /\ k[i] \in Writers
    /\ SlotsKept(k[i], O \ FirstOf(q, i))
    /\ CountsKept(k[i], O \ FirstOf(q, i))

LEMMA TakingKeeps ==
    ASSUME NEW q \in Seq(Stashes), Injective(q), NEW O \in SUBSET Stashes,
           Placed(q) \subseteq O, version \in Versions, q # <<>> => version >= 2,
           NEW w \in Writers, SlotsKept(w, O), CountsKept(w, O),
           NEW k, Passes(k, FALSE, w, q)
    PROVE  /\ \A i \in 0..Len(q) : TakenUpTo(k, q, O, i)
           /\ \A i \in 1..Len(q) : k[i-1] \in Writers /\ StashTaken(k[i], k[i-1], q[i])
<1>1. Len(q) \in Nat /\ DOMAIN q = 1..Len(q)
  OBVIOUS
<1>2. TakenUpTo(k, q, O, 0)
  <2>1. k[0] = w
    BY DEF Passes
  <2>2. O \ FirstOf(q, 0) = O
    BY <1>1, FirstOfEnds
  <2> QED
    BY <2>1, <2>2 DEF TakenUpTo
<1>3. ASSUME NEW i \in 1..Len(q), TakenUpTo(k, q, O, i - 1)
      PROVE  TakenUpTo(k, q, O, i) /\ StashTaken(k[i], k[i-1], q[i])
  <2>1. /\ q[i] \in Stashes /\ q[i] \in Placed(q) /\ q[i] \notin FirstOf(q, i - 1)
        /\ FirstOf(q, i) = FirstOf(q, i - 1) \cup {q[i]}
    BY FirstOfGrows
  <2>2. PICK u, v, s, P : u = k[i-1] /\ v = k[i] /\ s = q[i] /\ P = O \ FirstOf(q, i - 1)
    OBVIOUS
  <2>3. u \in Writers /\ SlotsKept(u, P) /\ CountsKept(u, P)
    BY <1>3, <2>2 DEF TakenUpTo
  <2>4. v = TakeStash(u, s)
    BY <2>2 DEF Passes, Handle
  <2>5. s \in P /\ s \in Stashes /\ P \in SUBSET Stashes /\ version >= 2
    <3>1. q # <<>>
      BY <1>1
    <3> QED
      BY <2>1, <2>2, <3>1
  <2>6. /\ SlotOf(u, s) \in Nat
        /\ \A x : StashTaken(x, u, s) => SlotsKept(x, P \ {s})
    BY <2>3, <2>5, SlotsShrink
  <2>7. /\ version # 2 => BagIn(HashOf(s), u.refs)
        /\ \A x : StashTaken(x, u, s) => CountsKept(x, P \ {s})
    BY <2>3, <2>5, CountsShrink
  <2>8. StashTaken(v, u, s)
    BY <2>3, <2>4, <2>5, <2>6, <2>7, TakeStashTakes
  <2>9. P \ {s} = O \ FirstOf(q, i)
    BY <2>1, <2>2
  <2>10. v \in Writers
    BY <2>8 DEF StashTaken
  <2> QED
    BY <2>2, <2>6, <2>7, <2>8, <2>9, <2>10 DEF TakenUpTo
<1>4. \A i \in 0..Len(q) : TakenUpTo(k, q, O, i)
  <2> DEFINE B == {i \in 0..Len(q) : TakenUpTo(k, q, O, i)}
  <2>1. 0 \in B
    BY <1>1, <1>2
  <2>2. \A i \in 1..Len(q) : i - 1 \in B => i \in B
    BY <1>1, <1>3
  <2>3. B \in SUBSET (0..Len(q))
    OBVIOUS
  <2>4. B = 0..Len(q)
    <3> HIDE DEF B
    <3> QED
      BY <1>1, <2>1, <2>2, <2>3, UpTo
  <2> QED
    BY <2>4
<1>5. \A i \in 1..Len(q) : i - 1 \in 0..Len(q)
  BY <1>1
<1> QED
  BY <1>3, <1>4, <1>5 DEF TakenUpTo

-----------------------------------------------------------------------------
(* What the commands that are written say.                                 *)

(* They write to the target partition only; and what they read there is    *)
(* counted as touched, from format 3 on.                                   *)
Faithful(w) ==
    \A i \in DOMAIN w.out : /\ w.out[i].tgt \subseteq TargetBlocks
                            /\ version >= 3 => Read(w.out[i]) \subseteq w.touched

LEMMA AppendFaithful ==
    ASSUME NEW w \in Writers, NEW v, NEW c \in Commands, Faithful(w),
           v.out = Append(w.out, c), w.touched \subseteq v.touched,
           c.tgt \subseteq TargetBlocks, version >= 3 => Read(c) \subseteq v.touched
    PROVE  Faithful(v)
<1>1. w.out \in Seq(Commands)
  BY DEF Writers
<1>2. \A i \in DOMAIN v.out : IF i = Len(w.out) + 1 THEN v.out[i] = c
                              ELSE i \in DOMAIN w.out /\ v.out[i] = w.out[i]
  BY <1>1
<1> QED
  BY <1>2 DEF Faithful

(* A command that only frees.                                              *)
Quiet(c) == c.op = "free" /\ c.tgt = {} /\ c.src = {} /\ c.refs = {}

AllQuiet(w) == \A i \in DOMAIN w.frees : Quiet(w.frees[i])

LEMMA QuietReadsNothing == \A c : Quiet(c) => Read(c) = {}
BY DEF Quiet, Read

LEMMA StashReads ==
    ASSUME NEW w, NEW s
    PROVE  /\ StashCommand(w, s).tgt = {} /\ StashCommand(w, s).src = s.blocks
           /\ Read(StashCommand(w, s)) = s.blocks
BY DEF StashCommand, Command, Read

(* The making of stashes leaves the rest of the writer alone.              *)
MadeOnly(v, w) ==
    /\ v.peak = w.peak /\ v.frees = w.frees /\ v.freeSize = w.freeSize
    /\ v.total = w.total

LEMMA MakingFaithful ==
    ASSUME NEW q \in Seq(Stashes), NEW k, version \in Versions,
           \A i \in 1..Len(q) : k[i-1] \in Writers /\ StashMade(k[i], k[i-1], q[i]),
           Faithful(k[0])
    PROVE  \A i \in 0..Len(q) : Faithful(k[i]) /\ MadeOnly(k[i], k[0])
<1> DEFINE B == {i \in 0..Len(q) : Faithful(k[i]) /\ MadeOnly(k[i], k[0])}
<1>1. Len(q) \in Nat /\ DOMAIN q = 1..Len(q) /\ version \in 1..4
  BY VersionAssumption
<1>2. 0 \in B
  BY <1>1 DEF MadeOnly
<1>3. ASSUME NEW i \in 1..Len(q), i - 1 \in B PROVE i \in B
  <2>1. PICK u, v, s : u = k[i-1] /\ v = k[i] /\ s = q[i]
    OBVIOUS
  <2>2. u \in Writers /\ StashMade(v, u, s) /\ s \in Stashes /\ Faithful(u) /\ MadeOnly(u, k[0])
    BY <1>1, <1>3, <2>1
  <2>3. MadeOnly(v, k[0])
    BY <2>2 DEF StashMade, MadeOnly
  <2>4. Faithful(v)
    <3>1. CASE Sharer(u, s)
      <4>1. v.out = u.out /\ v.touched = u.touched
        BY <2>2, <3>1 DEF StashMade
      <4> QED
        BY <2>2, <4>1 DEF Faithful
    <3>2. CASE ~Sharer(u, s)
      <4>1. PICK c : c = StashCommand(u, s)
        OBVIOUS
      <4>2. c \in Commands /\ c.tgt = {} /\ Read(c) = s.blocks
        BY <2>2, <4>1, StashCommandType, StashReads
      <4>3. v.out = Append(u.out, c) /\ u.touched \subseteq v.touched
            /\ (version >= 3 => s.blocks \subseteq v.touched)
        BY <1>1, <2>2, <3>2, <4>1 DEF StashMade
      <4> QED
        BY <2>2, <4>2, <4>3, AppendFaithful
    <3> QED
      BY <3>1, <3>2
  <2> QED
    BY <2>1, <2>3, <2>4
<1>4. B = 0..Len(q)
  <2>1. B \in SUBSET (0..Len(q))
    OBVIOUS
  <2> HIDE DEF B
  <2> QED
    BY <1>1, <1>2, <1>3, <2>1, UpTo
<1> QED
  BY <1>4

(* The taking of stashes writes nothing yet.                               *)
TakenOnly(v, w) ==
    /\ v.next = w.next /\ v.stashed = w.stashed /\ v.peak = w.peak
    /\ v.touched = w.touched /\ v.total = w.total /\ v.out = w.out

LEMMA TakingQuiet ==
    ASSUME NEW q \in Seq(Stashes), NEW k,
           \A i \in 1..Len(q) : k[i-1] \in Writers /\ StashTaken(k[i], k[i-1], q[i]),
           AllQuiet(k[0])
    PROVE  \A i \in 0..Len(q) : AllQuiet(k[i]) /\ TakenOnly(k[i], k[0])
<1> DEFINE B == {i \in 0..Len(q) : AllQuiet(k[i]) /\ TakenOnly(k[i], k[0])}
<1>1. Len(q) \in Nat
  OBVIOUS
<1>2. 0 \in B
  BY <1>1 DEF TakenOnly
<1>3. ASSUME NEW i \in 1..Len(q), i - 1 \in B PROVE i \in B
  <2>1. PICK u, v, s : u = k[i-1] /\ v = k[i] /\ s = q[i]
    OBVIOUS
  <2>2. u \in Writers /\ StashTaken(v, u, s) /\ AllQuiet(u) /\ TakenOnly(u, k[0])
    BY <1>3, <2>1
  <2>3. TakenOnly(v, k[0])
    BY <2>2 DEF StashTaken, TakenOnly
  <2>4. AllQuiet(v)
    <3>1. CASE v.frees = u.frees
      BY <2>2, <3>1 DEF AllQuiet
    <3>2. CASE v.frees = Append(u.frees, FreeCommand(u, s))
      <4>1. u.frees \in Seq(Commands)
        BY <2>2 DEF Writers
      <4>2. Quiet(FreeCommand(u, s))
        BY DEF FreeCommand, Command, Quiet
      <4>3. \A j \in DOMAIN v.frees : IF j = Len(u.frees) + 1 THEN v.frees[j] = FreeCommand(u, s)
                                      ELSE j \in DOMAIN u.frees /\ v.frees[j] = u.frees[j]
        BY <3>2, <4>1
      <4> QED
        BY <2>2, <4>2, <4>3 DEF AllQuiet
    <3> QED
      BY <2>2, <3>1, <3>2 DEF StashTaken
  <2> QED
    BY <2>1, <2>3, <2>4
<1>4. B = 0..Len(q)
  <2>1. B \in SUBSET (0..Len(q))
    OBVIOUS
  <2> HIDE DEF B
  <2> QED
    BY <1>1, <1>2, <1>3, <2>1, UpTo
<1> QED
  BY <1>4

-----------------------------------------------------------------------------
(* One round of WriteTransfers.                                            *)

Rested(w) == [w EXCEPT !.frees = <<>>, !.freeSize = 0]

MadeNow == FoldLeft(MakeStash, Rested(wr), stashBefore[Current])

FullNow == [MadeNow EXCEPT !.peak = Larger(@, MadeNow.stashed)]

NamesNow == {[key |-> Key(FullNow, s), blocks |-> s.blocks] : s \in useStash[Current]}

UsedNow == FoldLeft(TakeStash, FullNow, SetToSeq(useStash[Current]))

DoneNow == WriteCommand(UsedNow, Current, NamesNow)

FreedNow == [DoneNow EXCEPT !.out = @ \o DoneNow.frees, !.stashed = @ - DoneNow.freeSize]

LEMMA RoundOfWrite ==
    WriteTransfer =>
      /\ pc = "write" /\ idx \in DOMAIN transfers /\ idx' = idx + 1
      /\ UNCHANGED planState
      /\ RoundSane(FullNow, Current) =>
            /\ wr' = FreedNow
            /\ pc' = IF version >= 2 /\ cache.known /\ ~PeakAllowed(FreedNow.peak)
                     THEN "oversize" ELSE "write"
BY Zenon DEF WriteTransfer, Current, Rested, MadeNow, FullNow, NamesNow, UsedNow, DoneNow,
             FreedNow

(* What the writer works from: the plan, and the commands ComputePatches   *)
(* has picked.                                                             *)
StylesPicked ==
    /\ style \in [Transfers -> {"new", "zero", "move", "bsdiff"}]
    /\ \A t \in Transfers : /\ style[t] = "bsdiff" => src[t] # {}
                            /\ style[t] = "move" => Cardinality(src[t]) = Cardinality(Tgt[t])

StashesFit ==
    version >= 2 /\ cache.known =>
        \A i \in DOMAIN transfers : SizeOf(LiveAt(i)) <= cache.allowed

Settled ==
    /\ PlanOrdered /\ PlanPaired /\ StashesNeeded /\ SequenceGood
    /\ \A t \in Transfers : Injective(stashBefore[t])
    /\ StylesPicked /\ StashesFit

(* What it has written when it comes to the next transfer.                 *)
WriterSound(w, O) ==
    /\ w \in Writers
    /\ SlotsKept(w, O)
    /\ CountsKept(Rested(w), O)
    /\ Faithful(w)
    /\ version = 1 => w.stashed = 0
    /\ version = 2 /\ cache.known => w.peak <= cache.allowed

LEMMA RestedWriter ==
    ASSUME NEW w \in Writers
    PROVE  /\ Rested(w) \in Writers
           /\ Rested(w).frees = <<>> /\ Rested(w).freeSize = 0
           /\ Rested(w).ids = w.ids /\ Rested(w).free = w.free /\ Rested(w).next = w.next
           /\ Rested(w).refs = w.refs /\ Rested(w).stashed = w.stashed
           /\ Rested(w).peak = w.peak /\ Rested(w).touched = w.touched
           /\ Rested(w).total = w.total /\ Rested(w).out = w.out
<1>1. <<>> \in Seq(Commands)
  OBVIOUS
<1> QED
  BY <1>1 DEF Rested, Writers

(* The stashes that a round of the writer is about.                        *)
LEMMA RoundStashes ==
    ASSUME Settled, idx \in DOMAIN transfers, NEW xf, xf = Current
    PROVE  /\ xf \in Transfers /\ order[xf] = idx /\ version \in Versions
           /\ Outstanding \in SUBSET Stashes /\ StashesMade(xf) \in SUBSET Stashes
           /\ LiveAt(idx) \in SUBSET Stashes
           /\ useStash[xf] \subseteq Outstanding
           /\ useStash[xf] \subseteq LiveAt(idx)
           /\ Outstanding \cap StashesMade(xf) = {}
           /\ LiveAt(idx) = Outstanding \cup StashesMade(xf)
           /\ stashBefore[xf] \in Seq(Stashes) /\ Injective(stashBefore[xf])
           /\ Placed(stashBefore[xf]) = StashesMade(xf)
           /\ version = 1 => stashBefore[xf] = <<>> /\ useStash[xf] = {}
           /\ useStash[xf] # {} => version >= 2
<1>1. PlanOrdered /\ PlanPaired /\ StashesNeeded
  BY DEF Settled
<1>2. /\ xf \in Transfers /\ order[xf] = idx
      /\ Pending \in SUBSET Stashes /\ StashesMade(xf) \in SUBSET Stashes
      /\ useStash[xf] \subseteq Pending
      /\ Pending \cap StashesMade(xf) = {}
      /\ LiveAt(idx) = Pending \cup StashesMade(xf)
  BY <1>1, StashesAround
<1>3. Outstanding = Pending
  BY DEF Outstanding, Pending
<1>4. stashBefore[xf] \in Seq(Stashes) /\ Injective(stashBefore[xf]) /\ version \in Versions
  BY <1>1, <1>2 DEF Settled, PlanOrdered
<1>5. Placed(stashBefore[xf]) = StashesMade(xf)
  BY DEF Placed, StashesMade
<1>6. useStash[xf] # {} => version >= 2
  BY <1>1, <1>2 DEF StashesNeeded
<1>7. version = 1 => stashBefore[xf] = <<>> /\ useStash[xf] = {}
  <2> SUFFICES ASSUME version = 1 PROVE stashBefore[xf] = <<>> /\ useStash[xf] = {}
    OBVIOUS
  <2>1. ~(version >= 2)
    OBVIOUS
  <2>2. \A s \in StashesMade(xf) : s.use \in Transfers /\ s \in useStash[s.use]
    BY <1>1, <1>2 DEF PlanPaired, Stashes
  <2>3. StashesMade(xf) = {}
    BY <1>1, <2>1, <2>2 DEF StashesNeeded
  <2>4. Len(stashBefore[xf]) = 0
    BY <1>4, <2>3 DEF StashesMade
  <2> QED
    BY <1>4, <1>6, <2>1, <2>4
<1> QED
  BY <1>2, <1>3, <1>4, <1>5, <1>6, <1>7

(* The writer at the passes of the two loops of this round.                *)
MakingRun(k) ==
    /\ Passes(k, TRUE, Rested(wr), stashBefore[Current])
    /\ MadeNow = k[Len(stashBefore[Current])]
    /\ \A i \in 0..Len(stashBefore[Current]) :
          MadeUpTo(k, stashBefore[Current], Outstanding, i)
    /\ \A i \in 1..Len(stashBefore[Current]) :
          k[i-1] \in Writers /\ StashMade(k[i], k[i-1], stashBefore[Current][i])

LEMMA RoundMakes ==
    ASSUME Settled, idx \in DOMAIN transfers, WriterSound(wr, Outstanding)
    PROVE  /\ \E k : MakingRun(k)
           /\ MadeNow \in Writers
           /\ SlotsKept(MadeNow, LiveAt(idx)) /\ CountsKept(MadeNow, LiveAt(idx))
           /\ Faithful(MadeNow) /\ MadeOnly(MadeNow, Rested(wr))
           /\ version = 1 => MadeNow = Rested(wr)
<1>1. PICK xf, q, w, O : xf = Current /\ q = stashBefore[xf] /\ w = Rested(wr)
                         /\ O = Outstanding
  OBVIOUS
<1>2. /\ O \in SUBSET Stashes /\ O \cap Placed(q) = {}
      /\ LiveAt(idx) = O \cup Placed(q)
      /\ q \in Seq(Stashes) /\ Injective(q) /\ version \in Versions
      /\ version = 1 => q = <<>>
  BY <1>1, RoundStashes
<1>3. /\ w \in Writers /\ SlotsKept(w, O) /\ CountsKept(w, O) /\ Faithful(w)
  <2>1. wr \in Writers
    BY DEF WriterSound
  <2>2. SlotsKept(wr, O) /\ CountsKept(w, O) /\ Faithful(wr)
    BY <1>1 DEF WriterSound
  <2>3. /\ w \in Writers /\ w.ids = wr.ids /\ w.free = wr.free /\ w.next = wr.next
        /\ w.out = wr.out /\ w.touched = wr.touched
    BY <1>1, <2>1, RestedWriter
  <2>4. SlotsKept(w, O)
    BY <2>2, <2>3 DEF SlotsKept
  <2>5. Faithful(w)
    BY <2>2, <2>3 DEF Faithful
  <2> QED
    BY <2>2, <2>3, <2>4, <2>5
<1>4. Len(q) \in Nat /\ DOMAIN q = 1..Len(q)
  BY <1>2
<1>5. PICK k : Passes(k, TRUE, w, q) /\ FoldLeft(MakeStash, w, q) = k[Len(q)]
  BY <1>4, MakingPasses
<1>6. /\ \A i \in 0..Len(q) : MadeUpTo(k, q, O, i)
      /\ \A i \in 1..Len(q) : k[i-1] \in Writers /\ StashMade(k[i], k[i-1], q[i])
  BY <1>2, <1>3, <1>5, MakingKeeps
<1>7. k[0] = w
  BY <1>5 DEF Passes
<1>8. \A i \in 0..Len(q) : Faithful(k[i]) /\ MadeOnly(k[i], k[0])
  <2>1. Faithful(k[0])
    BY <1>3, <1>7
  <2> QED
    BY <1>2, <1>6, <2>1, MakingFaithful
<1>9. MadeNow = k[Len(q)] /\ Len(q) \in 0..Len(q)
  BY <1>1, <1>4, <1>5 DEF MadeNow
<1>10. MakingRun(k)
  BY <1>1, <1>5, <1>6, <1>9 DEF MakingRun
<1>11. O \cup FirstOf(q, Len(q)) = LiveAt(idx)
  BY <1>2, <1>4, FirstOfEnds
<1>12. /\ MadeNow \in Writers
       /\ SlotsKept(MadeNow, LiveAt(idx)) /\ CountsKept(MadeNow, LiveAt(idx))
  BY <1>6, <1>9, <1>11 DEF MadeUpTo
<1>13. version = 1 => MadeNow = Rested(wr)
  <2>1. Len(<<>>) = 0
    OBVIOUS
  <2> QED
    BY <1>1, <1>2, <1>7, <1>9, <2>1
<1> QED
  BY <1>1, <1>7, <1>8, <1>9, <1>10, <1>12, <1>13

(* max_stashed_blocks is brought up to date.                               *)
LEMMA RoundPeaks ==
    ASSUME Settled, idx \in DOMAIN transfers, WriterSound(wr, Outstanding), cache \in Caches
    PROVE  /\ FullNow \in Writers
           /\ FullNow.ids = MadeNow.ids /\ FullNow.free = MadeNow.free
           /\ FullNow.next = MadeNow.next /\ FullNow.refs = MadeNow.refs
           /\ FullNow.stashed = MadeNow.stashed /\ FullNow.touched = MadeNow.touched
           /\ FullNow.out = MadeNow.out /\ FullNow.frees = <<>> /\ FullNow.freeSize = 0
           /\ SlotsKept(FullNow, LiveAt(idx)) /\ CountsKept(FullNow, LiveAt(idx))
           /\ Faithful(FullNow)
           /\ FullNow.peak = Larger(wr.peak, FullNow.stashed)
           /\ version = 1 => FullNow.stashed = 0
           /\ version = 2 => FullNow.stashed = SizeOf(LiveAt(idx))
           /\ version = 2 /\ cache.known => FullNow.peak <= cache.allowed
<1>1. /\ wr \in Writers /\ version \in Versions
      /\ version = 1 => wr.stashed = 0
      /\ version = 2 /\ cache.known => wr.peak <= cache.allowed
  BY DEF WriterSound, Settled, PlanOrdered
<1>2. /\ MadeNow \in Writers /\ SlotsKept(MadeNow, LiveAt(idx))
      /\ CountsKept(MadeNow, LiveAt(idx)) /\ Faithful(MadeNow)
      /\ MadeOnly(MadeNow, Rested(wr)) /\ (version = 1 => MadeNow = Rested(wr))
  BY RoundMakes
<1>3. MadeNow.peak = wr.peak /\ MadeNow.frees = <<>> /\ MadeNow.freeSize = 0
  BY <1>1, <1>2, RestedWriter DEF MadeOnly
<1>4. wr.peak \in Nat /\ MadeNow.stashed \in Int
  BY <1>1, <1>2 DEF Writers
<1>5. PICK p : p = Larger(wr.peak, MadeNow.stashed) /\ p \in Nat
               /\ (p = wr.peak \/ p = MadeNow.stashed)
  BY <1>4 DEF Larger
<1>6. FullNow = [MadeNow EXCEPT !.peak = p]
  BY <1>3, <1>5 DEF FullNow
<1>7. /\ FullNow \in Writers
      /\ FullNow.ids = MadeNow.ids /\ FullNow.free = MadeNow.free
      /\ FullNow.next = MadeNow.next /\ FullNow.refs = MadeNow.refs
      /\ FullNow.stashed = MadeNow.stashed /\ FullNow.touched = MadeNow.touched
      /\ FullNow.out = MadeNow.out /\ FullNow.frees = MadeNow.frees
      /\ FullNow.freeSize = MadeNow.freeSize /\ FullNow.peak = p
  BY <1>2, <1>5, <1>6 DEF Writers
<1>8. SlotsKept(FullNow, LiveAt(idx))
  BY <1>2, <1>7 DEF SlotsKept
<1>9. CountsKept(FullNow, LiveAt(idx))
  BY <1>2, <1>7 DEF CountsKept
<1>10. Faithful(FullNow)
  BY <1>2, <1>7 DEF Faithful
<1>11. version = 1 => FullNow.stashed = 0
  BY <1>1, <1>2, <1>7, RestedWriter
<1>12. version = 2 => FullNow.stashed = SizeOf(LiveAt(idx))
  <2> SUFFICES ASSUME version = 2 PROVE FullNow.stashed = SizeOf(LiveAt(idx))
    OBVIOUS
  <2>1. FullNow.stashed - 0 = SizeOf(LiveAt(idx))
    BY <1>3, <1>7, <1>9 DEF CountsKept
  <2> QED
    BY <1>4, <1>7, <2>1
<1>13. version = 2 /\ cache.known => FullNow.peak <= cache.allowed
  <2> SUFFICES ASSUME version = 2, cache.known PROVE FullNow.peak <= cache.allowed
    OBVIOUS
  <2>1. SizeOf(LiveAt(idx)) <= cache.allowed
    BY DEF Settled, StashesFit
  <2> QED
    BY <1>1, <1>5, <1>7, <1>12, <2>1
<1> QED
  BY <1>3, <1>5, <1>7, <1>8, <1>9, <1>10, <1>11, <1>12, <1>13

(* The blocks of different stashes that one transfer uses are different.   *)
LEMMA StashesApart ==
    ASSUME Settled, NEW t \in Transfers, NEW r \in useStash[t], NEW s \in useStash[t], r # s
    PROVE  r.blocks \cap s.blocks = {}
<1>1. /\ r \in Stashes /\ s \in Stashes /\ r.use = t /\ s.use = t
      /\ r.blocks = src[t] \cap Tgt[r.def] /\ s.blocks = src[t] \cap Tgt[s.def]
  BY DEF Settled, PlanOrdered, PlanPaired, StashesNeeded
<1>2. r.def \in Transfers /\ s.def \in Transfers
  BY <1>1 DEF Stashes
<1>3. r.def # s.def
  <2> SUFFICES ASSUME r.def = s.def PROVE r = s
    OBVIOUS
  <2>1. r = [def |-> r.def, use |-> r.use, blocks |-> r.blocks]
        /\ s = [def |-> s.def, use |-> s.use, blocks |-> s.blocks]
    BY <1>1 DEF Stashes
  <2> QED
    BY <1>1, <2>1
<1> QED
  BY <1>1, <1>2, <1>3, TgtAssumption

(* The assertions of WriteTransfers hold.                                  *)
LEMMA RoundIsSaneToo ==
    ASSUME Settled, idx \in DOMAIN transfers, WriterSound(wr, Outstanding), cache \in Caches
    PROVE  RoundSane(FullNow, Current)
<1>1. PICK xf, w, O : xf = Current /\ w = FullNow /\ O = LiveAt(idx)
  OBVIOUS
<1>2. /\ xf \in Transfers /\ O \in SUBSET Stashes /\ useStash[xf] \subseteq O
      /\ version \in Versions
      /\ version = 1 => stashBefore[xf] = <<>> /\ useStash[xf] = {}
  BY <1>1, RoundStashes
<1>3. w \in Writers /\ SlotsKept(w, O) /\ CountsKept(w, O)
  BY <1>1, RoundPeaks
<1>4. ASSUME NEW s \in useStash[xf]
      PROVE  /\ \E id \in 0..w.next : <<s, id>> \in w.ids
             /\ s.blocks \subseteq src[xf]
             /\ \A r \in useStash[xf] \ {s} : r.blocks \cap s.blocks = {}
  <2>1. \E id \in 0..w.next : <<s, id>> \in w.ids
    BY <1>2, <1>3, SlotsShrink
  <2>2. s.blocks \subseteq src[xf]
    BY <1>2 DEF Settled, StashesNeeded
  <2>3. \A r \in useStash[xf] \ {s} : r.blocks \cap s.blocks = {}
    BY <1>2, StashesApart
  <2> QED
    BY <2>1, <2>2, <2>3
<1>5. ASSUME NEW s \in useStash[xf], version >= 3
      PROVE  LET h == HashBlocks(s.blocks)
             IN  Waiting(h, w.refs) >= Cardinality(
                      {r \in useStash[xf] : HashBlocks(r.blocks) = h})
  <2>1. PICK h : h = HashBlocks(s.blocks)
    OBVIOUS
  <2>2. h \in Hashes
    BY <1>2, <2>1, StashHasBlocks DEF HashOf
  <2>3. Waiting(h, w.refs) = Cardinality(Sharing(h, O))
    BY <1>3, <1>5, <2>2 DEF CountsKept
  <2>4. PICK U : U = {r \in useStash[xf] : HashBlocks(r.blocks) = h}
    OBVIOUS
  <2>5. U \subseteq Sharing(h, O)
    BY <1>2, <2>4 DEF Sharing, HashOf
  <2>6. IsFiniteSet(Sharing(h, O)) /\ Cardinality(Sharing(h, O)) \in Nat
    BY <1>2, SharingFinite
  <2>7. Cardinality(U) <= Cardinality(Sharing(h, O)) /\ Cardinality(U) \in Nat
    BY <2>5, <2>6, FS_Subset, FS_CardinalityType
  <2>8. Waiting(h, w.refs) >= Cardinality(U)
    BY <2>3, <2>6, <2>7
  <2> QED
    BY Zenon, <2>1, <2>4, <2>8
<1>6. /\ style[xf] = "move" => Cardinality(src[xf]) = Cardinality(Tgt[xf])
      /\ style[xf] = "bsdiff" => src[xf] # {}
  BY <1>2 DEF Settled, StylesPicked
<1> QED
  BY Zenon, <1>1, <1>2, <1>4, <1>5, <1>6 DEF RoundSane

TakingRun(k) ==
    /\ Passes(k, FALSE, FullNow, SetToSeq(useStash[Current]))
    /\ UsedNow = k[Len(SetToSeq(useStash[Current]))]
    /\ \A i \in 0..Len(SetToSeq(useStash[Current])) :
          TakenUpTo(k, SetToSeq(useStash[Current]), LiveAt(idx), i)
    /\ \A i \in 1..Len(SetToSeq(useStash[Current])) :
          k[i-1] \in Writers /\ StashTaken(k[i], k[i-1], SetToSeq(useStash[Current])[i])

LEMMA RoundTakes ==
    ASSUME Settled, idx \in DOMAIN transfers, WriterSound(wr, Outstanding), cache \in Caches
    PROVE  /\ \E k : TakingRun(k)
           /\ UsedNow \in Writers
           /\ SlotsKept(UsedNow, LiveAt(idx) \ useStash[Current])
           /\ CountsKept(UsedNow, LiveAt(idx) \ useStash[Current])
           /\ AllQuiet(UsedNow) /\ TakenOnly(UsedNow, FullNow)
           /\ version = 1 => UsedNow = FullNow
<1>1. PICK xf, T, w, O : xf = Current /\ T = useStash[xf] /\ w = FullNow /\ O = LiveAt(idx)
  OBVIOUS
<1>2. PICK q : q = SetToSeq(T)
  OBVIOUS
<1>3. /\ O \in SUBSET Stashes /\ T \subseteq O /\ version \in Versions
      /\ version = 1 => T = {}
      /\ T # {} => version >= 2
  BY <1>1, RoundStashes
<1>4. w \in Writers /\ SlotsKept(w, O) /\ CountsKept(w, O) /\ w.frees = <<>>
  BY <1>1, RoundPeaks
<1>5. IsFiniteSet(T)
  BY <1>3, StashesFinite, FS_Subset
<1>6. q \in Seq(T) /\ Len(q) = Cardinality(T) /\ Injective(q) /\ Placed(q) = T
  BY <1>2, <1>5, SetIsListed
<1>7. q \in Seq(Stashes) /\ Len(q) \in Nat /\ DOMAIN q = 1..Len(q)
  BY <1>3, <1>6
<1>8. q # <<>> => T # {}
  BY <1>6
<1>9. PICK k : Passes(k, FALSE, w, q) /\ FoldLeft(TakeStash, w, q) = k[Len(q)]
  BY <1>7, TakingPasses
<1>10. /\ \A i \in 0..Len(q) : TakenUpTo(k, q, O, i)
       /\ \A i \in 1..Len(q) : k[i-1] \in Writers /\ StashTaken(k[i], k[i-1], q[i])
  <2>1. Placed(q) \subseteq O /\ (q # <<>> => version >= 2)
    BY <1>3, <1>6, <1>8
  <2> QED
    BY <1>3, <1>4, <1>6, <1>7, <1>9, <2>1, TakingKeeps
<1>11. k[0] = w
  BY <1>9 DEF Passes
<1>12. \A i \in 0..Len(q) : AllQuiet(k[i]) /\ TakenOnly(k[i], k[0])
  <2>1. AllQuiet(k[0])
    BY <1>4, <1>11 DEF AllQuiet
  <2> QED
    BY <1>7, <1>10, <2>1, TakingQuiet
<1>13. UsedNow = k[Len(q)] /\ Len(q) \in 0..Len(q)
  BY <1>1, <1>2, <1>7, <1>9 DEF UsedNow
<1>14. TakingRun(k)
  BY <1>1, <1>2, <1>9, <1>10, <1>13 DEF TakingRun
<1>15. O \ FirstOf(q, Len(q)) = O \ T
  BY <1>6, <1>7, FirstOfEnds
<1>16. UsedNow \in Writers /\ SlotsKept(UsedNow, O \ T) /\ CountsKept(UsedNow, O \ T)
  BY <1>10, <1>13, <1>15 DEF TakenUpTo
<1>17. version = 1 => UsedNow = FullNow
  <2> SUFFICES ASSUME version = 1 PROVE UsedNow = FullNow
    OBVIOUS
  <2>1. Len(q) = 0
    BY <1>3, <1>6, FS_EmptySet
  <2> QED
    BY <1>1, <1>11, <1>13, <2>1
<1> QED
  BY <1>1, <1>11, <1>12, <1>13, <1>14, <1>16, <1>17

(* The command of a transfer, if it needs one.                             *)
NothingToWrite(xf) ==
    \/ style[xf] = "zero" /\ Tgt[xf] \ src[xf] = {}
    \/ style[xf] = "move" /\ src[xf] = Tgt[xf]

Reading(xf) == style[xf] \in {"move", "bsdiff"} /\ ~NothingToWrite(xf)

TransferCommand(xf, refs) ==
    IF style[xf] = "new" THEN Command("new", Tgt[xf], {}, 0, {})
    ELSE IF style[xf] = "zero" THEN Command("zero", Tgt[xf] \ src[xf], {}, 0, {})
    ELSE Command(style[xf], Tgt[xf], src[xf], 0, refs)

Commanded(v, w, xf, refs) ==
    /\ v \in Writers
    /\ v.ids = w.ids /\ v.free = w.free /\ v.next = w.next /\ v.refs = w.refs
    /\ v.stashed = w.stashed /\ v.frees = w.frees /\ v.freeSize = w.freeSize
    /\ v.out = IF NothingToWrite(xf) THEN w.out
               ELSE Append(w.out, TransferCommand(xf, refs))
    /\ v.touched = IF Reading(xf) /\ version >= 3 THEN w.touched \cup src[xf] ELSE w.touched
    /\ v.peak = IF Reading(xf) /\ version >= 3 /\ src[xf] \cap Tgt[xf] # {}
                THEN Larger(w.peak, w.stashed + Cardinality(src[xf])) ELSE w.peak

LEMMA CommandType ==
    ASSUME StylesPicked, src \in [Transfers -> SUBSET Blocks], NEW xf \in Transfers,
           NEW refs \in SUBSET Names
    PROVE  /\ TransferCommand(xf, refs) \in Commands
           /\ TransferCommand(xf, refs).tgt \subseteq TargetBlocks
           /\ Read(TransferCommand(xf, refs)) \subseteq src[xf]
           /\ ~(style[xf] \in {"move", "bsdiff"}) => Read(TransferCommand(xf, refs)) = {}
<1>1. style[xf] \in {"new", "zero", "move", "bsdiff"}
  BY DEF StylesPicked
<1>2. Tgt[xf] \in SUBSET Blocks /\ src[xf] \in SUBSET Blocks /\ Tgt[xf] \subseteq TargetBlocks
  BY TgtAssumption, ImageAssumption DEF Care
<1>3. 0 \in Keys
  BY DEF Keys
<1>4. CASE style[xf] = "new"
  BY <1>2, <1>3, <1>4 DEF TransferCommand, Command, Commands, Read
<1>5. CASE style[xf] = "zero"
  BY <1>2, <1>3, <1>5 DEF TransferCommand, Command, Commands, Read
<1>6. CASE style[xf] = "move"
  BY <1>2, <1>3, <1>6 DEF TransferCommand, Command, Commands, Read
<1>7. CASE style[xf] = "bsdiff"
  BY <1>2, <1>3, <1>7 DEF TransferCommand, Command, Commands, Read
<1> QED
  BY <1>1, <1>4, <1>5, <1>6, <1>7

LEMMA WriteCommandWrites ==
    ASSUME StylesPicked, src \in [Transfers -> SUBSET Blocks], NEW xf \in Transfers,
           NEW refs \in SUBSET Names, NEW w \in Writers
    PROVE  Commanded(WriteCommand(w, xf, refs), w, xf, refs)
<1>1. style[xf] \in {"new", "zero", "move", "bsdiff"}
  BY DEF StylesPicked
<1>2. Tgt[xf] \in SUBSET Blocks /\ src[xf] \in SUBSET Blocks
  BY TgtAssumption
<1>3. PICK n, m, k : n = Cardinality(Tgt[xf]) /\ m = Cardinality(Tgt[xf] \ src[xf])
                     /\ k = Cardinality(src[xf])
  OBVIOUS
<1>4. n \in Nat /\ m \in Nat /\ k \in Nat
  <2>1. Tgt[xf] \ src[xf] \in SUBSET Blocks
    BY <1>2
  <2> QED
    BY <1>2, <1>3, <2>1, BlocksCount
<1>5. PICK o : o = Append(w.out, TransferCommand(xf, refs)) /\ o \in Seq(Commands)
  <2>1. PICK c : c = TransferCommand(xf, refs)
    OBVIOUS
  <2>2. c \in Commands
    BY <2>1, CommandType
  <2>3. w.out \in Seq(Commands)
    BY DEF Writers
  <2>4. Append(w.out, c) \in Seq(Commands)
    BY <2>2, <2>3
  <2> QED
    BY Zenon, <2>1, <2>4
<1>6. /\ w.total \in Nat /\ w.peak \in Nat /\ w.stashed \in Int
      /\ w.touched \in SUBSET Blocks
  BY DEF Writers
<1>7. PICK tn, tm : tn = w.total + n /\ tn \in Nat /\ tm = w.total + m /\ tm \in Nat
  BY <1>4, <1>6
<1>8. CASE style[xf] = "new"
  <2>1. WriteCommand(w, xf, refs) = [w EXCEPT !.out = o, !.total = tn]
    BY <1>3, <1>5, <1>7, <1>8 DEF WriteCommand, TransferCommand
  <2>2. ~NothingToWrite(xf) /\ ~Reading(xf)
    BY <1>8 DEF NothingToWrite, Reading
  <2> QED
    BY <1>5, <1>7, <2>1, <2>2 DEF Commanded, Writers
<1>9. CASE style[xf] = "zero"
  <2>1. WriteCommand(w, xf, refs) = IF Tgt[xf] \ src[xf] = {} THEN w
                                    ELSE [w EXCEPT !.out = o, !.total = tm]
    BY <1>3, <1>5, <1>7, <1>9 DEF WriteCommand, TransferCommand
  <2>2. ~Reading(xf) /\ (NothingToWrite(xf) <=> Tgt[xf] \ src[xf] = {})
    BY <1>9 DEF NothingToWrite, Reading
  <2> QED
    BY <1>5, <1>7, <2>1, <2>2 DEF Commanded, Writers
<1>10. CASE style[xf] = "move" /\ src[xf] = Tgt[xf]
  <2>1. WriteCommand(w, xf, refs) = w
    BY <1>10 DEF WriteCommand
  <2>2. ~Reading(xf) /\ NothingToWrite(xf)
    BY <1>10 DEF NothingToWrite, Reading
  <2> QED
    BY <2>1, <2>2 DEF Commanded
<1>11. CASE style[xf] \in {"move", "bsdiff"} /\ ~(style[xf] = "move" /\ src[xf] = Tgt[xf])
  <2>1. PICK p : p = (IF version >= 3 /\ src[xf] \cap Tgt[xf] # {}
                      THEN Larger(w.peak, w.stashed + k) ELSE w.peak)
    OBVIOUS
  <2>2. p \in Nat
    BY <1>4, <1>6, <2>1 DEF Larger
  <2>3. PICK d : d = IF version >= 3 THEN w.touched \cup src[xf] ELSE w.touched
    OBVIOUS
  <2>4. d \in SUBSET Blocks
    BY <1>2, <1>6, <2>3
  <2>5. o = Append(w.out, Command(style[xf], Tgt[xf], src[xf], 0, refs))
    BY <1>5, <1>11 DEF TransferCommand
  <2>6. WriteCommand(w, xf, refs)
          = [w EXCEPT !.out = o, !.total = tn, !.peak = p, !.touched = d]
    BY <1>3, <1>6, <1>7, <1>11, <2>1, <2>3, <2>5 DEF WriteCommand, TempUsage
  <2>7. Reading(xf) /\ ~NothingToWrite(xf)
    BY <1>11 DEF NothingToWrite, Reading
  <2>8. [w EXCEPT !.out = o, !.total = tn, !.peak = p, !.touched = d] \in Writers
    BY <1>5, <1>7, <2>2, <2>4 DEF Writers
  <2> QED
    BY <1>3, <1>5, <2>1, <2>3, <2>6, <2>7, <2>8 DEF Commanded, Writers
<1> QED
  BY <1>1, <1>8, <1>9, <1>10, <1>11

LEMMA RoundNames ==
    ASSUME Settled, idx \in DOMAIN transfers, WriterSound(wr, Outstanding), cache \in Caches
    PROVE  NamesNow \in SUBSET Names
<1>1. PICK xf, w, O : xf = Current /\ w = FullNow /\ O = LiveAt(idx)
  OBVIOUS
<1>2. O \in SUBSET Stashes /\ useStash[xf] \subseteq O
  BY <1>1, RoundStashes
<1>3. w \in Writers /\ SlotsKept(w, O)
  BY <1>1, RoundPeaks
<1>4. ASSUME NEW s \in useStash[xf]
      PROVE  Key(w, s) \in Keys /\ s.blocks \in SUBSET Blocks
  <2>1. SlotOf(w, s) \in Nat
    BY <1>2, <1>3, SlotsShrink
  <2>2. HashOf(s) \in Hashes /\ s.blocks \in SUBSET Blocks
    BY <1>2, StashHasBlocks
  <2> QED
    BY <2>1, <2>2 DEF Key, Keys, HashOf
<1> QED
  BY <1>1, <1>4 DEF NamesNow, Names

LEMMA RoundCommands ==
    ASSUME Settled, idx \in DOMAIN transfers, WriterSound(wr, Outstanding), cache \in Caches
    PROVE  /\ Commanded(DoneNow, UsedNow, Current, NamesNow)
           /\ Faithful(DoneNow)
<1>1. PICK xf, u, v, R : xf = Current /\ u = UsedNow /\ v = DoneNow /\ R = NamesNow
  OBVIOUS
<1>2. xf \in Transfers /\ R \in SUBSET Names /\ u \in Writers
  BY <1>1, RoundStashes, RoundNames, RoundTakes
<1>3. StylesPicked /\ src \in [Transfers -> SUBSET Blocks]
  BY DEF Settled, PlanOrdered
<1>4. Commanded(v, u, xf, R)
  <2>1. v = WriteCommand(u, xf, R)
    BY <1>1 DEF DoneNow
  <2> QED
    BY <1>2, <1>3, <2>1, WriteCommandWrites
<1>5. Faithful(u)
  <2>1. Faithful(FullNow) /\ TakenOnly(u, FullNow)
    BY <1>1, RoundPeaks, RoundTakes
  <2> QED
    BY <2>1 DEF Faithful, TakenOnly
<1>6. Faithful(v)
  <2>1. CASE NothingToWrite(xf)
    <3>1. v.out = u.out /\ v.touched = u.touched
      BY <1>4, <2>1 DEF Commanded, Reading
    <3> QED
      BY <1>5, <3>1 DEF Faithful
  <2>2. CASE ~NothingToWrite(xf)
    <3>1. PICK c : c = TransferCommand(xf, R)
      OBVIOUS
    <3>2. /\ c \in Commands /\ c.tgt \subseteq TargetBlocks /\ Read(c) \subseteq src[xf]
          /\ ~(style[xf] \in {"move", "bsdiff"}) => Read(c) = {}
      BY <1>2, <1>3, <3>1, CommandType
    <3>3. /\ v.out = Append(u.out, c) /\ u.touched \subseteq v.touched
          /\ style[xf] \in {"move", "bsdiff"} /\ version >= 3 => src[xf] \subseteq v.touched
      BY <1>4, <2>2, <3>1 DEF Commanded, Reading
    <3> QED
      BY <1>2, <1>5, <3>2, <3>3, AppendFaithful
  <2> QED
    BY <2>1, <2>2
<1> QED
  BY <1>1, <1>4, <1>6

LEMMA ConcatIsBoth ==
    ASSUME NEW T, NEW p \in Seq(T), NEW q \in Seq(T), NEW i \in DOMAIN (p \o q)
    PROVE  \/ i \in DOMAIN p /\ (p \o q)[i] = p[i]
           \/ \E j \in DOMAIN q : i = Len(p) + j /\ (p \o q)[i] = q[j]
<1>1. Len(p) \in Nat /\ Len(q) \in Nat /\ DOMAIN p = 1..Len(p) /\ DOMAIN q = 1..Len(q)
      /\ i \in 1..(Len(p) + Len(q))
  OBVIOUS
<1>2. CASE i <= Len(p)
  BY <1>1, <1>2
<1>3. CASE ~(i <= Len(p))
  <2>1. PICK j : j = i - Len(p) /\ j \in 1..Len(q) /\ i = Len(p) + j
    BY <1>1, <1>3
  <2>2. (p \o q)[i] = q[j]
    BY <1>1, <1>3, <2>1
  <2> QED
    BY <1>1, <2>1, <2>2
<1> QED
  BY <1>2, <1>3

LEMMA ConcatHasBoth ==
    \A p, q \in Seq(Commands) : \A i \in DOMAIN (p \o q) :
        (\E j \in DOMAIN p : (p \o q)[i] = p[j]) \/ (\E j \in DOMAIN q : (p \o q)[i] = q[j])
<1> TAKE p, q \in Seq(Commands)
<1> TAKE i \in DOMAIN (p \o q)
<1>1. \/ i \in DOMAIN p /\ (p \o q)[i] = p[i]
      \/ \E j \in DOMAIN q : i = Len(p) + j /\ (p \o q)[i] = q[j]
  BY ConcatIsBoth
<1> QED
  BY <1>1

(* What the round leaves.                                                  *)
LEMMA RoundFrees ==
    ASSUME Settled, idx \in DOMAIN transfers, WriterSound(wr, Outstanding), cache \in Caches
    PROVE  /\ FreedNow \in Writers
           /\ FreedNow.out = DoneNow.out \o DoneNow.frees
           /\ FreedNow.stashed = DoneNow.stashed - DoneNow.freeSize
           /\ FreedNow.ids = DoneNow.ids /\ FreedNow.free = DoneNow.free
           /\ FreedNow.next = DoneNow.next /\ FreedNow.refs = DoneNow.refs
           /\ FreedNow.touched = DoneNow.touched /\ FreedNow.peak = DoneNow.peak
<1>1. DoneNow \in Writers
  BY RoundCommands DEF Commanded
<1>2. PICK o, n : o = DoneNow.out \o DoneNow.frees /\ n = DoneNow.stashed - DoneNow.freeSize
  OBVIOUS
<1>3. o \in Seq(Commands) /\ n \in Int
  BY <1>1, <1>2 DEF Writers
<1>4. FreedNow = [DoneNow EXCEPT !.out = o, !.stashed = n]
  BY <1>2 DEF FreedNow
<1> QED
  BY <1>1, <1>2, <1>3, <1>4 DEF Writers

LEMMA RoundWrites ==
    ASSUME Settled, idx \in DOMAIN transfers, WriterSound(wr, Outstanding), cache \in Caches
    PROVE  WriterSound(FreedNow, LiveAt(idx) \ useStash[Current])
<1>1. PICK v, d, u, f, O : v = FreedNow /\ d = DoneNow /\ u = UsedNow /\ f = FullNow
                           /\ O = LiveAt(idx) \ useStash[Current]
  OBVIOUS
<1>2. /\ v \in Writers /\ v.out = d.out \o d.frees
      /\ v.stashed = d.stashed - d.freeSize
      /\ v.ids = d.ids /\ v.free = d.free /\ v.next = d.next /\ v.refs = d.refs
      /\ v.touched = d.touched /\ v.peak = d.peak
  BY <1>1, RoundFrees
<1>3. Commanded(d, u, Current, NamesNow) /\ Faithful(d) /\ d \in Writers
  <2>1. Commanded(DoneNow, UsedNow, Current, NamesNow) /\ Faithful(DoneNow)
    BY RoundCommands
  <2> QED
    BY <1>1, <2>1 DEF Commanded
<1>4. /\ u \in Writers /\ SlotsKept(u, O) /\ CountsKept(u, O)
      /\ AllQuiet(u) /\ TakenOnly(u, f) /\ (version = 1 => u = f)
  BY <1>1, RoundTakes
<1>5. /\ f \in Writers
      /\ version = 1 => f.stashed = 0
      /\ version = 2 /\ cache.known => f.peak <= cache.allowed
      /\ f.freeSize = 0
  BY <1>1, RoundPeaks
<1>6. version \in 1..4
  BY VersionAssumption DEF Settled, PlanOrdered
<1>7. /\ d.ids = u.ids /\ d.free = u.free /\ d.next = u.next /\ d.refs = u.refs
      /\ d.stashed = u.stashed /\ d.frees = u.frees /\ d.freeSize = u.freeSize
      /\ version < 3 => d.peak = u.peak
  BY <1>3, <1>6 DEF Commanded
<1>8. SlotsKept(v, O)
  BY <1>2, <1>4, <1>7 DEF SlotsKept
<1>9. CountsKept(Rested(v), O)
  <2>1. /\ Rested(v).freeSize = 0 /\ Rested(v).stashed = u.stashed - u.freeSize
        /\ Rested(v).refs = u.refs
    BY <1>2, <1>7, RestedWriter
  <2>2. u.stashed \in Int /\ u.freeSize \in Nat
    BY <1>4 DEF Writers
  <2>3. Rested(v).stashed - Rested(v).freeSize = u.stashed - u.freeSize
    BY <2>1, <2>2
  <2> QED
    BY <1>4, <2>1, <2>3 DEF CountsKept
<1>10. Faithful(v)
  <2>1. d.out \in Seq(Commands) /\ d.frees \in Seq(Commands)
    BY <1>3 DEF Writers
  <2>2. AllQuiet(d)
    BY <1>4, <1>7 DEF AllQuiet
  <2>3. \A i \in DOMAIN v.out :
           \/ i \in DOMAIN d.out /\ v.out[i] = d.out[i]
           \/ \E j \in DOMAIN d.frees : v.out[i] = d.frees[j]
    <3>1. PICK p, q : p = d.out /\ q = d.frees
      OBVIOUS
    <3>2. p \in Seq(Commands) /\ q \in Seq(Commands) /\ v.out = p \o q
      BY <1>2, <2>1, <3>1
    <3>3. \A i \in DOMAIN (p \o q) : \/ i \in DOMAIN p /\ (p \o q)[i] = p[i]
                                     \/ \E j \in DOMAIN q : (p \o q)[i] = q[j]
      <4> TAKE i \in DOMAIN (p \o q)
      <4>1. \/ i \in DOMAIN p /\ (p \o q)[i] = p[i]
            \/ \E j \in DOMAIN q : i = Len(p) + j /\ (p \o q)[i] = q[j]
        BY <3>2, ConcatIsBoth
      <4> QED
        BY <4>1
    <3>4. PICK x : x = v.out /\ x = p \o q
      BY <3>2
    <3>5. \A i \in DOMAIN x : (i \in DOMAIN p /\ x[i] = p[i]) \/ \E j \in DOMAIN q : x[i] = q[j]
      BY ONLY <3>3, <3>4
    <3> QED
      BY <3>1, <3>4, <3>5
  <2>4. \A c : Quiet(c) => c.tgt = {} /\ Read(c) = {}
    BY QuietReadsNothing DEF Quiet
  <2>5. ASSUME NEW i \in DOMAIN v.out
        PROVE  /\ v.out[i].tgt \subseteq TargetBlocks
               /\ version >= 3 => Read(v.out[i]) \subseteq v.touched
    <3>1. CASE i \in DOMAIN d.out /\ v.out[i] = d.out[i]
      BY <1>2, <1>3, <3>1 DEF Faithful
    <3>2. ASSUME NEW j \in DOMAIN d.frees, v.out[i] = d.frees[j]
          PROVE  v.out[i].tgt = {} /\ Read(v.out[i]) = {}
      <4>1. Quiet(d.frees[j])
        BY <2>2 DEF AllQuiet
      <4> QED
        BY <2>4, <3>2, <4>1
    <3> QED
      BY <2>3, <3>1, <3>2
  <2> QED
    BY <2>5 DEF Faithful
<1>11. version = 1 => v.stashed = 0
  BY <1>2, <1>4, <1>5, <1>7
<1>12. version = 2 /\ cache.known => v.peak <= cache.allowed
  BY <1>2, <1>4, <1>5, <1>7 DEF TakenOnly
<1>13. v \in Writers
  BY <1>2
<1>14. WriterSound(v, O)
  BY <1>8, <1>9, <1>10, <1>11, <1>12, <1>13 DEF WriterSound
<1> QED
  BY <1>1, <1>14

-----------------------------------------------------------------------------
(* The inductive invariant of the whole of Compute.                        *)

Writing == {"write", "written", "oversize"}

Planning == Phases \cup Revising

(* What has been written out says no more than it should.                  *)
ListSound ==
    /\ wr \in Writers /\ Faithful(wr) /\ wr.stashed \in Nat
    /\ version = 2 /\ cache.known => wr.peak <= cache.allowed

ListInv ==
    /\ pc \in Planning \cup Writing /\ pc # "aborted"
    /\ cache \in Caches /\ stashedBlocks \in 0..cache.allowed /\ newBlocks \in Nat
    /\ pc \in Planning => PlanInv /\ wr = EmptyWriter
    /\ pc \in Writing => Settled /\ ListSound
    /\ pc = "write" => WriterSound(wr, Outstanding)
    /\ pc = "oversize" => cache.known /\ ~PeakAllowed(wr.peak)

SizesKept == cache \in Caches /\ stashedBlocks \in 0..cache.allowed /\ newBlocks \in Nat

LEMMA PhasesApart == Planning \cap Writing = {} /\ "aborted" \notin Writing
BY DEF Planning, Phases, Revising, Writing

LEMMA PlanStepPhases == PlanStep => pc \in Planning
BY OrderPhases DEF PlanStep, StartRevise, ReviseStashSize, ReviseDone, AssertSequenceGood,
                   Planning, Phases, Revising

LEMMA LengthsSum ==
    ASSUME NEW H \in SUBSET Hashes
    PROVE  /\ MapThenSumSet(Len, H) = SumOver(Lengths, H)
           /\ SumOver(Lengths, H) \in Nat
<1> DEFINE A == CHOOSE g : g = [U \in SUBSET H |->
                                  IF U = {} THEN 0 ELSE Len(Pick(U)) + g[U \ {Pick(U)}]]
<1>1. MapThenSumSet(Len, H) = A[H]
  BY Zenon DEF MapThenSumSet, MapThenFoldSet, Pick
<1>2. \A U \in SUBSET H : U # {} => Lengths[Pick(U)] = Len(Pick(U))
  BY PickIn DEF Lengths
<1>3. \A g : Adds(g, Lengths, SUBSET H)
             <=> g = [U \in SUBSET H |->
                        IF U = {} THEN 0 ELSE Len(Pick(U)) + g[U \ {Pick(U)}]]
  BY <1>2 DEF Adds
<1>4. A = Adder(Lengths, H)
  BY <1>3 DEF Adder
<1>5. SumOver(Lengths, H) = Adder(Lengths, H)[H]
  BY SumOverDef
<1>6. IsFiniteSet(H) /\ \A h \in H : Lengths[h] \in Nat
  BY HashesFinite, FS_Subset, LengthsNat
<1>7. SumOver(Lengths, H) \in Nat
  BY <1>6, SumNat
<1> HIDE DEF A
<1> QED
  BY <1>1, <1>4, <1>5, <1>7

(* What is counted on the cache between two rounds is never negative.      *)
LEMMA StashedNat ==
    ASSUME version \in Versions, NEW O \in SUBSET Stashes, NEW w, WriterSound(w, O)
    PROVE  w.stashed \in Nat
<1>1. version \in 1..4 /\ w \in Writers /\ CountsKept(Rested(w), O)
  BY VersionAssumption DEF WriterSound
<1>2. /\ Rested(w).stashed = w.stashed /\ Rested(w).freeSize = 0 /\ Rested(w).refs = w.refs
      /\ w.stashed \in Int /\ w.refs \in Counters
  BY <1>1, RestedWriter DEF Writers
<1>3. CASE version = 1
  BY <1>3 DEF WriterSound
<1>4. CASE version = 2
  <2>1. w.stashed - 0 = SizeOf(O)
    BY <1>1, <1>2, <1>4 DEF CountsKept
  <2> QED
    BY <1>2, <2>1, SizeNat
<1>5. CASE version >= 3
  <2>1. w.stashed - 0 = SumOver(Lengths, BagToSet(w.refs))
    BY <1>1, <1>2, <1>5 DEF CountsKept
  <2>2. SumOver(Lengths, BagToSet(w.refs)) \in Nat
    BY <1>2, CountersAreBags, LengthsSum
  <2> QED
    BY <1>2, <2>1, <2>2
<1> QED
  BY <1>1, <1>3, <1>4, <1>5

(* What the writer works from is not changed while it writes.              *)
LEMMA SettledStays ==
    ASSUME Settled, idx' \in Nat,
           UNCHANGED <<transfers, order, version, src, style, stashBefore, useStash, cache>>
    PROVE  Settled'
<1>1. PlanOrdered'
  BY DEF Settled, PlanOrdered, Permutation
<1>2. PlanPaired'
  BY DEF Settled, PlanPaired, StashesMade
<1>3. SequenceGood'
  BY DEF Settled, SequenceGood, Stashed
<1>4. StashesNeeded' /\ StylesPicked'
  BY DEF Settled, StashesNeeded, StylesPicked
<1>5. \A i : SizeOf(LiveAt(i))' = SizeOf(LiveAt(i))
  <2>1. \A i : LiveAt(i)' = LiveAt(i)
    BY DEF LiveAt
  <2> QED
    BY Zenon, <2>1
<1>6. StashesFit'
  BY <1>5 DEF Settled, StashesFit
<1>7. \A t \in Transfers : Injective(stashBefore'[t])
  BY DEF Settled
<1> QED
  BY <1>1, <1>2, <1>3, <1>4, <1>6, <1>7 DEF Settled

LEMMA SoundStays ==
    ASSUME NEW w, NEW O, WriterSound(w, O), UNCHANGED <<version, cache>>
    PROVE  WriterSound(w, O)'
<1>1. CountsKept(Rested(w), O)'
  <2>1. PICK r : r = Rested(w)
    OBVIOUS
  <2>2. CountsKept(r, O)
    BY <2>1 DEF WriterSound
  <2>3. CountsKept(r, O)'
    BY <2>2 DEF CountsKept
  <2> QED
    BY <2>1, <2>3
<1>2. Faithful(w)'
  BY DEF WriterSound, Faithful
<1> QED
  BY <1>1, <1>2 DEF WriterSound

LEMMA ListInitInv == ListInit => ListInv
<1> SUFFICES ASSUME ListInit PROVE ListInv
  OBVIOUS
<1>1. PlanInv /\ wr = EmptyWriter /\ pc = "digraph"
  BY InitPlanInv DEF ListInit, PlanInit, Init
<1>2. pc \in Planning /\ pc \notin Writing
  BY <1>1 DEF Planning, Phases, Writing
<1> QED
  BY <1>1, <1>2 DEF ListInv, PlanInv, Writing

LEMMA ListPlanStep == ListInv /\ PlanStep /\ UNCHANGED wr => ListInv'
<1> SUFFICES ASSUME ListInv, PlanStep, UNCHANGED wr PROVE ListInv'
  OBVIOUS
<1>1. PlanInv /\ wr = EmptyWriter
  BY PlanStepPhases DEF ListInv
<1>2. PlanInv'
  <2>1. [PlanNext]_planVars
    BY DEF PlanNext
  <2> QED
    BY <1>1, <2>1, PlanNextStep
<1>3. pc' \in Planning /\ pc' \notin Writing /\ pc' # "aborted"
  BY <1>2, PhasesApart DEF PlanInv, Planning
<1> QED
  BY <1>1, <1>2, <1>3 DEF ListInv, PlanInv, Writing

LEMMA ListStutterStep == ListInv /\ UNCHANGED listingVars => ListInv'
<1> SUFFICES ASSUME ListInv, UNCHANGED listingVars PROVE ListInv'
  OBVIOUS
<1>1. UNCHANGED planVars /\ wr' = wr
  BY DEF listingVars
<1>2. /\ UNCHANGED <<pc, idx, transfers, order, version, src, style, stashBefore, useStash>>
      /\ UNCHANGED <<cache, stashedBlocks, newBlocks>>
  BY <1>1 DEF planVars, vars, sizeVars, listVars, inputVars, stashVars
<1>3. PlanInv => PlanInv'
  BY <1>1, PlanStutterStep
<1>4. Settled => Settled'
  <2> SUFFICES ASSUME Settled PROVE Settled'
    OBVIOUS
  <2>1. idx' \in Nat
    BY <1>2 DEF Settled, PlanOrdered
  <2> QED
    BY <1>2, <2>1, SettledStays
<1>5. ListSound => ListSound'
  BY <1>1, <1>2 DEF ListSound, Faithful
<1>6. WriterSound(wr, Outstanding) => WriterSound(wr, Outstanding)'
  <2> SUFFICES ASSUME WriterSound(wr, Outstanding) PROVE WriterSound(wr, Outstanding)'
    OBVIOUS
  <2>1. PICK w, O : w = wr /\ O = Outstanding
    OBVIOUS
  <2>2. WriterSound(w, O)'
    <3>1. WriterSound(w, O)
      BY <2>1
    <3> QED
      BY <1>2, <3>1, SoundStays
  <2>3. wr' = w /\ Outstanding' = O
    BY <1>1, <1>2, <2>1 DEF Outstanding
  <2> QED
    BY <2>2, <2>3
<1>7. PeakAllowed(wr.peak)' = PeakAllowed(wr.peak)
  BY <1>1, <1>2 DEF PeakAllowed
<1> QED
  BY <1>1, <1>2, <1>3, <1>4, <1>5, <1>6, <1>7 DEF ListInv

(* The commands are picked: the plan is that of before.                    *)
LEMMA PickStep == ListInv /\ ComputePatches => ListInv'
<1> SUFFICES ASSUME ListInv, ComputePatches PROVE ListInv'
  OBVIOUS
<1>1. /\ pc = "planned" /\ idx' = 1 /\ pc' = "write" /\ wr' = wr
      /\ UNCHANGED <<version, src, transfers, order, stashBefore, useStash>>
      /\ UNCHANGED <<cache, stashedBlocks, newBlocks>>
  BY DEF ComputePatches, listVars, stashVars, sizeVars
<1>2. PICK moves \in SUBSET {t \in Transfers :
               style[t] = "diff" /\ Cardinality(src[t]) = Cardinality(Tgt[t])} :
        style' = [t \in Transfers |-> IF t \in moves THEN "move"
                                      ELSE IF style[t] = "diff" THEN "bsdiff" ELSE style[t]]
  BY DEF ComputePatches
<1>3. /\ PlanInv /\ wr = EmptyWriter
      /\ PlanOrdered /\ PlanPaired /\ SequenceGood /\ TotalCovers
      /\ StylesFit /\ StashesNeeded /\ StashesDistinct
  BY <1>1 DEF ListInv, Planning, Revising, PlanInv
<1>4. pc' \in Writing /\ pc' \notin Planning /\ pc' # "aborted" /\ pc' # "oversize"
  BY <1>1 DEF Writing, Planning, Phases, Revising
<1>5. StylesPicked'
  <2>1. \A t \in Transfers : style'[t] = IF t \in moves THEN "move"
                                         ELSE IF style[t] = "diff" THEN "bsdiff" ELSE style[t]
    BY <1>2
  <2>2. style' \in [Transfers -> {"new", "zero", "move", "bsdiff"}]
    BY <1>2, <1>3 DEF StylesFit
  <2> QED
    BY <1>1, <1>3, <2>1, <2>2 DEF StylesPicked, StylesFit
<1>6. StashesFit'
  <2>1. version >= 2 /\ cache.known =>
           \A i \in DOMAIN transfers : SizeOf(LiveAt(i)) <= cache.allowed
    BY <1>1, <1>3 DEF TotalCovers
  <2> QED
    BY <1>1, <2>1 DEF StashesFit, LiveAt
<1>7. Settled'
  BY <1>1, <1>3, <1>5, <1>6
     DEF Settled, PlanOrdered, Permutation, PlanPaired, StashesMade, StashesNeeded,
         SequenceGood, Stashed, StashesDistinct
<1>8. Outstanding' = {}
  <2>1. \A t \in Transfers : \A s \in useStash[t] : s.def \in Transfers
    BY <1>3 DEF PlanOrdered, Stashes
  <2>2. \A t \in Transfers : order[t] \in Nat /\ order[t] >= 1
    BY <1>3 DEF PlanOrdered
  <2> QED
    BY <1>1, <2>1, <2>2 DEF Outstanding
<1>9. EmptyWriter \in Writers
  <2>1. EmptyBag \in Counters
    <3>1. EmptyBag \in [{} -> Nat \ {0}]
      BY DEF EmptyBag, SetToBag
    <3> QED
      BY <3>1 DEF Counters
  <2> QED
    BY <2>1 DEF EmptyWriter, Writers
<1>10. SlotsKept(EmptyWriter, {})
  BY DEF SlotsKept, EmptyWriter
<1>11. CountsKept(Rested(EmptyWriter), {})'
  <2>1. /\ Rested(EmptyWriter).stashed = 0 /\ Rested(EmptyWriter).freeSize = 0
        /\ Rested(EmptyWriter).refs = EmptyBag
    BY DEF Rested, EmptyWriter
  <2>2. BagToSet(EmptyBag) = {}
    BY DEF EmptyBag, SetToBag, BagToSet
  <2>3. \A h : Waiting(h, EmptyBag) = 0
    BY <2>2 DEF Waiting, BagIn
  <2>4. SumOver(Lengths, BagToSet(EmptyBag)) = 0
    BY <2>2, SumEmpty
  <2>5. \A h : Cardinality(Sharing(h, {})) = 0
    BY FS_EmptySet DEF Sharing
  <2> QED
    BY <2>1, <2>3, <2>4, <2>5, SizeEmpty DEF CountsKept
<1>12. Faithful(EmptyWriter)'
  BY DEF Faithful, EmptyWriter
<1>13. EmptyWriter.stashed = 0 /\ EmptyWriter.peak = 0
  BY DEF EmptyWriter
<1>14. cache.allowed \in Nat
  BY CacheAssumption DEF ListInv
<1>15. WriterSound(wr, Outstanding)' /\ ListSound'
  <2>1. WriterSound(EmptyWriter, {})'
    <3>1. cache' = cache
      BY <1>1
    <3>2. version' = 2 /\ cache'.known => EmptyWriter.peak <= cache'.allowed
      BY <1>13, <1>14, <3>1
    <3> QED
      BY <1>9, <1>10, <1>11, <1>12, <1>13, <3>2 DEF WriterSound
  <2>2. WriterSound(wr, Outstanding)'
    BY <1>1, <1>3, <1>8, <2>1
  <2>3. ListSound'
    BY <1>1, <1>3, <1>9, <1>12, <1>13, <1>14 DEF ListSound
  <2> QED
    BY <2>2, <2>3
<1> QED
  BY <1>1, <1>4, <1>7, <1>15 DEF ListInv

LEMMA WriteStep == ListInv /\ WriteTransfer => ListInv'
<1> SUFFICES ASSUME ListInv, WriteTransfer PROVE ListInv'
  OBVIOUS
<1>1. /\ pc = "write" /\ idx \in DOMAIN transfers /\ idx' = idx + 1
      /\ UNCHANGED <<transfers, order, version, src, style, stashBefore, useStash, cache>>
      /\ UNCHANGED <<stashedBlocks, newBlocks>>
      /\ RoundSane(FullNow, Current) =>
            /\ wr' = FreedNow
            /\ pc' = IF version >= 2 /\ cache.known /\ ~PeakAllowed(FreedNow.peak)
                     THEN "oversize" ELSE "write"
  <2>1. UNCHANGED planState
    BY RoundOfWrite
  <2>2. /\ UNCHANGED <<transfers, order, version, src, style, stashBefore, useStash, cache>>
        /\ UNCHANGED <<stashedBlocks, newBlocks>>
    BY <2>1 DEF planState, listVars, inputVars, stashVars, sizeVars
  <2> QED
    BY <2>2, RoundOfWrite
<1>2. Settled /\ WriterSound(wr, Outstanding) /\ cache \in Caches
  BY <1>1 DEF ListInv, Writing
<1>3. /\ wr' = FreedNow
      /\ pc' = IF version >= 2 /\ cache.known /\ ~PeakAllowed(FreedNow.peak)
               THEN "oversize" ELSE "write"
  BY <1>1, <1>2, RoundIsSaneToo
<1>4. PICK w, O : w = FreedNow /\ O = LiveAt(idx) \ useStash[Current]
  OBVIOUS
<1>5. WriterSound(w, O) /\ O \in SUBSET Stashes
  BY <1>1, <1>2, <1>4, RoundWrites, RoundStashes
<1>6. Outstanding' = O
  <2>1. PICK xf : xf = Current
    OBVIOUS
  <2>2. /\ xf \in Transfers /\ order[xf] = idx /\ idx \in Nat
        /\ \A t \in Transfers : order[t] \in Nat /\ (order[t] = idx => t = xf)
    BY <1>1, <1>2, <2>1, StashesAround DEF Settled
  <2>3. \A t \in Transfers : \A s \in useStash[t] :
           s.use = t /\ s.def \in Transfers /\ s.use \in Transfers
    BY <1>2 DEF Settled, PlanOrdered, PlanPaired, Stashes
  <2>4. \A s : (\E t \in Transfers : s \in useStash[t]) =>
           (order[s.def] < idx + 1 /\ idx + 1 <= order[s.use]
              <=> (order[s.def] <= idx /\ idx <= order[s.use]) /\ s \notin useStash[xf])
    <3> SUFFICES ASSUME NEW t \in Transfers, NEW s \in useStash[t]
                 PROVE  order[s.def] < idx + 1 /\ idx + 1 <= order[s.use]
                          <=> (order[s.def] <= idx /\ idx <= order[s.use]) /\ s \notin useStash[xf]
      OBVIOUS
    <3>1. /\ s.use = t /\ order[s.def] \in Nat /\ order[s.use] \in Nat
          /\ order[s.use] = idx <=> s.use = xf
      BY <2>2, <2>3
    <3>2. s \in useStash[xf] <=> s.use = xf
      BY <2>2, <2>3, <3>1
    <3> QED
      BY <2>2, <3>1, <3>2
  <2>5. Outstanding' = {s \in UNION {useStash[t] : t \in Transfers} :
                          order[s.def] < idx + 1 /\ idx + 1 <= order[s.use]}
    BY <1>1 DEF Outstanding
  <2>6. LiveAt(idx) = {s \in UNION {useStash[t] : t \in Transfers} :
                         order[s.def] <= idx /\ idx <= order[s.use]}
    BY DEF LiveAt
  <2> QED
    BY <1>4, <2>1, <2>4, <2>5, <2>6
<1>7. WriterSound(wr, Outstanding)'
  <2>1. WriterSound(w, O)'
    BY <1>1, <1>5, SoundStays
  <2>2. wr' = w
    BY <1>3, <1>4
  <2> QED
    BY <1>6, <2>1, <2>2
<1>8. Settled'
  <2>1. idx' \in Nat
    BY <1>1, <1>2 DEF Settled, PlanOrdered
  <2> QED
    BY <1>1, <1>2, <2>1, SettledStays
<1>9. ListSound'
  <2>1. w.stashed \in Nat
    BY <1>2, <1>5, StashedNat DEF Settled, PlanOrdered
  <2>2. wr' \in Writers /\ Faithful(wr)' /\ (version' = 2 /\ cache'.known => wr'.peak <= cache'.allowed)
    BY <1>7 DEF WriterSound
  <2> QED
    BY <1>3, <1>4, <2>1, <2>2 DEF ListSound
<1>10. pc' \in Writing /\ pc' \notin Planning /\ pc' # "aborted"
  BY <1>3 DEF Writing, Planning, Phases, Revising
<1>11. pc' = "oversize" => cache'.known /\ ~PeakAllowed(wr.peak)'
  BY <1>1, <1>3 DEF PeakAllowed
<1> QED
  BY <1>1, <1>7, <1>8, <1>9, <1>10, <1>11 DEF ListInv

(* Commands that read nothing at either end of the list.                   *)
Blind(q) ==
    \A i \in DOMAIN q : /\ q[i] \in Commands /\ q[i].tgt \subseteq TargetBlocks
                        /\ Read(q[i]) = {}

LEMMA UnlessIsBlind ==
    ASSUME NEW blocks \in SUBSET TargetBlocks, NEW op \in {"zero", "erase"}
    PROVE  Unless(blocks, op) \in Seq(Commands) /\ Blind(Unless(blocks, op))
<1>1. PICK c : c = Command(op, blocks, {}, 0, {})
  OBVIOUS
<1>2. c \in Commands /\ c.tgt \subseteq TargetBlocks /\ Read(c) = {}
  BY <1>1, ImageAssumption DEF Command, Commands, Keys, Read
<1>3. PICK q : q = Unless(blocks, op) /\ (q = <<>> \/ q = <<c>>)
  BY <1>1 DEF Unless
<1>4. q \in Seq(Commands) /\ \A i \in DOMAIN q : q[i] = c
  <2>1. CASE q = <<>>
    BY <2>1
  <2>2. CASE q = <<c>>
    BY <1>2, <2>2
  <2> QED
    BY <1>3, <2>1, <2>2
<1>5. Blind(q)
  BY <1>2, <1>4 DEF Blind
<1> QED
  BY <1>3, <1>4, <1>5

LEMMA FinishStep == ListInv /\ FinishWrite => ListInv'
<1> SUFFICES ASSUME ListInv, FinishWrite PROVE ListInv'
  OBVIOUS
<1>1. PICK a, b, c, n :
         /\ a = Unless(EraseFirst, "erase") /\ b = Unless(Extended, "zero")
         /\ c = Unless(EraseLast, "erase") /\ n = Cardinality(Extended)
  OBVIOUS
<1>2. /\ pc = "write" /\ pc' = "written" /\ idx' = idx
      /\ UNCHANGED <<transfers, order, version, src, style, stashBefore, useStash, cache>>
      /\ UNCHANGED <<stashedBlocks, newBlocks>>
      /\ wr' = [wr EXCEPT !.out = a \o @ \o b \o c, !.total = @ + n]
  <2>1. UNCHANGED planState
    BY DEF FinishWrite
  <2>2. /\ UNCHANGED <<transfers, order, version, src, style, stashBefore, useStash, cache>>
        /\ UNCHANGED <<stashedBlocks, newBlocks>>
    BY <2>1 DEF planState, listVars, inputVars, stashVars, sizeVars
  <2>3. wr' = [wr EXCEPT !.out = a \o @ \o b \o c, !.total = @ + n]
    BY <1>1 DEF FinishWrite
  <2> QED
    BY <2>2, <2>3 DEF FinishWrite
<1>3. Settled /\ ListSound
  BY <1>2 DEF ListInv, Writing
<1>4. PICK w, o : w = wr /\ o = wr.out
  OBVIOUS
<1>5. w \in Writers /\ o \in Seq(Commands) /\ w.total \in Nat
  BY <1>3, <1>4 DEF ListSound, Writers
<1>6. /\ a \in Seq(Commands) /\ b \in Seq(Commands) /\ c \in Seq(Commands)
      /\ Blind(a) /\ Blind(b) /\ Blind(c)
  <2>1. EraseFirst \in SUBSET TargetBlocks /\ EraseLast \in SUBSET TargetBlocks
    BY DEF EraseFirst, EraseLast, NewDontCare
  <2>2. Extended \in SUBSET TargetBlocks
    BY ImageAssumption
  <2> QED
    BY <1>1, <2>1, <2>2, UnlessIsBlind
<1>7. n \in Nat
  <2>1. Extended \in SUBSET Blocks
    BY ImageAssumption
  <2> QED
    BY <1>1, <2>1, BlocksCount
<1>8. PICK q, m : q = a \o o \o b \o c /\ m = w.total + n
  OBVIOUS
<1>9. q \in Seq(Commands) /\ m \in Nat
  BY <1>5, <1>6, <1>7, <1>8
<1>10. /\ wr' \in Writers /\ wr'.out = q /\ wr'.touched = w.touched
       /\ wr'.stashed = w.stashed /\ wr'.peak = w.peak
  <2>1. wr' = [w EXCEPT !.out = q, !.total = m]
    BY <1>2, <1>4, <1>8
  <2> QED
    BY <1>5, <1>9, <2>1 DEF Writers
<1>11. \A i \in DOMAIN q : \/ \E j \in DOMAIN o : q[i] = o[j]
                           \/ q[i].tgt \subseteq TargetBlocks /\ Read(q[i]) = {}
  <2>1. a \o o \in Seq(Commands) /\ (a \o o) \o b \in Seq(Commands)
    BY <1>5, <1>6
  <2>2. PICK ao, aob : ao = a \o o /\ aob = ao \o b /\ q = aob \o c
    BY <1>8
  <2>3. ao \in Seq(Commands) /\ aob \in Seq(Commands)
    BY <2>1, <2>2
  <2>4. \A i \in DOMAIN ao : (\E j \in DOMAIN a : ao[i] = a[j]) \/ (\E j \in DOMAIN o : ao[i] = o[j])
    <3>1. a \in Seq(Commands) /\ o \in Seq(Commands) /\ ao = a \o o
      BY <1>5, <1>6, <2>2
    <3> QED
      <4>1. \A i \in DOMAIN (a \o o) : (\E j \in DOMAIN a : (a \o o)[i] = a[j])
                                       \/ (\E j \in DOMAIN o : (a \o o)[i] = o[j])
        BY <3>1, ConcatHasBoth
      <4> QED
        BY ONLY <3>1, <4>1
  <2>5. \A i \in DOMAIN aob : (\E j \in DOMAIN ao : aob[i] = ao[j]) \/ (\E j \in DOMAIN b : aob[i] = b[j])
    <3>1. ao \in Seq(Commands) /\ b \in Seq(Commands) /\ aob = ao \o b
      BY <1>6, <2>2, <2>3
    <3> QED
      <4>1. \A i \in DOMAIN (ao \o b) : (\E j \in DOMAIN ao : (ao \o b)[i] = ao[j])
                                       \/ (\E j \in DOMAIN b : (ao \o b)[i] = b[j])
        BY <3>1, ConcatHasBoth
      <4> QED
        BY ONLY <3>1, <4>1
  <2>6. \A i \in DOMAIN q : (\E j \in DOMAIN aob : q[i] = aob[j]) \/ (\E j \in DOMAIN c : q[i] = c[j])
    <3>1. aob \in Seq(Commands) /\ c \in Seq(Commands) /\ q = aob \o c
      BY <1>6, <2>2, <2>3
    <3> QED
      <4>1. \A i \in DOMAIN (aob \o c) : (\E j \in DOMAIN aob : (aob \o c)[i] = aob[j])
                                       \/ (\E j \in DOMAIN c : (aob \o c)[i] = c[j])
        BY <3>1, ConcatHasBoth
      <4> QED
        BY ONLY <3>1, <4>1
  <2>7. /\ \A j \in DOMAIN a : a[j].tgt \subseteq TargetBlocks /\ Read(a[j]) = {}
        /\ \A j \in DOMAIN b : b[j].tgt \subseteq TargetBlocks /\ Read(b[j]) = {}
        /\ \A j \in DOMAIN c : c[j].tgt \subseteq TargetBlocks /\ Read(c[j]) = {}
    BY <1>6 DEF Blind
  <2> QED
    BY <2>4, <2>5, <2>6, <2>7
<1>12. Faithful(wr)'
  <2>1. \A j \in DOMAIN o : /\ o[j].tgt \subseteq TargetBlocks
                            /\ version >= 3 => Read(o[j]) \subseteq w.touched
    BY <1>3, <1>4 DEF ListSound, Faithful
  <2>2. \A i \in DOMAIN q : /\ q[i].tgt \subseteq TargetBlocks
                            /\ version >= 3 => Read(q[i]) \subseteq w.touched
    BY <1>11, <2>1
  <2>3. PICK x, d : x = wr'.out /\ x = q /\ d = wr'.touched /\ d = w.touched
    BY <1>10
  <2>4. \A i \in DOMAIN x : /\ x[i].tgt \subseteq TargetBlocks
                            /\ version' >= 3 => Read(x[i]) \subseteq d
    BY <1>2, <2>2, <2>3
  <2> QED
    BY <2>3, <2>4 DEF Faithful
<1>13. ListSound'
  BY <1>2, <1>3, <1>4, <1>10, <1>12 DEF ListSound
<1>14. Settled'
  <2>1. idx' \in Nat
    BY <1>2, <1>3 DEF Settled, PlanOrdered
  <2> QED
    BY <1>2, <1>3, <2>1, SettledStays
<1>15. pc' \in Writing /\ pc' \notin Planning /\ pc' # "aborted"
  BY <1>2 DEF Writing, Planning, Phases, Revising
<1> QED
  BY <1>2, <1>13, <1>14, <1>15 DEF ListInv

LEMMA ListNextStep == ListInv /\ [ListNext]_listingVars => ListInv'
<1> SUFFICES ASSUME ListInv, [ListNext]_listingVars PROVE ListInv'
  OBVIOUS
<1>1. CASE ListStep
  BY <1>1, ListPlanStep, PickStep, WriteStep, FinishStep DEF ListStep
<1>2. CASE UNCHANGED listingVars
  BY <1>2, ListStutterStep
<1> QED
  BY <1>1, <1>2 DEF ListNext, ListReturned

(* What follows for the types.                                             *)
LEMMA WritingTypes ==
    ASSUME Settled, ListSound, SizesKept
    PROVE  ListTypeOK
<1>1. PlanTypeOK
  BY DEF SizesKept, Settled, PlanOrdered, PlanTypeOK
<1>2. style \in [Transfers -> {"new", "zero", "diff", "move", "bsdiff"}]
  BY DEF Settled, StylesPicked
<1>3. wr \in Writers /\ wr.stashed \in Nat /\ Faithful(wr)
  BY DEF ListSound
<1>4. /\ wr.free \subseteq Nat /\ wr.next \in Nat /\ wr.refs \in Counters
      /\ wr.peak \in Nat /\ wr.total \in Nat /\ wr.touched \subseteq Blocks
      /\ wr.out \in Seq(Commands)
  BY <1>3 DEF Writers
<1>5. IsABag(wr.refs)
  BY <1>4, CountersAreBags
<1>6. \A i \in DOMAIN wr.out : wr.out[i].tgt \subseteq TargetBlocks /\ wr.out[i].src \subseteq Blocks
  <2> TAKE i \in DOMAIN wr.out
  <2>1. wr.out[i] \in Commands
    BY <1>4
  <2> QED
    BY <1>3, <2>1 DEF Faithful, Commands
<1> QED
  BY <1>1, <1>2, <1>3, <1>4, <1>5, <1>6 DEF ListTypeOK

LEMMA ListTypes == ListInv => ListTypeOK
<1> SUFFICES ASSUME ListInv PROVE ListTypeOK
  OBVIOUS
<1>1. CASE pc \in Planning
  <2>1. PlanInv /\ wr = EmptyWriter
    BY <1>1 DEF ListInv
  <2>2. PlanTypeOK
    BY <2>1 DEF PlanInv, PlanTypeOK, PlanOrdered, IInv, TypeOK
  <2>3. style \in [Transfers -> {"new", "zero", "diff", "move", "bsdiff"}]
    BY <2>1 DEF PlanInv, StylesFit
  <2>4. IsABag(EmptyBag)
    BY DEF IsABag, EmptyBag, SetToBag
  <2> QED
    BY <2>1, <2>2, <2>3, <2>4 DEF ListTypeOK, EmptyWriter
<1>2. CASE pc \in Writing
  BY <1>2, WritingTypes DEF ListInv, SizesKept
<1> QED
  BY <1>1, <1>2 DEF ListInv

-----------------------------------------------------------------------------

(* The strengthening that the theorems below rest on holds always.         *)
THEOREM ListInductiveInvariant == ListSpec => []ListInv
BY ListInitInv, ListNextStep, PTL DEF ListSpec

(* Types; what is counted as stashed is never negative, and every command  *)
(* writes to the target partition only.                                    *)
THEOREM ListTypeCorrect == ListSpec => []ListTypeOK
BY ListTypes, ListInductiveInvariant, PTL

(* No assertion of Compute ends the program: not those of the ordering and *)
(* of the plan, and not those of WriteTransfers on the slots, the sharing  *)
(* and the blocks of the stashes.                                          *)
THEOREM WriterNeverAborts == ListSpec => []NeverAborted
<1>1. ListInv => NeverAborted
  BY DEF ListInv, NeverAborted
<1> QED
  BY <1>1, ListInductiveInvariant, PTL

(* The counts of the writer.                                              *)
LEMMA ListKeepsStashes == ListInv => StashesExact
<1> SUFFICES ASSUME ListInv, pc = "write" PROVE StashesExact
  BY DEF StashesExact, HashesCounted, SlotsApart
<1>1. Settled /\ WriterSound(wr, Outstanding)
  BY DEF ListInv, Writing
<1>2. wr \in Writers /\ SlotsKept(wr, Outstanding) /\ CountsKept(Rested(wr), Outstanding)
  BY <1>1 DEF WriterSound
<1>3. /\ Rested(wr).stashed = wr.stashed /\ Rested(wr).freeSize = 0
      /\ Rested(wr).refs = wr.refs /\ wr.stashed \in Int /\ wr.refs \in Counters
  BY <1>2, RestedWriter DEF Writers
<1>4. Outstanding \in SUBSET Stashes
  BY <1>1 DEF Settled, PlanOrdered, Outstanding
<1>5. ASSUME version >= 3
      PROVE  /\ \A h \in {HashBlocks(s.blocks) : s \in Outstanding} \cup BagToSet(wr.refs) :
                   Waiting(h, wr.refs)
                     = Cardinality({s \in Outstanding : HashBlocks(s.blocks) = h})
             /\ wr.stashed = MapThenSumSet(Len, BagToSet(wr.refs))
  <2>1. /\ \A h \in Hashes : Waiting(h, wr.refs) = Cardinality(Sharing(h, Outstanding))
        /\ wr.stashed - 0 = SumOver(Lengths, BagToSet(wr.refs))
    BY <1>2, <1>3, <1>5 DEF CountsKept
  <2>2. BagToSet(wr.refs) \in SUBSET Hashes
    BY <1>3, CountersAreBags
  <2>3. \A s \in Outstanding : HashBlocks(s.blocks) \in Hashes
    BY <1>4, StashHasBlocks DEF HashOf
  <2>4. \A h : Sharing(h, Outstanding) = {s \in Outstanding : HashBlocks(s.blocks) = h}
    BY DEF Sharing, HashOf
  <2>5. \A h : Cardinality(Sharing(h, Outstanding))
                 = Cardinality({s \in Outstanding : HashBlocks(s.blocks) = h})
    BY Zenon, <2>4
  <2>6. \A h \in {HashBlocks(s.blocks) : s \in Outstanding} \cup BagToSet(wr.refs) :
           Waiting(h, wr.refs)
             = Cardinality({s \in Outstanding : HashBlocks(s.blocks) = h})
    BY <2>1, <2>2, <2>3, <2>5
  <2>7. wr.stashed = MapThenSumSet(Len, BagToSet(wr.refs))
    <3>1. /\ MapThenSumSet(Len, BagToSet(wr.refs)) = SumOver(Lengths, BagToSet(wr.refs))
          /\ SumOver(Lengths, BagToSet(wr.refs)) \in Nat
      BY <2>2, LengthsSum
    <3>2. PICK x : x = SumOver(Lengths, BagToSet(wr.refs)) /\ x \in Nat /\ wr.stashed - 0 = x
      BY <2>1, <3>1
    <3>3. wr.stashed = x
      BY <1>3, <3>2
    <3> QED
      BY Zenon, <3>1, <3>2, <3>3
  <2> QED
    BY <2>6, <2>7
<1>6. HashesCounted
  BY <1>5 DEF HashesCounted
<1>7. version = 2 => wr.stashed = SizeOf(Outstanding)
  <2> SUFFICES ASSUME version = 2 PROVE wr.stashed = SizeOf(Outstanding)
    OBVIOUS
  <2>1. wr.stashed - 0 = SizeOf(Outstanding)
    BY <1>2, <1>3 DEF CountsKept
  <2> QED
    BY <1>3, <2>1
<1>8. SlotsApart
  BY <1>2, <1>7 DEF SlotsApart, SlotsKept
<1> QED
  BY <1>6, <1>8 DEF StashesExact

(* The numbered slots and the reference counts of the shared files are     *)
(* those of the stashes that are outstanding, in every format.             *)
THEOREM StashesStayExact == ListSpec => []StashesExact
BY ListKeepsStashes, ListInductiveInvariant, PTL

(* The fit of the plan, at its end and when the list is too large.         *)
LEMMA ListKeepsFit == ListInv => PlanFits
<1> SUFFICES ASSUME ListInv PROVE PlanFits
  OBVIOUS
<1>1. ExplicitStashFits
  <2> SUFFICES ASSUME pc = "planned", version >= 2, cache.known
               PROVE  \A i \in DOMAIN transfers : SizeOf(LiveAt(i)) <= cache.allowed
    BY DEF ExplicitStashFits
  <2>1. PlanInv
    BY DEF ListInv, Planning, Revising
  <2> QED
    BY <2>1 DEF PlanInv, TotalCovers, Revising
<1>2. FittedIsAccepted
  <2> SUFFICES ASSUME pc = "oversize", version = 2
               PROVE  cache.whole /\ wr.peak = cache.allowed
    BY DEF FittedIsAccepted
  <2>1. ListSound /\ cache.known /\ ~PeakAllowed(wr.peak) /\ cache \in Caches
    BY DEF ListInv, Writing
  <2>2. wr.peak \in Nat /\ cache.allowed \in Nat
    BY <2>1, CacheAssumption DEF ListSound, Writers
  <2>3. wr.peak <= cache.allowed
    BY <2>1 DEF ListSound
  <2> QED
    BY <2>1, <2>2, <2>3 DEF PeakAllowed
<1> QED
  BY <1>1, <1>2 DEF PlanFits

(* The plan stays within the cache by the count of ReviseStashSize, and    *)
(* by that of WriteTransfers in format 2, but for a list that needs the    *)
(* allowed size to the block.                                              *)
THEOREM PlansFit == ListSpec => []PlanFits
BY ListKeepsFit, ListInductiveInvariant, PTL

(* From format 3 on, what is erased before the first command is read by    *)
(* none of them.                                                           *)
THEOREM TouchedBlocksSpared == ListSpec => []TouchedNotErased
<1>1. ListInv => TouchedNotErased
  <2> SUFFICES ASSUME ListInv, pc = "written", version >= 3 PROVE ErasesUnread
    BY DEF TouchedNotErased
  <2>1. Faithful(wr)
    BY DEF ListInv, ListSound, Writing
  <2>2. ReadBlocks \subseteq wr.touched
    BY <2>1 DEF Faithful, ReadBlocks
  <2> QED
    BY <2>2 DEF ErasesUnread, EraseFirst
<1> QED
  BY <1>1, ListInductiveInvariant, PTL

-----------------------------------------------------------------------------
(* The order of the blocks of a range set.                                 *)

Before(n, blocks) == {m \in blocks : m < n}

LEMMA BeforeGrows ==
    ASSUME NEW B \in SUBSET Blocks, NEW m \in B, NEW n \in B, m < n
    PROVE  Cardinality(Before(m, B)) < Cardinality(Before(n, B))
<1>1. IsFiniteSet(B) /\ B \in SUBSET Nat
  BY BlocksCount, ImageAssumption
<1>2. IsFiniteSet(Before(n, B))
  <2>1. Before(n, B) \in SUBSET B
    BY DEF Before
  <2> QED
    BY <1>1, <2>1, FS_Subset
<1>3. Before(m, B) \in SUBSET Before(n, B)
  <2>1. \A k \in B : k < m => k < n
    BY <1>1
  <2> QED
    BY <2>1 DEF Before
<1>4. m \in Before(n, B) /\ m \notin Before(m, B)
  BY <1>1 DEF Before
<1>5. Cardinality(Before(m, B)) \in Nat /\ Cardinality(Before(n, B)) \in Nat
      /\ Cardinality(Before(m, B)) <= Cardinality(Before(n, B))
      /\ Cardinality(Before(m, B)) # Cardinality(Before(n, B))
  BY <1>2, <1>3, <1>4, FS_Subset, FS_CardinalityType
<1> QED
  BY <1>5

(* Every rank below the number of blocks is that of exactly one block.     *)
LEMMA Ranked ==
    ASSUME NEW B \in SUBSET Blocks
    PROVE  /\ \A n \in B : Cardinality(Before(n, B)) \in 0..(Cardinality(B) - 1)
           /\ \A m, n \in B : Cardinality(Before(m, B)) = Cardinality(Before(n, B)) => m = n
           /\ \A i \in 1..Cardinality(B) : \E n \in B : Cardinality(Before(n, B)) = i - 1
<1>1. IsFiniteSet(B) /\ Cardinality(B) \in Nat /\ B \in SUBSET Nat
  BY BlocksCount, ImageAssumption
<1>2. ASSUME NEW n \in B PROVE Cardinality(Before(n, B)) \in 0..(Cardinality(B) - 1)
  <2>1. Before(n, B) \in SUBSET B /\ n \notin Before(n, B)
    BY <1>1 DEF Before
  <2>2. /\ IsFiniteSet(Before(n, B)) /\ Cardinality(Before(n, B)) <= Cardinality(B)
        /\ Cardinality(B) # Cardinality(Before(n, B))
    BY <1>1, <2>1, FS_Subset
  <2>3. Cardinality(Before(n, B)) \in Nat
    BY <2>2, FS_CardinalityType
  <2> QED
    BY <1>1, <2>2, <2>3
<1>3. ASSUME NEW m \in B, NEW n \in B, Cardinality(Before(m, B)) = Cardinality(Before(n, B))
      PROVE  m = n
  <2>1. m \in Nat /\ n \in Nat /\ Cardinality(Before(m, B)) \in Int
    BY <1>1, <1>2
  <2>2. ~(m < n) /\ ~(n < m)
    BY <1>3, <2>1, BeforeGrows
  <2> QED
    BY <2>1, <2>2
<1>4. PICK c, f : c = Cardinality(B) /\ f = [n \in B |-> Cardinality(Before(n, B))]
  OBVIOUS
<1>5. f \in Injection(B, 0..(c - 1))
  <2>1. f \in [B -> 0..(c - 1)]
    BY <1>2, <1>4
  <2>2. \A m, n \in B : f[m] = f[n] => m = n
    BY <1>3, <1>4
  <2> QED
    BY <2>1, <2>2 DEF Injection, IsInjective
<1>6. IsFiniteSet(0..(c - 1)) /\ Cardinality(0..(c - 1)) = c
  <2>1. c \in Nat /\ 0 \in Int /\ c - 1 \in Int
    BY <1>1, <1>4
  <2>2. /\ IsFiniteSet(0..(c - 1))
        /\ Cardinality(0..(c - 1)) = IF 0 > c - 1 THEN 0 ELSE (c - 1) - 0 + 1
    BY <2>1, FS_Interval
  <2> QED
    BY <2>1, <2>2
<1>7. f \in Surjection(B, 0..(c - 1))
  BY <1>4, <1>5, <1>6, FS_Injection
<1>8. ASSUME NEW i \in 1..c PROVE \E n \in B : Cardinality(Before(n, B)) = i - 1
  <2>1. i - 1 \in 0..(c - 1)
    BY <1>1, <1>4
  <2>2. PICK n \in B : f[n] = i - 1
    BY <1>7, <2>1 DEF Surjection
  <2> QED
    BY <1>4, <2>2
<1> QED
  BY <1>2, <1>3, <1>4, <1>8

(* PlaceOf and Ascending are each other's inverse.                         *)
LEMMA PlacedInOrder ==
    ASSUME NEW B \in SUBSET Blocks
    PROVE  /\ DOMAIN Ascending(B) = 1..Cardinality(B)
           /\ \A i \in 1..Cardinality(B) :
                 Ascending(B)[i] \in B /\ PlaceOf(Ascending(B)[i], B) = i
           /\ \A b \in B : /\ PlaceOf(b, B) \in 1..Cardinality(B)
                           /\ Ascending(B)[PlaceOf(b, B)] = b
<1>1. IsFiniteSet(B) /\ Cardinality(B) \in Nat /\ B \in SUBSET Nat
  BY BlocksCount, ImageAssumption
<1>2. ASSUME NEW b \in B
      PROVE  PlaceOf(b, B) = Cardinality(Before(b, B)) + 1 /\ PlaceOf(b, B) \in 1..Cardinality(B)
  <2>1. {x \in B : x <= b} = Before(b, B) \cup {b} /\ b \notin Before(b, B)
    <3>1. \A x \in B : (x <= b <=> x < b \/ x = b) /\ ~(b < b)
      BY <1>1
    <3> QED
      BY <3>1 DEF Before
  <2>2. Before(b, B) \in SUBSET B
    BY DEF Before
  <2>3. IsFiniteSet(Before(b, B))
    BY <1>1, <2>2, FS_Subset
  <2>4. Cardinality(Before(b, B) \cup {b}) = Cardinality(Before(b, B)) + 1
    BY <2>1, <2>3, FS_AddElement
  <2>5. PlaceOf(b, B) = Cardinality(Before(b, B)) + 1
    BY <2>1, <2>4 DEF PlaceOf
  <2> QED
    BY <1>1, <2>5, Ranked
<1>3. ASSUME NEW i \in 1..Cardinality(B)
      PROVE  /\ Ascending(B)[i] \in B
             /\ Cardinality(Before(Ascending(B)[i], B)) = i - 1
  <2>1. \E n \in B : Cardinality(Before(n, B)) = i - 1
    BY Ranked
  <2>2. Ascending(B)[i] = CHOOSE n \in B : Cardinality(Before(n, B)) = i - 1
    BY DEF Ascending, Before
  <2> QED
    BY <2>1, <2>2
<1>4. ASSUME NEW i \in 1..Cardinality(B) PROVE PlaceOf(Ascending(B)[i], B) = i
  <2>1. PICK b \in B : b = Ascending(B)[i] /\ Cardinality(Before(b, B)) = i - 1
    BY <1>3
  <2>2. PlaceOf(b, B) = (i - 1) + 1
    BY <1>2, <2>1
  <2> QED
    BY <1>1, <2>1, <2>2
<1>5. ASSUME NEW b \in B PROVE Ascending(B)[PlaceOf(b, B)] = b
  <2>1. PICK i : i = PlaceOf(b, B) /\ i \in 1..Cardinality(B) /\ i = Cardinality(Before(b, B)) + 1
    BY <1>2
  <2>2. Cardinality(Before(b, B)) \in Int /\ Cardinality(Before(b, B)) = i - 1
    BY <2>1, <1>1, Ranked
  <2>3. Ascending(B)[i] \in B /\ Cardinality(Before(Ascending(B)[i], B)) = i - 1
    BY <1>3, <2>1
  <2>4. Ascending(B)[i] = b
    BY <2>2, <2>3, Ranked
  <2> QED
    BY <2>1, <2>4
<1>6. DOMAIN Ascending(B) = 1..Cardinality(B)
  BY DEF Ascending
<1> QED
  BY <1>2, <1>3, <1>4, <1>5, <1>6

(* The data of the source image, in that order.                            *)
LEMMA HashIsSource ==
    ASSUME NEW B \in SUBSET Blocks
    PROVE  /\ DOMAIN HashBlocks(B) = 1..Cardinality(B)
           /\ \A i \in 1..Cardinality(B) : HashBlocks(B)[i] = SourceData[Ascending(B)[i]]
           /\ \A b \in B : HashBlocks(B)[PlaceOf(b, B)] = SourceData[b]
<1>1. DOMAIN Ascending(B) = 1..Cardinality(B)
  BY PlacedInOrder
<1>2. \A i \in 1..Cardinality(B) : HashBlocks(B)[i] = SourceData[Ascending(B)[i]]
  BY <1>1 DEF HashBlocks
<1>3. \A b \in B : PlaceOf(b, B) \in 1..Cardinality(B) /\ Ascending(B)[PlaceOf(b, B)] = b
  BY PlacedInOrder
<1> QED
  BY <1>2, <1>3, HashLength

-----------------------------------------------------------------------------
(* The commands run one after the other: the updater as a function from    *)
(* the state it is in to the next one.                                     *)

Values == {SourceData[b] : b \in Blocks} \cup {NewData[b] : b \in Blocks} \cup {Zeros, Erased}

Now == [device |-> device, store |-> store, sound |-> sound]

Loaded(m, blocks) ==
    [i \in DOMAIN Ascending(blocks) |-> m.device[Ascending(blocks)[i]]]

(* The stash that block b of a command's source is taken from.             *)
Stock(c, b) == CHOOSE r \in c.refs : b \in r.blocks

Fetched(m, c) ==
    [i \in DOMAIN Ascending(c.src) |->
       IF Ascending(c.src)[i] \in Read(c) THEN m.device[Ascending(c.src)[i]]
       ELSE m.store[Stock(c, Ascending(c.src)[i]).key]
              [PlaceOf(Ascending(c.src)[i], Stock(c, Ascending(c.src)[i]).blocks)]]

Result(m, c, b) ==
    IF c.op = "move" THEN Fetched(m, c)[PlaceOf(b, c.tgt)]
    ELSE IF c.op \in {"bsdiff", "new"} THEN NewData[b]
    ELSE IF c.op = "zero" THEN Zeros ELSE Erased

DeviceAfter(m, c) ==
    IF c.op \in {"stash", "free"} THEN m.device
    ELSE [b \in Blocks |-> IF b \in c.tgt THEN Result(m, c, b) ELSE m.device[b]]

StoreAfter(m, c) ==
    IF c.op = "stash"
    THEN [k \in DOMAIN m.store \cup {c.key} |->
            IF k = c.key THEN Loaded(m, c.src) ELSE m.store[k]]
    ELSE IF c.op = "free" THEN [k \in DOMAIN m.store \ {c.key} |-> m.store[k]]
    ELSE m.store

SoundAfter(m, c) ==
    IF c.op = "bsdiff" THEN m.sound /\ Fetched(m, c) = HashBlocks(c.src) ELSE m.sound

After(m, c) == [device |-> DeviceAfter(m, c), store |-> StoreAfter(m, c),
                sound |-> SoundAfter(m, c)]

LEMMA AfterFields ==
    ASSUME NEW m, NEW c
    PROVE  /\ After(m, c).device = DeviceAfter(m, c)
           /\ After(m, c).store = StoreAfter(m, c)
           /\ After(m, c).sound = SoundAfter(m, c)
BY DEF After

LEMMA NowFields == Now.device = device /\ Now.store = store /\ Now.sound = sound
BY DEF Now

(* A step of the updater is what After says.                               *)
Applying ==
    ExecStash \/ ExecFree \/ ExecMove \/ ExecPatch \/ ExecNew \/ ExecZero \/ ExecErase

LEMMA AssembledIsFetched == Assembled(This) = Fetched(Now, This)
BY DEF Assembled, Fetched, Stock, Now

LEMMA StepIsAfter ==
    ASSUME Applying
    PROVE  /\ pc = "updating" /\ idx \in DOMAIN wr.out /\ idx' = idx + 1
           /\ UNCHANGED <<pc, planState, wr>>
           /\ Now' = After(Now, This)
<1>1. PICK c, o : c = This /\ o = c.op
  OBVIOUS
<1>2. Assembled(c) = Fetched(Now, c)
  BY <1>1, AssembledIsFetched
<1>3. pc = "updating" /\ idx \in DOMAIN wr.out /\ idx' = idx + 1
      /\ UNCHANGED <<pc, planState, wr>>
  BY DEF Applying, Executing, ExecStash, ExecFree, ExecMove, ExecPatch, ExecNew, ExecZero,
         ExecErase
<1>4. /\ device' = DeviceAfter(Now, c) /\ store' = StoreAfter(Now, c)
      /\ sound' = SoundAfter(Now, c)
  <2>1. CASE ExecStash
    <3>1. o = "stash" /\ device' = device /\ sound' = sound
          /\ store' = [k \in DOMAIN store \cup {c.key} |->
                   IF k = c.key THEN Contents(c.src) ELSE store[k]]
      BY <2>1, <1>1 DEF ExecStash, Executing
    <3>2. Contents(c.src) = Loaded(Now, c.src)
      BY DEF Contents, Loaded, Now
    <3> QED
      BY <1>1, <3>1, <3>2, NowFields DEF DeviceAfter, StoreAfter, SoundAfter
  <2>2. CASE ExecFree
    <3>1. o = "free" /\ device' = device /\ sound' = sound
          /\ store' = [k \in DOMAIN store \ {c.key} |-> store[k]]
      BY <2>2, <1>1 DEF ExecFree, Executing
    <3> QED
      BY <1>1, <3>1, NowFields DEF DeviceAfter, StoreAfter, SoundAfter
  <2>3. CASE ExecMove
    <3>1. o = "move" /\ store' = store /\ sound' = sound
          /\ device' = [b \in Blocks |-> IF b \in c.tgt THEN Assembled(c)[PlaceOf(b, c.tgt)]
                                         ELSE device[b]]
      BY <2>3, <1>1 DEF ExecMove, Executing, Write
    <3> QED
      BY <1>1, <1>2, <3>1, NowFields DEF DeviceAfter, StoreAfter, SoundAfter, Result
  <2>4. CASE ExecPatch
    <3>1. o = "bsdiff" /\ store' = store
          /\ sound' = (sound /\ Assembled(c) = HashBlocks(c.src))
          /\ device' = [b \in Blocks |-> IF b \in c.tgt THEN NewData[b] ELSE device[b]]
      BY <2>4, <1>1 DEF ExecPatch, Executing, Write
    <3> QED
      BY <1>1, <1>2, <3>1, NowFields DEF DeviceAfter, StoreAfter, SoundAfter, Result
  <2>5. CASE ExecNew
    <3>1. o = "new" /\ store' = store /\ sound' = sound
          /\ device' = [b \in Blocks |-> IF b \in c.tgt THEN NewData[b] ELSE device[b]]
      BY <2>5, <1>1 DEF ExecNew, Executing, Write
    <3> QED
      BY <1>1, <3>1, NowFields DEF DeviceAfter, StoreAfter, SoundAfter, Result
  <2>6. CASE ExecZero
    <3>1. o = "zero" /\ store' = store /\ sound' = sound
          /\ device' = [b \in Blocks |-> IF b \in c.tgt THEN Zeros ELSE device[b]]
      BY <2>6, <1>1 DEF ExecZero, Executing, Write
    <3> QED
      BY <1>1, <3>1, NowFields DEF DeviceAfter, StoreAfter, SoundAfter, Result
  <2>7. CASE ExecErase
    <3>1. o = "erase" /\ store' = store /\ sound' = sound
          /\ device' = [b \in Blocks |-> IF b \in c.tgt THEN Erased ELSE device[b]]
      BY <2>7, <1>1 DEF ExecErase, Executing, Write
    <3> QED
      BY <1>1, <3>1, NowFields DEF DeviceAfter, StoreAfter, SoundAfter, Result
  <2> QED
    BY <2>1, <2>2, <2>3, <2>4, <2>5, <2>6, <2>7 DEF Applying
<1>5. Now' = [device |-> device', store |-> store', sound |-> sound']
  BY DEF Now
<1> QED
  BY <1>1, <1>3, <1>4, <1>5 DEF After

-----------------------------------------------------------------------------
(* What the updater can be asked to do, with room for n stashed blocks.    *)

SizesOf(m) == [k \in DOMAIN m.store |-> Len(m.store[k])]

Used(m) == SumOver(SizesOf(m), DOMAIN m.store)

Typed(m) ==
    /\ DOMAIN m.device = Blocks /\ \A b \in Blocks : m.device[b] \in Values
    /\ IsFiniteSet(DOMAIN m.store)
    /\ \A k \in DOMAIN m.store : m.store[k] \in Seq(Values)
    /\ m.sound \in BOOLEAN

WellFormed(c) == c \in Commands /\ (c.op # "free" => c.src \cup c.tgt # {})

Served(m, c, n) ==
    /\ WellFormed(c)
    /\ \A r \in c.refs : r.key \in DOMAIN m.store
    /\ Overlapping(c) => Used(m) + Cardinality(c.src) <= n

(* M is the updater before each of the commands of q, and after the last.  *)
Run(M, q, n) ==
    /\ \A i \in 1..(Len(q) + 1) : Typed(M[i]) /\ Used(M[i]) <= n
    /\ \A i \in 1..Len(q) : Served(M[i], q[i], n) /\ M[i+1] = After(M[i], q[i])

(* The commands of q can be run from s, and lead to m.                     *)
Leads(s, q, m, n) == \E M : Run(M, q, n) /\ M[1] = s /\ M[Len(q) + 1] = m

LEMMA LeadsNowhere ==
    ASSUME NEW s, Typed(s), NEW n, Used(s) <= n
    PROVE  Leads(s, <<>>, s, n)
<1>1. PICK M : M = [i \in 1..1 |-> s]
  OBVIOUS
<1>2. Len(<<>>) = 0 /\ M[1] = s /\ \A i \in 1..(0 + 1) : M[i] = s
  BY <1>1
<1>3. Run(M, <<>>, n)
  BY <1>2 DEF Run
<1>4. M[Len(<<>>) + 1] = s
  BY <1>2
<1> QED
  BY <1>2, <1>3, <1>4 DEF Leads

LEMMA LeadsOn ==
    ASSUME NEW q \in Seq(Commands), NEW c \in Commands, NEW n, NEW s, NEW m, Leads(s, q, m, n),
           Served(m, c, n), Typed(After(m, c)), Used(After(m, c)) <= n
    PROVE  Leads(s, Append(q, c), After(m, c), n)
<1>1. PICK M : Run(M, q, n) /\ M[1] = s /\ M[Len(q) + 1] = m
  BY DEF Leads
<1>2. PICK k, p, e : k = Len(q) /\ p = Append(q, c) /\ e = After(m, c)
  OBVIOUS
<1>3. k \in Nat /\ Len(p) = k + 1 /\ p[k+1] = c /\ \A i \in 1..k : p[i] = q[i]
  BY <1>2
<1>4. PICK N : N = [i \in 1..(k+2) |-> IF i = k + 2 THEN e ELSE M[i]]
  OBVIOUS
<1>5. N[k+2] = e /\ N[1] = s /\ N[k+1] = m /\ \A i \in 1..(k+1) : N[i] = M[i]
  BY <1>1, <1>2, <1>3, <1>4
<1>6. \A i \in 1..(Len(p) + 1) : Typed(N[i]) /\ Used(N[i]) <= n
  <2> TAKE i \in 1..(Len(p) + 1)
  <2>1. CASE i \in 1..(k+1)
    BY <1>1, <1>2, <1>5, <2>1 DEF Run
  <2>2. CASE i = k + 2
    BY <1>2, <1>5, <2>2
  <2> QED
    BY <1>3, <2>1, <2>2
<1>7. \A i \in 1..Len(p) : Served(N[i], p[i], n) /\ N[i+1] = After(N[i], p[i])
  <2> TAKE i \in 1..Len(p)
  <2>1. CASE i \in 1..k
    <3>1. N[i] = M[i] /\ N[i+1] = M[i+1] /\ p[i] = q[i]
      BY <1>3, <1>5, <2>1
    <3> QED
      BY <1>1, <1>2, <2>1, <3>1 DEF Run
  <2>2. CASE i = k + 1
    <3>1. N[i] = m /\ N[i+1] = e /\ p[i] = c
      BY <1>3, <1>5, <2>2
    <3> QED
      BY <1>2, <3>1
  <2> QED
    BY <1>3, <2>1, <2>2
<1>8. Run(N, p, n)
  BY <1>6, <1>7 DEF Run
<1>9. N[Len(p) + 1] = e
  BY <1>3, <1>5
<1> QED
  BY <1>2, <1>5, <1>8, <1>9 DEF Leads

LEMMA LeadsFrom ==
    ASSUME NEW q \in Seq(Commands), NEW c \in Commands, NEW n, NEW s, NEW m,
           Leads(After(s, c), q, m, n), Typed(s), Used(s) <= n, Served(s, c, n)
    PROVE  Leads(s, <<c>> \o q, m, n)
<1>1. PICK M : Run(M, q, n) /\ M[1] = After(s, c) /\ M[Len(q) + 1] = m
  BY DEF Leads
<1>2. PICK k, p : k = Len(q) /\ p = <<c>> \o q
  OBVIOUS
<1>3. k \in Nat /\ Len(p) = k + 1 /\ p[1] = c /\ \A i \in 1..k : p[i+1] = q[i]
  BY <1>2
<1>4. PICK N : N = [i \in 1..(k+2) |-> IF i = 1 THEN s ELSE M[i-1]]
  OBVIOUS
<1>5. N[1] = s /\ N[k+2] = m /\ \A i \in 2..(k+2) : N[i] = M[i-1]
  BY <1>1, <1>2, <1>3, <1>4
<1>6. \A i \in 1..(Len(p) + 1) : Typed(N[i]) /\ Used(N[i]) <= n
  <2> TAKE i \in 1..(Len(p) + 1)
  <2>1. CASE i = 1
    BY <1>5, <2>1
  <2>2. CASE i \in 2..(k+2)
    <3>1. i - 1 \in 1..(k+1) /\ N[i] = M[i-1]
      BY <1>3, <1>5, <2>2
    <3> QED
      BY <1>1, <1>2, <3>1 DEF Run
  <2> QED
    BY <1>3, <2>1, <2>2
<1>7. \A i \in 1..Len(p) : Served(N[i], p[i], n) /\ N[i+1] = After(N[i], p[i])
  <2> TAKE i \in 1..Len(p)
  <2>1. CASE i = 1
    <3>1. N[i] = s /\ N[i+1] = M[1] /\ p[i] = c
      BY <1>3, <1>5, <2>1
    <3> QED
      BY <1>1, <3>1
  <2>2. CASE i \in 2..(k+1)
    <3>1. PICK j : j = i - 1 /\ j \in 1..k /\ j + 1 = i
      BY <1>3, <2>2
    <3>2. N[i] = M[j] /\ N[i+1] = M[j+1] /\ p[i] = q[j]
      BY <1>3, <1>5, <2>2, <3>1
    <3> QED
      BY <1>1, <1>2, <3>1, <3>2 DEF Run
  <2> QED
    BY <1>3, <2>1, <2>2
<1>8. Run(N, p, n)
  BY <1>6, <1>7 DEF Run
<1>9. N[Len(p) + 1] = m
  BY <1>3, <1>5
<1> QED
  BY <1>2, <1>5, <1>8, <1>9 DEF Leads

(* More room does no harm.                                                 *)
LEMMA UsedInt ==
    ASSUME NEW m, Typed(m)
    PROVE  /\ \A k \in DOMAIN m.store : SizesOf(m)[k] \in Nat
           /\ Used(m) \in Nat
<1>1. \A k \in DOMAIN m.store : SizesOf(m)[k] \in Nat
  BY DEF Typed, SizesOf
<1> QED
  BY <1>1, SumNat DEF Typed, Used

LEMMA LeadsWider ==
    ASSUME NEW q \in Seq(Commands), NEW n \in Nat, NEW k \in Nat, n <= k, NEW s, NEW m,
           Leads(s, q, m, n)
    PROVE  Leads(s, q, m, k)
<1>1. PICK M : Run(M, q, n) /\ M[1] = s /\ M[Len(q) + 1] = m
  BY DEF Leads
<1>2. \A i \in 1..(Len(q) + 1) : Typed(M[i]) /\ Used(M[i]) <= k
  <2> TAKE i \in 1..(Len(q) + 1)
  <2>1. Typed(M[i]) /\ Used(M[i]) <= n
    BY <1>1 DEF Run
  <2>2. Used(M[i]) \in Nat
    BY <2>1, UsedInt
  <2> QED
    BY <2>1, <2>2
<1>3. \A i \in 1..Len(q) : Served(M[i], q[i], k) /\ M[i+1] = After(M[i], q[i])
  <2> TAKE i \in 1..Len(q)
  <2>1. Served(M[i], q[i], n) /\ M[i+1] = After(M[i], q[i])
    BY <1>1 DEF Run
  <2>2. Used(M[i]) \in Nat
    <3>1. i \in 1..(Len(q) + 1)
      OBVIOUS
    <3>2. Typed(M[i])
      BY <1>1, <3>1 DEF Run
    <3> QED
      BY <3>2, UsedInt
  <2>3. Cardinality(q[i].src) \in Nat
    <3>1. q[i].src \in SUBSET Blocks
      BY <2>1 DEF Served, WellFormed, Commands
    <3> QED
      BY <3>1, BlocksCount
  <2> QED
    BY <2>1, <2>2, <2>3 DEF Served
<1>4. Run(M, q, k)
  BY <1>2, <1>3 DEF Run
<1> QED
  BY <1>1, <1>4 DEF Leads

-----------------------------------------------------------------------------
(* What a run has come to.                                                 *)

(* The blocks E of the source image have been erased.                      *)
Start(E) ==
    [device |-> IF E = {} THEN SourceData
                ELSE [b \in Blocks |-> IF b \in E THEN Erased ELSE SourceData[b]],
     store |-> <<>>, sound |-> TRUE]

ReadIn(q) == UNION {Read(q[i]) : i \in DOMAIN q}

(* F: the files in the store, with what they should hold; T: the transfers *)
(* that are done.                                                          *)
Written(m, E, T) ==
    /\ \A t \in T : \A b \in Tgt[t] : m.device[b] = Wanted(t, b)
    /\ \A b \in Blocks \ E : (\A t \in T : b \notin Tgt[t]) => m.device[b] = SourceData[b]

Right(m, E, F, T) ==
    /\ m.sound
    /\ \A x \in F : m.store[x[1]] = x[2]
    /\ Written(m, E, T)

Holds(m, E, q, F, T) ==
    /\ DOMAIN m.store = {x[1] : x \in F}
    /\ \A x \in F : Len(m.store[x[1]]) = Len(x[2])
    /\ E \cap ReadIn(q) = {} => Right(m, E, F, T)

Reaches(E, q, F, u, T, n) ==
    \E m : Leads(Start(E), q, m, n) /\ Used(m) = u /\ Holds(m, E, q, F, T)

(* No two files have one name.                                             *)
Files == {F \in SUBSET (Keys \X Hashes) : \A x, y \in F : x[1] = y[1] => x = y}

LEMMA LeadsTyped ==
    ASSUME NEW q \in Seq(Commands), NEW s, NEW m, NEW n, Leads(s, q, m, n)
    PROVE  Typed(m) /\ Used(m) <= n /\ Used(m) \in Nat
<1>1. PICK M : Run(M, q, n) /\ M[Len(q) + 1] = m
  BY DEF Leads
<1>2. Len(q) + 1 \in 1..(Len(q) + 1)
  OBVIOUS
<1> QED
  BY <1>1, <1>2, UsedInt DEF Run

LEMMA ReadInAppend ==
    ASSUME NEW q \in Seq(Commands), NEW c \in Commands
    PROVE  ReadIn(Append(q, c)) = ReadIn(q) \cup Read(c)
<1>1. PICK k, p : k = Len(q) /\ p = Append(q, c)
  OBVIOUS
<1>2. k \in Nat /\ DOMAIN q = 1..k /\ DOMAIN p = 1..(k+1) /\ p[k+1] = c
      /\ \A i \in 1..k : p[i] = q[i]
  BY <1>1
<1>3. \A i \in DOMAIN p : i = k + 1 \/ i \in DOMAIN q
  BY <1>2
<1>4. k + 1 \in DOMAIN p /\ \A i \in DOMAIN q : i \in DOMAIN p
  BY <1>2
<1>5. ReadIn(p) = ReadIn(q) \cup Read(c)
  BY <1>2, <1>3, <1>4 DEF ReadIn
<1> QED
  BY <1>1, <1>5

LEMMA ReachesOn ==
    ASSUME NEW q \in Seq(Commands), NEW c \in Commands, NEW n \in Nat, NEW E, NEW F, NEW v,
           NEW U, NEW m, Leads(Start(E), q, m, n), Served(m, c, n), Typed(After(m, c)),
           Used(After(m, c)) = v, v <= n, Holds(After(m, c), E, Append(q, c), F, U)
    PROVE  Reaches(E, Append(q, c), F, v, U, n)
BY LeadsOn DEF Reaches

LEMMA ReachesWider ==
    ASSUME NEW q \in Seq(Commands), NEW n \in Nat, NEW k \in Nat, n <= k, NEW E, NEW F, NEW u,
           NEW T, Reaches(E, q, F, u, T, n)
    PROVE  Reaches(E, q, F, u, T, k)
BY LeadsWider DEF Reaches

-----------------------------------------------------------------------------
(* Stashing and freeing.                                                   *)

LEMMA LoadedHash ==
    ASSUME NEW m, NEW B \in SUBSET Blocks
    PROVE  /\ Typed(m) => Loaded(m, B) \in Seq(Values)
           /\ Len(Loaded(m, B)) = Cardinality(B)
           /\ (\A b \in B : m.device[b] = SourceData[b]) => Loaded(m, B) = HashBlocks(B)
<1>1. PICK n, at, f : n = Cardinality(B) /\ at = Ascending(B) /\ f = Loaded(m, B)
  OBVIOUS
<1>2. n \in Nat /\ DOMAIN at = 1..n /\ \A i \in 1..n : at[i] \in B
  BY <1>1, BlocksCount, PlacedInOrder
<1>3. f = [i \in 1..n |-> m.device[at[i]]]
  BY <1>1, <1>2 DEF Loaded
<1>4. Len(f) = n
  BY <1>2, <1>3
<1>5. ASSUME Typed(m) PROVE f \in Seq(Values)
  <2>1. \A i \in 1..n : m.device[at[i]] \in Values
    BY <1>2, <1>5 DEF Typed
  <2> QED
    BY <1>2, <1>3, <2>1
<1>6. ASSUME \A b \in B : m.device[b] = SourceData[b] PROVE f = HashBlocks(B)
  <2>1. HashBlocks(B) = [i \in 1..n |-> SourceData[at[i]]]
    BY <1>1, <1>2 DEF HashBlocks
  <2>2. \A i \in 1..n : m.device[at[i]] = SourceData[at[i]]
    BY <1>2, <1>6
  <2> QED
    BY <1>3, <2>1, <2>2
<1> QED
  BY <1>1, <1>4, <1>5, <1>6

LEMMA UsedGrows ==
    ASSUME NEW m, Typed(m), NEW e, NEW key, key \notin DOMAIN m.store, NEW data \in Seq(Values),
           DOMAIN e.store = DOMAIN m.store \cup {key}, e.store[key] = data,
           \A k \in DOMAIN m.store : e.store[k] = m.store[k]
    PROVE  /\ Used(e) = Used(m) + Len(data) /\ IsFiniteSet(DOMAIN e.store)
           /\ \A k \in DOMAIN e.store : e.store[k] \in Seq(Values)
<1>1. PICK D, f, g, l : /\ D = DOMAIN m.store /\ f = SizesOf(m) /\ g = SizesOf(e)
                        /\ l = Len(data)
  OBVIOUS
<1>2. IsFiniteSet(D) /\ l \in Nat /\ DOMAIN e.store = D \cup {key} /\ key \notin D
  BY <1>1 DEF Typed
<1>3. \A k \in D : f[k] \in Nat /\ g[k] = f[k]
  <2> TAKE k \in D
  <2>1. k # key /\ f[k] \in Nat
    BY <1>1, <1>2, UsedInt
  <2> QED
    BY <1>1, <1>2, <2>1 DEF SizesOf
<1>4. g[key] = l
  BY <1>1, <1>2 DEF SizesOf
<1>5. SumOver(g, D) = SumOver(f, D)
  BY <1>2, <1>3, SumSame
<1>6. SumOver(g, D \cup {key}) = g[key] + SumOver(g, D)
  BY <1>2, <1>3, <1>4, SumAdd
<1>7. SumOver(f, D) \in Nat
  BY <1>2, <1>3, SumNat
<1>8. Used(e) = l + SumOver(f, D)
  BY <1>1, <1>2, <1>4, <1>5, <1>6 DEF Used
<1>9. Used(m) = SumOver(f, D)
  BY <1>1 DEF Used
<1>10. IsFiniteSet(D \cup {key})
  BY <1>2, FS_AddElement
<1>11. \A k \in DOMAIN e.store : e.store[k] \in Seq(Values)
  BY <1>1, <1>2 DEF Typed
<1>12. Used(e) = Used(m) + l
  BY <1>2, <1>7, <1>8, <1>9
<1> QED
  BY <1>1, <1>2, <1>10, <1>11, <1>12

LEMMA UsedShrinks ==
    ASSUME NEW m, Typed(m), NEW e, NEW key \in DOMAIN m.store,
           e.store = [k \in DOMAIN m.store \ {key} |-> m.store[k]]
    PROVE  /\ Used(e) = Used(m) - Len(m.store[key]) /\ IsFiniteSet(DOMAIN e.store)
           /\ \A k \in DOMAIN e.store : e.store[k] \in Seq(Values)
<1>1. PICK D, f, g, l : /\ D = DOMAIN m.store /\ f = SizesOf(m) /\ g = SizesOf(e)
                        /\ l = Len(m.store[key])
  OBVIOUS
<1>2. IsFiniteSet(D) /\ DOMAIN e.store = D \ {key} /\ key \in D
  BY <1>1 DEF Typed
<1>3. IsFiniteSet(D \ {key})
  BY <1>2, FS_RemoveElement
<1>4. \A k \in D : f[k] \in Nat
  BY <1>1, UsedInt
<1>5. \A k \in D \ {key} : g[k] = f[k] /\ g[k] \in Int /\ f[k] \in Int
  <2> TAKE k \in D \ {key}
  <2>1. f[k] \in Nat /\ g[k] = f[k]
    BY <1>1, <1>2, <1>4 DEF SizesOf
  <2> QED
    BY <2>1
<1>6. f[key] = l
  BY <1>1, <1>2 DEF SizesOf
<1>7. SumOver(g, D \ {key}) = SumOver(f, D \ {key})
  BY <1>3, <1>5, SumSame
<1>8. SumOver(f, D) = f[key] + SumOver(f, D \ {key})
  BY <1>2, <1>4, SumRemove
<1>9. SumOver(f, D \ {key}) \in Nat /\ l \in Nat
  BY <1>2, <1>3, <1>4, <1>6, SumNat
<1>10. Used(e) = SumOver(f, D \ {key}) /\ Used(m) = l + SumOver(f, D \ {key})
  BY <1>1, <1>2, <1>6, <1>7, <1>8 DEF Used
<1>11. \A k \in DOMAIN e.store : e.store[k] \in Seq(Values)
  BY <1>1, <1>2 DEF Typed
<1>12. Used(e) = Used(m) - l
  BY <1>9, <1>10
<1> QED
  BY <1>1, <1>2, <1>3, <1>11, <1>12

LEMMA StashRuns ==
    ASSUME NEW q \in Seq(Commands), NEW n \in Nat, NEW E, NEW F \in Files, NEW u \in Nat,
           NEW T \in SUBSET Transfers, Reaches(E, q, F, u, T, n),
           NEW s \in Stashes, s.blocks # {}, NEW key \in Keys, key \notin {x[1] : x \in F},
           NEW c \in Commands, c = Command("stash", {}, s.blocks, key, {}),
           u + Cardinality(s.blocks) <= n, \A t \in T : Tgt[t] \cap s.blocks = {}
    PROVE  Reaches(E, Append(q, c), F \cup {<<key, HashOf(s)>>}, u + Cardinality(s.blocks), T, n)
<1>1. PICK m : Leads(Start(E), q, m, n) /\ Used(m) = u /\ Holds(m, E, q, F, T)
  BY DEF Reaches
<1>2. PICK B, h, e, d : B = s.blocks /\ h = HashOf(s) /\ e = After(m, c) /\ d = Loaded(m, B)
  OBVIOUS
<1>3. Typed(m)
  BY <1>1, LeadsTyped
<1>4. B \in SUBSET Blocks /\ h \in Hashes /\ h = HashBlocks(B) /\ Cardinality(B) \in Nat
      /\ Len(h) = Cardinality(B)
  BY <1>2, StashHasBlocks, HashLength DEF HashOf
<1>5. c.op = "stash" /\ c.src = B /\ c.tgt = {} /\ c.refs = {} /\ c.key = key /\ Read(c) = B
  BY <1>2 DEF Command, Read
<1>6. d \in Seq(Values) /\ Len(d) = Cardinality(B)
      /\ ((\A b \in B : m.device[b] = SourceData[b]) => d = h)
  BY <1>2, <1>3, <1>4, LoadedHash
<1>7. /\ e.device = m.device /\ e.sound = m.sound
      /\ e.store = [k \in DOMAIN m.store \cup {key} |-> IF k = key THEN d ELSE m.store[k]]
  <2>1. e.device = DeviceAfter(m, c) /\ e.store = StoreAfter(m, c) /\ e.sound = SoundAfter(m, c)
    BY <1>2, AfterFields
  <2> QED
    BY <1>2, <1>5, <2>1 DEF DeviceAfter, StoreAfter, SoundAfter
<1>8. key \notin DOMAIN m.store
  BY <1>1 DEF Holds
<1>9. /\ Used(e) = u + Cardinality(B) /\ IsFiniteSet(DOMAIN e.store)
      /\ \A k \in DOMAIN e.store : e.store[k] \in Seq(Values)
  <2>1. /\ Used(e) = Used(m) + Len(d) /\ IsFiniteSet(DOMAIN e.store)
        /\ \A k \in DOMAIN e.store : e.store[k] \in Seq(Values)
    <3>1. d \in Seq(Values)
      BY <1>6
    <3>2. /\ DOMAIN e.store = DOMAIN m.store \cup {key} /\ e.store[key] = d
          /\ \A k \in DOMAIN m.store : e.store[k] = m.store[k]
      BY <1>7, <1>8
    <3> QED
      BY ONLY <1>3, <1>8, <3>1, <3>2, UsedGrows
  <2> QED
    BY <1>1, <1>6, <2>1
<1>10. Typed(e)
  BY <1>3, <1>7, <1>9 DEF Typed
<1>11. Served(m, c, n)
  <2>1. WellFormed(c)
    BY <1>2, <1>5 DEF WellFormed
  <2>2. ~Overlapping(c)
    BY <1>5 DEF Overlapping
  <2> QED
    BY <1>5, <2>1, <2>2 DEF Served
<1>12. PICK x : x = <<key, h>> /\ x[1] = key /\ x[2] = h
  <2>1. <<key, h>>[1] = key /\ <<key, h>>[2] = h
    OBVIOUS
  <2> QED
    BY ONLY <2>1
<1>12a. PICK H : H = F \cup {x}
  OBVIOUS
<1>13. Holds(e, E, Append(q, c), H, T)
  <2>1. DOMAIN e.store = {y[1] : y \in H}
    <3>1. DOMAIN e.store = DOMAIN m.store \cup {key} /\ DOMAIN m.store = {y[1] : y \in F}
      BY <1>1, <1>7 DEF Holds
    <3> QED
      BY <1>12, <1>12a, <3>1
  <2>2. \A y \in F : y[1] \in DOMAIN m.store /\ y[1] # key /\ e.store[y[1]] = m.store[y[1]]
    BY <1>1, <1>7, <1>8 DEF Holds
  <2>3. e.store[key] = d
    BY <1>7
  <2>4. \A y \in H : Len(e.store[y[1]]) = Len(y[2])
    BY <1>1, <1>4, <1>6, <1>12, <1>12a, <2>2, <2>3 DEF Holds
  <2>5. ASSUME E \cap ReadIn(Append(q, c)) = {}
        PROVE  Right(e, E, H, T)
    <3>1. E \cap ReadIn(q) = {} /\ E \cap B = {}
      BY <1>5, <2>5, ReadInAppend
    <3>2. Right(m, E, F, T)
      BY <1>1, <3>1 DEF Holds
    <3>3. \A b \in B : m.device[b] = SourceData[b]
      BY <1>2, <1>4, <3>1, <3>2 DEF Right, Written
    <3>4. d = h
      BY <1>6, <3>3
    <3>5. \A y \in H : e.store[y[1]] = y[2]
      BY <1>12, <1>12a, <2>2, <2>3, <3>2, <3>4 DEF Right
    <3>6. e.sound /\ Written(e, E, T)
      BY <1>7, <3>2 DEF Right, Written
    <3> QED
      BY <3>5, <3>6 DEF Right
  <2> QED
    BY <2>1, <2>4, <2>5 DEF Holds
<1>14. Reaches(E, Append(q, c), H, u + Cardinality(B), T, n)
  <2>1. Typed(After(m, c)) /\ Used(After(m, c)) = u + Cardinality(B)
        /\ Holds(After(m, c), E, Append(q, c), H, T)
    BY <1>2, <1>9, <1>10, <1>13
  <2>2. u + Cardinality(B) <= n
    BY <1>2
  <2> QED
    BY <1>1, <1>11, <2>1, <2>2, ReachesOn
<1> QED
  BY <1>2, <1>12, <1>12a, <1>14

LEMMA FreeRuns ==
    ASSUME NEW q \in Seq(Commands), NEW n \in Nat, NEW E, NEW F \in Files, NEW u \in Nat,
           NEW T \in SUBSET Transfers, Reaches(E, q, F, u, T, n), NEW x \in F,
           NEW c \in Commands, c = Command("free", {}, {}, x[1], {})
    PROVE  /\ Reaches(E, Append(q, c), F \ {x}, u - Len(x[2]), T, n)
           /\ u - Len(x[2]) \in Nat
<1>1. PICK m : Leads(Start(E), q, m, n) /\ Used(m) = u /\ Holds(m, E, q, F, T)
  BY DEF Reaches
<1>2. PICK key, e : key = x[1] /\ e = After(m, c)
  OBVIOUS
<1>3. Typed(m) /\ Used(m) <= n
  BY <1>1, LeadsTyped
<1>5. c.op = "free" /\ c.src = {} /\ c.tgt = {} /\ c.refs = {} /\ c.key = key /\ Read(c) = {}
  BY <1>2 DEF Command, Read
<1>7. /\ e.device = m.device /\ e.sound = m.sound
      /\ e.store = [k \in DOMAIN m.store \ {key} |-> m.store[k]]
  <2>1. e.device = DeviceAfter(m, c) /\ e.store = StoreAfter(m, c) /\ e.sound = SoundAfter(m, c)
    BY <1>2, AfterFields
  <2> QED
    BY <1>2, <1>5, <2>1 DEF DeviceAfter, StoreAfter, SoundAfter
<1>8. key \in DOMAIN m.store /\ Len(m.store[key]) = Len(x[2])
  BY <1>1, <1>2 DEF Holds
<1>9. /\ Used(e) = u - Len(x[2]) /\ IsFiniteSet(DOMAIN e.store)
      /\ \A k \in DOMAIN e.store : e.store[k] \in Seq(Values)
  <2>1. /\ Used(e) = Used(m) - Len(m.store[key]) /\ IsFiniteSet(DOMAIN e.store)
        /\ \A k \in DOMAIN e.store : e.store[k] \in Seq(Values)
    BY <1>3, <1>7, <1>8, UsedShrinks
  <2> QED
    BY <1>1, <1>8, <2>1
<1>10. Typed(e)
  BY <1>3, <1>7, <1>9 DEF Typed
<1>11. Served(m, c, n)
  <2>1. WellFormed(c)
    BY <1>5 DEF WellFormed
  <2>2. ~Overlapping(c)
    BY <1>5 DEF Overlapping
  <2> QED
    BY <1>5, <2>1, <2>2 DEF Served
<1>12. Used(e) \in Nat /\ Used(e) <= n
  <2>1. Used(e) \in Nat
    BY <1>10, UsedInt
  <2>2. Len(x[2]) \in Nat
    BY <1>3, <1>8 DEF Typed
  <2> QED
    BY <1>1, <1>3, <1>9, <2>1, <2>2
<1>13. Holds(e, E, Append(q, c), F \ {x}, T)
  <2>2. \A y \in F \ {x} : y[1] # key
    BY <1>2 DEF Files
  <2>1. DOMAIN e.store = {y[1] : y \in F \ {x}}
    <3>1. DOMAIN e.store = DOMAIN m.store \ {key} /\ DOMAIN m.store = {y[1] : y \in F}
      BY <1>1, <1>7 DEF Holds
    <3> QED
      BY <1>2, <2>2, <3>1
  <2>3. \A y \in F \ {x} : e.store[y[1]] = m.store[y[1]]
    BY <1>1, <1>7, <2>2 DEF Holds
  <2>4. \A y \in F \ {x} : Len(e.store[y[1]]) = Len(y[2])
    BY <1>1, <2>3 DEF Holds
  <2>5. ASSUME E \cap ReadIn(Append(q, c)) = {}
        PROVE  Right(e, E, F \ {x}, T)
    <3>1. E \cap ReadIn(q) = {}
      BY <1>5, <2>5, ReadInAppend
    <3>2. Right(m, E, F, T)
      BY <1>1, <3>1 DEF Holds
    <3>3. e.sound /\ Written(e, E, T)
      BY <1>7, <3>2 DEF Right, Written
    <3>4. \A y \in F \ {x} : e.store[y[1]] = y[2]
      BY <2>3, <3>2 DEF Right
    <3> QED
      BY <3>3, <3>4 DEF Right
  <2> QED
    BY <2>1, <2>4, <2>5 DEF Holds
<1>14. Reaches(E, Append(q, c), F \ {x}, u - Len(x[2]), T, n)
  BY <1>1, <1>2, <1>9, <1>10, <1>11, <1>12, <1>13, ReachesOn
<1> QED
  BY <1>9, <1>12, <1>14

-----------------------------------------------------------------------------
(* The command of a transfer.                                              *)

(* What c reads from stashes is in the store, in full.                     *)
Stocked(m, c) ==
    \A r \in c.refs : r.key \in DOMAIN m.store /\ Len(m.store[r.key]) = Cardinality(r.blocks)

LEMMA FetchedTyped ==
    ASSUME NEW m, Typed(m), NEW c \in Commands, Stocked(m, c)
    PROVE  /\ DOMAIN Fetched(m, c) = 1..Cardinality(c.src)
           /\ \A i \in 1..Cardinality(c.src) : Fetched(m, c)[i] \in Values
<1>1. PICK at, k : at = Ascending(c.src) /\ k = Cardinality(c.src)
  OBVIOUS
<1>2. c.src \in SUBSET Blocks /\ c.refs \in SUBSET Names
  BY DEF Commands
<1>3. k \in Nat /\ DOMAIN at = 1..k /\ \A i \in 1..k : at[i] \in c.src
  BY <1>1, <1>2, BlocksCount, PlacedInOrder
<1>4. DOMAIN Fetched(m, c) = 1..k
  BY <1>1, <1>3 DEF Fetched
<1>5. ASSUME NEW i \in 1..k PROVE Fetched(m, c)[i] \in Values
  <2>1. PICK b, r : b = at[i] /\ r = Stock(c, b)
    OBVIOUS
  <2>2. Fetched(m, c)[i] = IF b \in Read(c) THEN m.device[b]
                           ELSE m.store[r.key][PlaceOf(b, r.blocks)]
    BY <1>1, <1>3, <2>1 DEF Fetched
  <2>3. CASE b \in Read(c)
    <3>1. b \in Blocks
      BY <1>2, <1>3, <2>1
    <3> QED
      BY <2>2, <2>3, <3>1 DEF Typed
  <2>4. CASE b \notin Read(c)
    <3>1. \E x \in c.refs : b \in x.blocks
      BY <1>3, <2>1, <2>4 DEF Read
    <3>2. r \in c.refs /\ b \in r.blocks
      BY <2>1, <3>1 DEF Stock
    <3>3. r.blocks \in SUBSET Blocks
      BY <1>2, <3>2 DEF Names
    <3>4. PlaceOf(b, r.blocks) \in 1..Cardinality(r.blocks)
      BY <3>2, <3>3, PlacedInOrder
    <3>5. m.store[r.key] \in Seq(Values) /\ Len(m.store[r.key]) = Cardinality(r.blocks)
      BY <3>2 DEF Typed, Stocked
    <3>6. m.store[r.key][PlaceOf(b, r.blocks)] \in Values
      BY <3>4, <3>5
    <3> QED
      BY <2>2, <2>4, <3>6
  <2> QED
    BY <2>3, <2>4
<1> QED
  BY <1>1, <1>4, <1>5

LEMMA FetchedRight ==
    ASSUME NEW m, NEW c \in Commands, Stocked(m, c),
           \A r \in c.refs : m.store[r.key] = HashBlocks(r.blocks),
           \A b \in Read(c) : m.device[b] = SourceData[b]
    PROVE  Fetched(m, c) = HashBlocks(c.src)
<1>1. PICK at, k : at = Ascending(c.src) /\ k = Cardinality(c.src)
  OBVIOUS
<1>2. c.src \in SUBSET Blocks /\ c.refs \in SUBSET Names
  BY DEF Commands
<1>3. k \in Nat /\ DOMAIN at = 1..k /\ \A i \in 1..k : at[i] \in c.src
  BY <1>1, <1>2, BlocksCount, PlacedInOrder
<1>4. ASSUME NEW i \in 1..k
      PROVE  (IF at[i] \in Read(c) THEN m.device[at[i]]
              ELSE m.store[Stock(c, at[i]).key][PlaceOf(at[i], Stock(c, at[i]).blocks)])
                = SourceData[at[i]]
  <2>1. PICK b, r : b = at[i] /\ r = Stock(c, b)
    OBVIOUS
  <2>2. CASE b \in Read(c)
    BY <2>1, <2>2
  <2>3. CASE b \notin Read(c)
    <3>1. \E x \in c.refs : b \in x.blocks
      BY <1>3, <2>1, <2>3 DEF Read
    <3>2. r \in c.refs /\ b \in r.blocks
      BY <2>1, <3>1 DEF Stock
    <3>3. r.blocks \in SUBSET Blocks
      BY <1>2, <3>2 DEF Names
    <3>4. HashBlocks(r.blocks)[PlaceOf(b, r.blocks)] = SourceData[b]
      BY <3>2, <3>3, HashIsSource
    <3>5. m.store[r.key] = HashBlocks(r.blocks)
      BY <3>2
    <3> QED
      BY <2>1, <2>3, <3>4, <3>5
  <2> QED
    BY <2>2, <2>3
<1>5. HashBlocks(c.src) = [i \in 1..k |-> SourceData[at[i]]]
  BY <1>1, <1>3 DEF HashBlocks
<1>6. Fetched(m, c) = [i \in 1..k |->
         IF at[i] \in Read(c) THEN m.device[at[i]]
         ELSE m.store[Stock(c, at[i]).key][PlaceOf(at[i], Stock(c, at[i]).blocks)]]
  BY <1>1, <1>3 DEF Fetched
<1> QED
  BY <1>4, <1>5, <1>6

(* A command that writes leaves the store alone.                           *)
Writes(c) == c.op \notin {"stash", "free"}

LEMMA WritingTyped ==
    ASSUME NEW m, Typed(m), NEW c \in Commands, Stocked(m, c), Writes(c),
           c.op = "move" => Cardinality(c.src) = Cardinality(c.tgt)
    PROVE  /\ Typed(After(m, c)) /\ Used(After(m, c)) = Used(m)
           /\ After(m, c).store = m.store
           /\ \A b \in c.tgt : After(m, c).device[b] = Result(m, c, b)
           /\ \A b \in Blocks \ c.tgt : After(m, c).device[b] = m.device[b]
<1>1. PICK e : e = After(m, c)
  OBVIOUS
<1>2. e.device = DeviceAfter(m, c) /\ e.store = StoreAfter(m, c) /\ e.sound = SoundAfter(m, c)
  BY <1>1, AfterFields
<1>3. c.tgt \in SUBSET Blocks
  BY DEF Commands
<1>4. e.store = m.store
  BY <1>2 DEF StoreAfter, Writes
<1>5. e.device = [b \in Blocks |-> IF b \in c.tgt THEN Result(m, c, b) ELSE m.device[b]]
  BY <1>2 DEF DeviceAfter, Writes
<1>6. ASSUME NEW b \in c.tgt PROVE Result(m, c, b) \in Values
  <2>1. b \in Blocks
    BY <1>3
  <2>2. CASE c.op = "move"
    <3>1. PlaceOf(b, c.tgt) \in 1..Cardinality(c.src)
      BY <1>3, <2>2, PlacedInOrder
    <3>2. Fetched(m, c)[PlaceOf(b, c.tgt)] \in Values
      BY <3>1, FetchedTyped
    <3> QED
      BY <2>2, <3>2 DEF Result
  <2>3. CASE c.op # "move"
    <3>1. NewData[b] \in Values /\ Zeros \in Values /\ Erased \in Values
      BY <2>1 DEF Values
    <3> QED
      BY <2>3, <3>1 DEF Result
  <2> QED
    BY <2>2, <2>3
<1>7. DOMAIN e.device = Blocks /\ \A b \in Blocks : e.device[b] \in Values
  BY <1>5, <1>6 DEF Typed
<1>8. e.sound \in BOOLEAN
  <2>1. m.sound \in BOOLEAN
    BY DEF Typed
  <2> QED
    BY <1>2, <2>1 DEF SoundAfter
<1>9. Typed(e)
  BY <1>4, <1>7, <1>8 DEF Typed
<1>10. Used(e) = Used(m)
  BY <1>4 DEF Used, SizesOf
<1> QED
  BY <1>1, <1>3, <1>4, <1>5, <1>9, <1>10

(* refs names the stashes that xf uses, which are in the store.            *)
Supplied(refs, F, xf) ==
    /\ refs \in SUBSET Names
    /\ \A r \in refs : \E x \in F : x[1] = r.key /\ x[2] = HashBlocks(r.blocks)
    /\ UNION {r.blocks : r \in refs} = Stashed(xf)

(* What xf reads in place nobody has written; what it need not zero is     *)
(* zero.                                                                   *)
Readable(xf, T) ==
    /\ \A t \in T : Tgt[t] \cap (src[xf] \ Stashed(xf)) = {}
    /\ style[xf] = "zero" => \A b \in src[xf] : SourceData[b] = Zeros

LEMMA CareKept ==
    ASSUME NEW E \in SUBSET NewDontCare, NEW xf \in Transfers
    PROVE  E \cap Tgt[xf] = {} /\ Tgt[xf] \in SUBSET Blocks /\ Tgt[xf] # {}
BY TgtAssumption DEF NewDontCare, Care

(* A transfer without a command is done already.                           *)
LEMMA NothingRuns ==
    ASSUME NEW q \in Seq(Commands), NEW n \in Nat, NEW E \in SUBSET NewDontCare, NEW F, NEW u,
           NEW T \in SUBSET Transfers, Reaches(E, q, F, u, T, n),
           NEW xf \in Transfers, xf \notin T, NothingToWrite(xf), Readable(xf, T)
    PROVE  Reaches(E, q, F, u, T \cup {xf}, n)
<1>1. PICK m : Leads(Start(E), q, m, n) /\ Used(m) = u /\ Holds(m, E, q, F, T)
  BY DEF Reaches
<1>2. ASSUME Right(m, E, F, T) PROVE Right(m, E, F, T \cup {xf})
  <2>1. Written(m, E, T)
    BY <1>2 DEF Right
  <2>2. ASSUME NEW b \in Tgt[xf] PROVE m.device[b] = Wanted(xf, b)
    <3>1. b \in Blocks \ E
      BY <2>2, CareKept
    <3>2. \A t \in T : b \notin Tgt[t]
      BY <2>2, TgtAssumption
    <3>3. m.device[b] = SourceData[b]
      BY <2>1, <3>1, <3>2 DEF Written
    <3>4. CASE style[xf] = "zero" /\ Tgt[xf] \ src[xf] = {}
      <4>1. b \in src[xf]
        BY <2>2, <3>4
      <4>2. SourceData[b] = Zeros
        BY <3>4, <4>1 DEF Readable
      <4>3. Wanted(xf, b) = Zeros
        BY <3>4 DEF Wanted
      <4> QED
        BY <3>3, <4>2, <4>3
    <3>5. CASE style[xf] = "move" /\ src[xf] = Tgt[xf]
      <4>1. Wanted(xf, b) = HashBlocks(Tgt[xf])[PlaceOf(b, Tgt[xf])]
        BY <3>5 DEF Wanted
      <4>2. HashBlocks(Tgt[xf])[PlaceOf(b, Tgt[xf])] = SourceData[b]
        <5>1. PICK B : B = Tgt[xf] /\ B \in SUBSET Blocks /\ b \in B
          BY <2>2, CareKept
        <5>2. HashBlocks(B)[PlaceOf(b, B)] = SourceData[b]
          BY <5>1, HashIsSource
        <5> QED
          BY <5>1, <5>2
      <4> QED
        BY <3>3, <4>1, <4>2
    <3> QED
      BY <3>4, <3>5 DEF NothingToWrite
  <2>3. Written(m, E, T \cup {xf})
    BY <2>1, <2>2 DEF Written
  <2> QED
    BY <1>2, <2>3 DEF Right
<1>3. Holds(m, E, q, F, T \cup {xf})
  BY <1>1, <1>2 DEF Holds
<1> QED
  BY <1>1, <1>3 DEF Reaches

LEMMA CommandRuns ==
    ASSUME NEW q \in Seq(Commands), NEW n \in Nat, NEW E \in SUBSET NewDontCare, NEW F \in Files,
           NEW u \in Nat, NEW T \in SUBSET Transfers, Reaches(E, q, F, u, T, n),
           StylesPicked, src \in [Transfers -> SUBSET Blocks],
           NEW xf \in Transfers, xf \notin T, ~NothingToWrite(xf), Readable(xf, T),
           NEW refs, Supplied(refs, F, xf),
           NEW c, c = TransferCommand(xf, refs),
           Reading(xf) /\ version >= 3 /\ src[xf] \cap Tgt[xf] # {} =>
              u + Cardinality(src[xf]) <= n
    PROVE  Reaches(E, Append(q, c), F, u, T \cup {xf}, n)
<1>1. PICK m : Leads(Start(E), q, m, n) /\ Used(m) = u /\ Holds(m, E, q, F, T)
  BY DEF Reaches
<1>2. PICK e : e = After(m, c)
  OBVIOUS
<1>3. Typed(m) /\ u <= n
  BY <1>1, LeadsTyped
<1>4. c \in Commands
  BY CommandType DEF Supplied
<1>5. E \cap Tgt[xf] = {} /\ Tgt[xf] \in SUBSET Blocks /\ Tgt[xf] # {}
      /\ \A t \in T : Tgt[t] \cap Tgt[xf] = {}
  BY CareKept, TgtAssumption
<1>6. style[xf] \in {"new", "zero", "move", "bsdiff"}
  BY DEF StylesPicked
<1>7. /\ style[xf] = "new" => c.op = "new" /\ c.tgt = Tgt[xf] /\ c.src = {} /\ c.refs = {}
      /\ style[xf] = "zero" =>
            c.op = "zero" /\ c.tgt = Tgt[xf] \ src[xf] /\ c.src = {} /\ c.refs = {}
      /\ style[xf] \in {"move", "bsdiff"} =>
            c.op = style[xf] /\ c.tgt = Tgt[xf] /\ c.src = src[xf] /\ c.refs = refs
  BY <1>6 DEF TransferCommand, Command
<1>8. Writes(c) /\ c.op = style[xf] /\ c.tgt \subseteq Tgt[xf] /\ c.tgt # {}
  <2>1. style[xf] = "zero" => Tgt[xf] \ src[xf] # {}
    BY DEF NothingToWrite
  <2> QED
    BY <1>5, <1>6, <1>7, <2>1 DEF Writes
<1>9. c.refs \subseteq refs
  BY <1>6, <1>7
<1>10. \A r \in c.refs : r.key \in DOMAIN m.store
                         /\ \E x \in F : x[1] = r.key /\ x[2] = HashBlocks(r.blocks)
  BY <1>1, <1>9 DEF Holds, Supplied
<1>11. Stocked(m, c)
  <2> SUFFICES ASSUME NEW r \in c.refs PROVE Len(m.store[r.key]) = Cardinality(r.blocks)
    BY <1>10 DEF Stocked
  <2>1. PICK x \in F : x[1] = r.key /\ x[2] = HashBlocks(r.blocks)
    BY <1>10
  <2>2. r.blocks \in SUBSET Blocks
    BY <1>9 DEF Supplied, Names
  <2>3. Len(x[2]) = Cardinality(r.blocks)
    BY <2>1, <2>2, HashLength
  <2> QED
    BY <1>1, <2>1, <2>3 DEF Holds
<1>12. c.op = "move" => Cardinality(c.src) = Cardinality(c.tgt)
  BY <1>7, <1>8 DEF StylesPicked
<1>13. /\ Typed(e) /\ Used(e) = u /\ e.store = m.store
       /\ \A b \in c.tgt : e.device[b] = Result(m, c, b)
       /\ \A b \in Blocks \ c.tgt : e.device[b] = m.device[b]
  BY <1>1, <1>2, <1>3, <1>4, <1>8, <1>11, <1>12, WritingTyped
<1>14. Served(m, c, n)
  <2>1. WellFormed(c)
    BY <1>4, <1>8 DEF WellFormed
  <2>2. Overlapping(c) => Used(m) + Cardinality(c.src) <= n
    <3> SUFFICES ASSUME Overlapping(c) PROVE u + Cardinality(c.src) <= n
      BY <1>1
    <3>1. c.op \in {"move", "bsdiff"} /\ version >= 3 /\ c.src \cap c.tgt # {}
      BY DEF Overlapping
    <3>2. c.src = src[xf] /\ c.tgt = Tgt[xf] /\ Reading(xf)
      BY <1>7, <1>8, <3>1 DEF Reading
    <3> QED
      BY <3>1, <3>2
  <2> QED
    BY <1>10, <2>1, <2>2 DEF Served
<1>15. ASSUME E \cap ReadIn(Append(q, c)) = {}
       PROVE  Right(e, E, F, T \cup {xf})
  <2>1. E \cap ReadIn(q) = {} /\ E \cap Read(c) = {}
    BY <1>4, <1>15, ReadInAppend
  <2>2. Right(m, E, F, T)
    BY <1>1, <2>1 DEF Holds
  <2>3. ASSUME NEW b \in Read(c) PROVE m.device[b] = SourceData[b]
    <3>1. b \in c.src /\ b \notin UNION {r.blocks : r \in c.refs} /\ b \in Blocks \ E
      BY <1>4, <2>1, <2>3 DEF Read, Commands
    <3>2. style[xf] \in {"move", "bsdiff"}
      BY <1>6, <1>7, <3>1
    <3>3. b \in src[xf] \ Stashed(xf)
      BY <1>7, <3>1, <3>2 DEF Supplied
    <3>4. \A t \in T : b \notin Tgt[t]
      BY <3>3 DEF Readable
    <3> QED
      BY <2>2, <3>1, <3>4 DEF Right, Written
  <2>4. \A r \in c.refs : m.store[r.key] = HashBlocks(r.blocks)
    <3> TAKE r \in c.refs
    <3>1. PICK x \in F : x[1] = r.key /\ x[2] = HashBlocks(r.blocks)
      BY <1>10
    <3> QED
      BY <2>2, <3>1 DEF Right
  <2>5. Fetched(m, c) = HashBlocks(c.src)
    BY <1>4, <1>11, <2>3, <2>4, FetchedRight
  <2>6. e.sound
    <3>1. e.sound = SoundAfter(m, c) /\ m.sound
      BY <1>2, <2>2, AfterFields DEF Right
    <3> QED
      BY <2>5, <3>1 DEF SoundAfter
  <2>7. ASSUME NEW b \in Tgt[xf] PROVE e.device[b] = Wanted(xf, b)
    <3>1. CASE style[xf] \in {"new", "bsdiff"}
      <4>1. e.device[b] = Result(m, c, b)
        BY <1>7, <1>13, <2>7, <3>1
      <4> QED
        BY <1>8, <3>1, <4>1 DEF Result, Wanted
    <3>2. CASE style[xf] = "move"
      <4>1. e.device[b] = Result(m, c, b)
        BY <1>7, <1>13, <2>7, <3>2
      <4>2. Result(m, c, b) = HashBlocks(src[xf])[PlaceOf(b, Tgt[xf])]
        BY <1>7, <2>5, <3>2 DEF Result
      <4> QED
        BY <3>2, <4>1, <4>2 DEF Wanted
    <3>3. CASE style[xf] = "zero"
      <4>1. Wanted(xf, b) = Zeros
        BY <3>3 DEF Wanted
      <4>2. CASE b \in c.tgt
        BY <1>8, <1>13, <3>3, <4>1, <4>2 DEF Result
      <4>3. CASE b \notin c.tgt
        <5>1. b \in src[xf] /\ b \in Blocks \ E /\ \A t \in T : b \notin Tgt[t]
          BY <1>5, <1>7, <2>7, <3>3, <4>3
        <5>2. e.device[b] = m.device[b]
          BY <1>13, <4>3, <5>1
        <5>3. m.device[b] = SourceData[b]
          BY <2>2, <5>1 DEF Right, Written
        <5>4. SourceData[b] = Zeros
          BY <3>3, <5>1 DEF Readable
        <5> QED
          BY <4>1, <5>2, <5>3, <5>4
      <4> QED
        BY <4>2, <4>3
    <3> QED
      BY <1>6, <3>1, <3>2, <3>3
  <2>8. ASSUME NEW t \in T, NEW b \in Tgt[t] PROVE e.device[b] = Wanted(t, b)
    <3>1. b \in Blocks \ c.tgt
      BY <1>5, <1>8, <2>8, TgtAssumption
    <3>2. e.device[b] = m.device[b]
      BY <1>13, <3>1
    <3> QED
      BY <2>2, <3>2 DEF Right, Written
  <2>9. ASSUME NEW b \in Blocks \ E, \A t \in T \cup {xf} : b \notin Tgt[t]
        PROVE  e.device[b] = SourceData[b]
    <3>1. b \in Blocks \ c.tgt
      BY <1>8, <2>9
    <3>2. m.device[b] = SourceData[b]
      BY <2>2, <2>9 DEF Right, Written
    <3> QED
      BY <1>13, <3>1, <3>2
  <2>10. Written(e, E, T \cup {xf})
    BY <2>7, <2>8, <2>9 DEF Written
  <2>11. \A x \in F : e.store[x[1]] = x[2]
    BY <1>13, <2>2 DEF Right
  <2> QED
    BY <2>6, <2>10, <2>11 DEF Right
<1>16. Holds(e, E, Append(q, c), F, T \cup {xf})
  BY <1>1, <1>13, <1>15 DEF Holds
<1> QED
  BY <1>1, <1>2, <1>3, <1>4, <1>13, <1>14, <1>16, ReachesOn

-----------------------------------------------------------------------------
(* The files that the writer counts on.                                    *)

FilesOf(w) ==
    IF version >= 3 THEN {<<h, h>> : h \in BagToSet(w.refs)}
    ELSE {<<p[2], HashOf(p[1])>> : p \in w.ids}

LEMMA FilesAreFiles ==
    ASSUME NEW w \in Writers, NEW O, SlotsKept(w, O)
    PROVE  FilesOf(w) \in Files
<1>1. CASE version >= 3
  <2>1. BagToSet(w.refs) \in SUBSET Hashes
    BY CountersAreBags DEF Writers
  <2>2. FilesOf(w) = {<<h, h>> : h \in BagToSet(w.refs)}
    BY <1>1 DEF FilesOf
  <2>3. FilesOf(w) \in SUBSET (Keys \X Hashes)
    BY <2>1, <2>2 DEF Keys
  <2>4. \A x \in FilesOf(w) : x[1] = x[2] /\ x = <<x[1], x[2]>>
    BY <2>2
  <2>5. \A x, y \in FilesOf(w) : x[1] = y[1] => x = y
    BY <2>4
  <2> QED
    BY <2>3, <2>5 DEF Files
<1>2. CASE ~(version >= 3)
  <2>1. w.ids \in SUBSET (Stashes \X Nat)
    BY DEF Writers
  <2>2. FilesOf(w) = {<<p[2], HashOf(p[1])>> : p \in w.ids}
    BY <1>2 DEF FilesOf
  <2>3. FilesOf(w) \in SUBSET (Keys \X Hashes)
    <3>1. \A p \in w.ids : p[2] \in Keys /\ HashOf(p[1]) \in Hashes
      BY <2>1, StashHasBlocks DEF Keys
    <3> QED
      BY <2>2, <3>1
  <2>4. \A x, y \in FilesOf(w) : x[1] = y[1] => x = y
    <3> SUFFICES ASSUME NEW x \in FilesOf(w), NEW y \in FilesOf(w), x[1] = y[1] PROVE x = y
      OBVIOUS
    <3>1. PICK p \in w.ids : x = <<p[2], HashOf(p[1])>>
      BY <2>2
    <3>2. PICK r \in w.ids : y = <<r[2], HashOf(r[1])>>
      BY <2>2
    <3>3. p[2] = r[2]
      BY <3>1, <3>2
    <3>4. p = r
      BY <3>3 DEF SlotsKept
    <3> QED
      BY <3>1, <3>2, <3>4
  <2> QED
    BY <2>3, <2>4 DEF Files
<1> QED
  BY <1>1, <1>2

StashKey(w, s) == IF version = 2 THEN FreshSlot(w) ELSE HashOf(s)

(* A stash that is made adds a file, unless another one has its content.   *)
LEMMA FilesGrow ==
    ASSUME version \in 2..4, NEW w \in Writers, NEW O, SlotsKept(w, O),
           NEW s \in Stashes, NEW v, StashMade(v, w, s)
    PROVE  /\ Sharer(w, s) => FilesOf(v) = FilesOf(w)
           /\ ~Sharer(w, s) =>
                 /\ FilesOf(v) = FilesOf(w) \cup {<<StashKey(w, s), HashOf(s)>>}
                 /\ StashKey(w, s) \notin {x[1] : x \in FilesOf(w)}
                 /\ StashKey(w, s) \in Keys
<1>1. PICK h : h = HashOf(s) /\ h \in Hashes
  BY StashHasBlocks
<1>2. CASE version # 2
  <2>1. version >= 3 /\ StashKey(w, s) = h /\ (Sharer(w, s) <=> BagIn(h, w.refs))
    BY <1>1, <1>2 DEF StashKey, Sharer
  <2>2. v.refs = w.refs (+) SetToBag({h}) /\ w.refs \in Counters
    BY <1>1, <1>2 DEF StashMade, Writers
  <2>3. BagToSet(v.refs) = BagToSet(w.refs) \cup {h}
    BY <1>1, <2>2, OneMoreWaits
  <2>4. PICK B : B = BagToSet(w.refs)
    OBVIOUS
  <2>5. FilesOf(w) = {<<g, g>> : g \in B} /\ FilesOf(v) = {<<g, g>> : g \in B \cup {h}}
    BY <2>1, <2>3, <2>4 DEF FilesOf
  <2>6. BagIn(h, w.refs) <=> h \in B
    BY <2>4 DEF BagIn
  <2>7. \A x \in FilesOf(w) : x[1] \in B
    BY <2>5
  <2>8. h \in B => FilesOf(v) = FilesOf(w)
    BY <2>5
  <2>9. FilesOf(v) = FilesOf(w) \cup {<<h, h>>}
    BY <2>5
  <2> QED
    BY <1>1, <2>1, <2>6, <2>7, <2>8, <2>9 DEF Keys
<1>3. CASE version = 2
  <2>1. PICK id : id = FreshSlot(w) /\ id \in Nat /\ (w.free # {} => id \in w.free)
    BY FreshIsNat
  <2>2. ~Sharer(w, s) /\ StashKey(w, s) = id
    BY <1>3, <2>1 DEF Sharer, StashKey
  <2>3. w.ids \in SUBSET (Stashes \X Nat) /\ w.next \in Nat /\ w.free \in SUBSET Nat
    BY DEF Writers
  <2>4. PICK T : T = {p[2] : p \in w.ids}
    OBVIOUS
  <2>5. T \cap w.free = {} /\ T \cup w.free = 0..(w.next - 1)
    BY <2>4 DEF SlotsKept
  <2>6. w.free = {} => id = w.next
    BY <2>1 DEF FreshSlot
  <2>7. id \notin T
    BY <2>1, <2>3, <2>5, <2>6
  <2>8. PICK e : e = <<s, id>> /\ e[1] = s /\ e[2] = id /\ v.ids = w.ids \cup {e}
    BY <2>1 DEF StashMade
  <2>9. /\ FilesOf(w) = {<<p[2], HashOf(p[1])>> : p \in w.ids}
        /\ FilesOf(v) = {<<p[2], HashOf(p[1])>> : p \in v.ids}
    BY <1>3 DEF FilesOf
  <2>10. FilesOf(v) = FilesOf(w) \cup {<<id, h>>}
    BY <1>1, <2>8, <2>9
  <2>11. \A x \in FilesOf(w) : x[1] \in T
    BY <2>4, <2>9
  <2> QED
    BY <1>1, <2>1, <2>2, <2>7, <2>10, <2>11 DEF Keys
<1> QED
  BY <1>2, <1>3

TakeKey(w, s) == IF version = 2 THEN SlotOf(w, s) ELSE HashOf(s)

LEMMA FileThere ==
    ASSUME version \in 2..4, NEW w \in Writers, NEW O \in SUBSET Stashes, SlotsKept(w, O),
           CountsKept(w, O), version \in Versions, NEW s \in O
    PROVE  /\ <<TakeKey(w, s), HashOf(s)>> \in FilesOf(w)
           /\ TakeKey(w, s) = Key(w, s)
           /\ version # 2 => BagIn(HashOf(s), w.refs)
<1>0. version >= 2
  OBVIOUS
<1>1. version # 2 => BagIn(HashOf(s), w.refs)
  BY <1>0, CountsShrink
<1>2. TakeKey(w, s) = Key(w, s)
  BY DEF TakeKey, Key, HashOf
<1>3. CASE version # 2
  <2>1. version >= 3 /\ HashOf(s) \in BagToSet(w.refs)
    BY <1>1, <1>3 DEF BagIn
  <2> QED
    BY <1>1, <1>2, <1>3, <2>1 DEF TakeKey, FilesOf
<1>4. CASE version = 2
  <2>1. <<s, SlotOf(w, s)>> \in w.ids
    BY SlotsShrink
  <2>2. PICK p \in w.ids : p = <<s, SlotOf(w, s)>> /\ p[1] = s /\ p[2] = SlotOf(w, s)
    BY <2>1
  <2>3. FilesOf(w) = {<<r[2], HashOf(r[1])>> : r \in w.ids}
    BY <1>4 DEF FilesOf
  <2> QED
    BY <1>1, <1>2, <1>4, <2>2, <2>3 DEF TakeKey
<1> QED
  BY <1>3, <1>4

(* A stash that is used takes its file away, unless others wait for it.    *)
LEMMA FilesShrink ==
    ASSUME version \in 2..4, NEW w \in Writers, NEW O \in SUBSET Stashes, SlotsKept(w, O),
           CountsKept(w, O), version \in Versions, NEW s \in O, NEW v, StashTaken(v, w, s)
    PROVE  \/ FilesOf(v) = FilesOf(w) /\ v.frees = w.frees /\ v.freeSize = w.freeSize
           \/ /\ FilesOf(v) = FilesOf(w) \ {<<TakeKey(w, s), HashOf(s)>>}
              /\ v.frees = Append(w.frees, FreeCommand(w, s))
              /\ v.freeSize = w.freeSize + Cardinality(s.blocks)
<1>1. PICK h : h = HashOf(s) /\ h \in Hashes
  BY StashHasBlocks
<1>2. CASE version # 2
  <2>1. version >= 3 /\ TakeKey(w, s) = h /\ BagIn(h, w.refs)
    <3>1. version # 2 => BagIn(HashOf(s), w.refs)
      BY FileThere
    <3> QED
      BY <1>1, <1>2, <3>1 DEF TakeKey
  <2>2. v.refs = w.refs (-) SetToBag({h}) /\ w.refs \in Counters
    BY <1>1, <1>2 DEF StashTaken, Left, Writers
  <2>3. /\ BagIn(h, v.refs) => BagToSet(v.refs) = BagToSet(w.refs)
        /\ ~BagIn(h, v.refs) => BagToSet(v.refs) = BagToSet(w.refs) \ {h}
    BY <1>1, <2>1, <2>2, OneLessWaits
  <2>4. PICK B, C : B = BagToSet(w.refs) /\ C = BagToSet(v.refs)
    OBVIOUS
  <2>5. FilesOf(w) = {<<g, g>> : g \in B} /\ FilesOf(v) = {<<g, g>> : g \in C}
    BY <2>1, <2>4 DEF FilesOf
  <2>6. v.refs = Left(w, s)
    BY DEF StashTaken
  <2>7. CASE BagIn(h, v.refs)
    <3>1. FilesOf(v) = FilesOf(w)
      BY <2>3, <2>4, <2>5, <2>7
    <3>2. v.frees = w.frees /\ v.freeSize = w.freeSize
      BY <1>1, <1>2, <2>6, <2>7 DEF StashTaken
    <3> QED
      BY <3>1, <3>2
  <2>8. CASE ~BagIn(h, v.refs)
    <3>1. C = B \ {h}
      BY <2>3, <2>4, <2>8
    <3>2. \A g : <<g, g>> = <<h, h>> => g = h
      OBVIOUS
    <3>3. FilesOf(v) = FilesOf(w) \ {<<h, h>>}
      BY <2>5, <3>1, <3>2
    <3>4. /\ v.frees = Append(w.frees, FreeCommand(w, s))
          /\ v.freeSize = w.freeSize + Cardinality(s.blocks)
      BY <1>1, <1>2, <2>6, <2>8 DEF StashTaken
    <3> QED
      BY <1>1, <2>1, <3>3, <3>4
  <2> QED
    BY <2>7, <2>8
<1>3. CASE version = 2
  <2>1. PICK id : id = SlotOf(w, s) /\ <<s, id>> \in w.ids /\ TakeKey(w, s) = id
    BY <1>3, SlotsShrink DEF TakeKey
  <2>2. PICK e : e = <<s, id>> /\ e \in w.ids /\ e[1] = s /\ e[2] = id
    BY <2>1
  <2>3. v.ids = w.ids \ {e}
    BY <2>1, <2>2 DEF StashTaken
  <2>4. /\ FilesOf(w) = {<<p[2], HashOf(p[1])>> : p \in w.ids}
        /\ FilesOf(v) = {<<p[2], HashOf(p[1])>> : p \in v.ids}
    BY <1>3 DEF FilesOf
  <2>5. \A p \in w.ids : p[2] = id => p = e
    BY <2>2 DEF SlotsKept
  <2>6. \A p : <<p[2], HashOf(p[1])>> = <<id, h>> => p[2] = id
    OBVIOUS
  <2>7. \A p \in w.ids : p \in v.ids <=> <<p[2], HashOf(p[1])>> # <<id, h>>
    BY <1>1, <2>2, <2>3, <2>5, <2>6
  <2>8. FilesOf(v) = FilesOf(w) \ {<<id, h>>}
    BY <2>3, <2>4, <2>7
  <2>9. /\ v.frees = Append(w.frees, FreeCommand(w, s))
        /\ v.freeSize = w.freeSize + Cardinality(s.blocks)
    BY <1>3 DEF StashTaken
  <2> QED
    BY <1>1, <2>1, <2>8, <2>9
<1> QED
  BY <1>2, <1>3

-----------------------------------------------------------------------------
(* The passes of the two loops of WriteTransfers, as the updater runs what *)
(* they write.                                                             *)

LEMMA MakeRuns ==
    ASSUME version \in 2..4, NEW w \in Writers, NEW O, SlotsKept(w, O), NEW s \in Stashes,
           s.blocks # {}, NEW v, StashMade(v, w, s), NEW E, NEW T \in SUBSET Transfers,
           NEW n \in Nat, w.stashed \in Nat, v.stashed <= n,
           \A t \in T : Tgt[t] \cap s.blocks = {},
           Reaches(E, w.out, FilesOf(w), w.stashed, T, n)
    PROVE  Reaches(E, v.out, FilesOf(v), v.stashed, T, n)
<1>1. CASE Sharer(w, s)
  <2>1. FilesOf(v) = FilesOf(w)
    BY <1>1, FilesGrow
  <2>2. v.out = w.out /\ v.stashed = w.stashed
    BY <1>1 DEF StashMade
  <2> QED
    BY <2>1, <2>2
<1>2. CASE ~Sharer(w, s)
  <2>1. PICK F, key, c, q, u : F = FilesOf(w) /\ key = StashKey(w, s) /\ c = StashCommand(w, s)
                               /\ q = w.out /\ u = w.stashed
    OBVIOUS
  <2>2. F \in Files
    BY <2>1, FilesAreFiles
  <2>3. FilesOf(v) = F \cup {<<key, HashOf(s)>>} /\ key \notin {x[1] : x \in F} /\ key \in Keys
    BY <1>2, <2>1, FilesGrow
  <2>4. c \in Commands
    BY <2>1, StashCommandType
  <2>5. c = Command("stash", {}, s.blocks, key, {})
    BY <2>1 DEF StashCommand, StashKey
  <2>6. q \in Seq(Commands)
    BY <2>1 DEF Writers
  <2>7. v.out = Append(q, c) /\ v.stashed = u + Cardinality(s.blocks)
    BY <1>2, <2>1 DEF StashMade
  <2>8. u + Cardinality(s.blocks) <= n
    BY <2>7
  <2>9. Reaches(E, q, F, u, T, n) /\ u \in Nat
    BY <2>1
  <2>10. Reaches(E, Append(q, c), F \cup {<<key, HashOf(s)>>}, u + Cardinality(s.blocks), T, n)
    BY <2>2, <2>3, <2>4, <2>5, <2>6, <2>8, <2>9, StashRuns
  <2> QED
    BY <2>3, <2>7, <2>10
<1> QED
  BY <1>1, <1>2

LEMMA AppendConcat ==
    \A p, q \in Seq(Commands) : \A c \in Commands :
        /\ p \o Append(q, c) = Append(p \o q, c)
        /\ p \o q \in Seq(Commands)
<1> TAKE p, q \in Seq(Commands)
<1> TAKE c \in Commands
<1>1. PICK m, n : m = Len(p) /\ n = Len(q)
  OBVIOUS
<1>2. m \in Nat /\ n \in Nat /\ p \o q \in Seq(Commands) /\ Append(q, c) \in Seq(Commands)
  BY <1>1
<1>3. Len(p \o Append(q, c)) = m + n + 1 /\ Len(Append(p \o q, c)) = m + n + 1
  BY <1>1
<1>4. ASSUME NEW i \in 1..(m + n + 1)
      PROVE  (p \o Append(q, c))[i] = Append(p \o q, c)[i]
  <2>1. CASE i <= m
    BY <1>1, <1>2, <2>1
  <2>2. CASE i > m /\ i <= m + n
    BY <1>1, <1>2, <2>2
  <2>3. CASE i = m + n + 1
    BY <1>1, <1>2, <2>3
  <2>4. i <= m \/ (i > m /\ i <= m + n) \/ i = m + n + 1
    BY <1>2
  <2> QED
    BY ONLY <2>1, <2>2, <2>3, <2>4
<1>5. p \o Append(q, c) \in Seq(Commands) /\ Append(p \o q, c) \in Seq(Commands)
  BY <1>2
<1>6. PICK x, y : x = p \o Append(q, c) /\ y = Append(p \o q, c)
  OBVIOUS
<1>7. x \in Seq(Commands) /\ y \in Seq(Commands) /\ Len(x) = m + n + 1 /\ Len(y) = m + n + 1
      /\ \A i \in 1..(m + n + 1) : x[i] = y[i]
  BY <1>3, <1>4, <1>5, <1>6
<1>8. x = y
  <2>1. DOMAIN x = 1..(m + n + 1) /\ DOMAIN y = 1..(m + n + 1)
    BY <1>7
  <2>2. x = [i \in DOMAIN x |-> x[i]] /\ y = [i \in DOMAIN y |-> y[i]]
    BY <1>7
  <2> QED
    BY ONLY <1>7, <2>1, <2>2
<1> QED
  BY <1>2, <1>6, <1>8

LEMMA TakeRuns ==
    ASSUME version \in 2..4, version \in Versions, NEW w \in Writers, NEW O \in SUBSET Stashes,
           SlotsKept(w, O), CountsKept(w, O), NEW s \in O, NEW v, StashTaken(v, w, s),
           NEW E, NEW T \in SUBSET Transfers, NEW n \in Nat, NEW p \in Seq(Commands),
           w.stashed - w.freeSize \in Nat,
           Reaches(E, p \o w.frees, FilesOf(w), w.stashed - w.freeSize, T, n)
    PROVE  /\ Reaches(E, p \o v.frees, FilesOf(v), v.stashed - v.freeSize, T, n)
           /\ v.stashed - v.freeSize \in Nat
<1>1. v.stashed = w.stashed
  BY DEF StashTaken
<1>2. CASE FilesOf(v) = FilesOf(w) /\ v.frees = w.frees /\ v.freeSize = w.freeSize
  BY <1>1, <1>2
<1>3. CASE /\ FilesOf(v) = FilesOf(w) \ {<<TakeKey(w, s), HashOf(s)>>}
           /\ v.frees = Append(w.frees, FreeCommand(w, s))
           /\ v.freeSize = w.freeSize + Cardinality(s.blocks)
  <2>1. PICK F, key, h, c, f, u : F = FilesOf(w) /\ key = TakeKey(w, s) /\ h = HashOf(s)
                               /\ c = FreeCommand(w, s)
                               /\ f = w.frees /\ u = w.stashed - w.freeSize
    OBVIOUS
  <2>2. F \in Files
    BY <2>1, FilesAreFiles
  <2>3. <<key, h>> \in F
    BY <2>1, FileThere
  <2>4. PICK x : x = <<key, h>> /\ x[1] = key /\ x[2] = h
    <3>1. <<key, h>>[1] = key /\ <<key, h>>[2] = h
      OBVIOUS
    <3> QED
      BY ONLY <3>1
  <2>5. x \in F
    BY <2>3, <2>4
  <2>6. v \in Writers /\ v.frees \in Seq(Commands) /\ f \in Seq(Commands)
    BY <2>1 DEF StashTaken, Writers
  <2>7. v.frees = Append(f, c)
    BY <1>3, <2>1
  <2>8. c = Command("free", {}, {}, key, {})
    BY <2>1 DEF FreeCommand, TakeKey
  <2>9. c \in Commands
    <3>1. key \in Keys
      BY <2>2, <2>4, <2>5 DEF Files
    <3> QED
      BY <2>8, <3>1 DEF Command, Commands
  <2>10. p \o Append(f, c) = Append(p \o f, c) /\ p \o f \in Seq(Commands)
    BY <2>6, <2>9, AppendConcat
  <2>11. Reaches(E, p \o f, F, u, T, n) /\ u \in Nat
    BY <2>1
  <2>12. /\ Reaches(E, Append(p \o f, c), F \ {x}, u - Len(x[2]), T, n)
         /\ u - Len(x[2]) \in Nat
    <3>1. PICK q : q = p \o f
      OBVIOUS
    <3>2. q \in Seq(Commands) /\ Reaches(E, q, F, u, T, n)
      BY <2>10, <2>11, <3>1
    <3>3. c = Command("free", {}, {}, x[1], {})
      BY <2>4, <2>8
    <3>4. /\ Reaches(E, Append(q, c), F \ {x}, u - Len(x[2]), T, n)
          /\ u - Len(x[2]) \in Nat
      BY <2>2, <2>5, <2>9, <2>11, <3>2, <3>3, FreeRuns
    <3> QED
      BY <3>1, <3>4
  <2>13. Len(h) = Cardinality(s.blocks) /\ Cardinality(s.blocks) \in Nat
    <3>1. s.blocks \in SUBSET Blocks
      BY StashHasBlocks
    <3> QED
      BY <2>1, <3>1, HashLength, BlocksCount DEF HashOf
  <2>14. v.stashed - v.freeSize = u - Len(x[2])
    <3>1. w.stashed \in Int /\ w.freeSize \in Nat
      BY DEF Writers
    <3> QED
      BY <1>1, <1>3, <2>1, <2>4, <2>13, <3>1
  <2>15. FilesOf(v) = F \ {x} /\ p \o v.frees = Append(p \o f, c)
    BY <1>3, <2>1, <2>4, <2>7, <2>10
  <2> QED
    BY <2>12, <2>14, <2>15
<1> QED
  <2>1. \/ FilesOf(v) = FilesOf(w) /\ v.frees = w.frees /\ v.freeSize = w.freeSize
        \/ /\ FilesOf(v) = FilesOf(w) \ {<<TakeKey(w, s), HashOf(s)>>}
           /\ v.frees = Append(w.frees, FreeCommand(w, s))
           /\ v.freeSize = w.freeSize + Cardinality(s.blocks)
    BY FilesShrink
  <2> QED
    BY <1>2, <1>3, <2>1

-----------------------------------------------------------------------------
(* One round of WriteTransfers, as the updater runs what it writes.        *)

Done(i) == {t \in Transfers : order[t] < i}

(* What is written so far can be run, whatever is erased before it, and    *)
(* leads to the files that the writer counts on.                           *)
Runs(w, i) ==
    \A E \in SUBSET NewDontCare :
        Reaches(E, w.out, FilesOf(w), w.stashed, Done(i), w.peak)

(* A transfer of the zero domain reads nothing but zeros.                  *)
ZerosKept == \A t \in Transfers : style[t] = "zero" => \A b \in src[t] : SourceData[b] = Zeros

LEMMA StashedGrows ==
    ASSUME NEW q \in Seq(Stashes), NEW k,
           \A i \in 1..Len(q) : k[i-1] \in Writers /\ StashMade(k[i], k[i-1], q[i]),
           k[Len(q)].stashed \in Int
    PROVE  \A i \in 0..Len(q) : k[i].stashed <= k[Len(q)].stashed
<1>1. PICK n : n = Len(q) /\ n \in Nat
  OBVIOUS
<1> DEFINE B == {i \in 0..n : k[n-i].stashed <= k[n].stashed /\ k[n-i].stashed \in Int}
<1>2. 0 \in B
  BY <1>1
<1>3. ASSUME NEW i \in 1..n, i - 1 \in B PROVE i \in B
  <2>0. n \in Nat /\ i \in 1..n
    BY <1>1
  <2>1. PICK j : j = n - (i - 1) /\ j \in 1..n /\ n - i = j - 1
    BY ONLY <2>0
  <2>2. PICK u, v, s : u = k[j-1] /\ v = k[j] /\ s = q[j]
    OBVIOUS
  <2>3. u \in Writers /\ StashMade(v, u, s) /\ s \in Stashes
    BY <1>1, <2>1, <2>2
  <2>4. v.stashed <= k[n].stashed /\ v.stashed \in Int
    BY <1>3, <2>1, <2>2
  <2>5. u.stashed \in Int /\ Cardinality(s.blocks) \in Nat
    BY <2>3, StashHasBlocks DEF Writers
  <2>6. u.stashed <= v.stashed
    BY <2>3, <2>5 DEF StashMade
  <2>7. k[n].stashed \in Int
    BY <1>1
  <2>8. u.stashed <= k[n].stashed
    BY <2>4, <2>5, <2>6, <2>7
  <2> QED
    BY <1>1, <2>1, <2>2, <2>5, <2>8
<1>4. B = 0..n
  <2>1. B \in SUBSET (0..n)
    OBVIOUS
  <2> HIDE DEF B
  <2> QED
    BY <1>1, <1>2, <1>3, <2>1, UpTo
<1>5. ASSUME NEW i \in 0..n PROVE k[i].stashed <= k[n].stashed
  <2>1. n - i \in 0..n /\ n - (n - i) = i
    BY <1>1
  <2>2. n - i \in B
    BY <1>4, <2>1
  <2> QED
    BY <2>1, <2>2
<1> QED
  BY <1>1, <1>5

LEMMA MakingRuns ==
    ASSUME Settled, idx \in DOMAIN transfers, WriterSound(wr, Outstanding), wr.stashed \in Nat,
           NEW E, NEW n \in Nat, MadeNow.stashed <= n, wr.peak <= n,
           Reaches(E, wr.out, FilesOf(wr), wr.stashed, Done(idx), wr.peak)
    PROVE  /\ Reaches(E, MadeNow.out, FilesOf(MadeNow), MadeNow.stashed, Done(idx), n)
           /\ MadeNow.stashed \in Nat
<1>1. PICK xf, q, T, O : xf = Current /\ q = stashBefore[xf] /\ T = Done(idx) /\ O = Outstanding
  OBVIOUS
<1>2. /\ xf \in Transfers /\ order[xf] = idx /\ version \in Versions /\ q \in Seq(Stashes)
      /\ Placed(q) = StashesMade(xf) /\ (version = 1 => q = <<>>)
  BY <1>1, RoundStashes
<1>3. PICK k : MakingRun(k)
  BY RoundMakes
<1>4. Len(q) \in Nat /\ DOMAIN q = 1..Len(q)
  BY <1>2
<1>5. /\ k[0] = Rested(wr) /\ MadeNow = k[Len(q)]
      /\ \A i \in 0..Len(q) : MadeUpTo(k, q, O, i)
      /\ \A i \in 1..Len(q) : k[i-1] \in Writers /\ StashMade(k[i], k[i-1], q[i])
  BY <1>1, <1>3 DEF MakingRun, Passes
<1>6. wr \in Writers /\ wr.out \in Seq(Commands) /\ wr.peak \in Nat
  BY DEF WriterSound, Writers
<1>7. MadeNow.stashed \in Int
  <2>1. Len(q) \in 0..Len(q)
    BY <1>4
  <2>2. MadeNow \in Writers
    BY <1>5, <2>1 DEF MadeUpTo
  <2> QED
    BY <2>2 DEF Writers
<1>8. \A i \in 0..Len(q) : k[i].stashed <= MadeNow.stashed
  BY <1>2, <1>5, <1>7, StashedGrows
<1>9. ASSUME NEW i \in 1..Len(q)
      PROVE  /\ q[i] \in Stashes /\ q[i].blocks # {} /\ \A t \in T : Tgt[t] \cap q[i].blocks = {}
             /\ version \in 2..4
  <2>1. PICK s : s = q[i] /\ s \in Stashes /\ s \in StashesMade(xf)
    BY <1>2, <1>4 DEF Placed
  <2>2. s.def = xf /\ s.use \in Transfers /\ s \in useStash[s.use]
    BY <1>2, <2>1 DEF Settled, PlanPaired, Stashes
  <2>3. s.blocks # {} /\ s.blocks = src[s.use] \cap Tgt[xf]
    BY <2>2 DEF Settled, StashesNeeded
  <2>4. ASSUME NEW t \in T PROVE Tgt[t] \cap s.blocks = {}
    <3>1. t \in Transfers /\ order[t] < idx /\ idx \in Nat
      BY <1>1 DEF Done, Settled, PlanOrdered
    <3>2. t # xf
      BY <1>2, <3>1
    <3>3. Tgt[t] \cap Tgt[xf] = {}
      BY <1>2, <3>1, <3>2, TgtAssumption
    <3> QED
      BY <2>3, <3>3
  <2>5. version \in 2..4
    <3>1. version # 1
      BY <1>2, <1>4
    <3> QED
      BY <1>2, <3>1, VersionAssumption
  <2> QED
    BY <2>1, <2>3, <2>4, <2>5
<1> DEFINE B == {i \in 0..Len(q) : /\ Reaches(E, k[i].out, FilesOf(k[i]), k[i].stashed, T, n)
                                   /\ k[i].stashed \in Nat}
<1>10. 0 \in B
  <2>1. PICK w : w = k[0] /\ w = Rested(wr)
    BY <1>5
  <2>2. w.out = wr.out /\ w.stashed = wr.stashed /\ w.ids = wr.ids /\ w.refs = wr.refs
    BY <1>6, <2>1, RestedWriter
  <2>3. FilesOf(w) = FilesOf(wr)
    BY <2>2 DEF FilesOf
  <2>4. Reaches(E, wr.out, FilesOf(wr), wr.stashed, T, n)
    BY <1>1, <1>6, ReachesWider
  <2>5. Reaches(E, w.out, FilesOf(w), w.stashed, T, n) /\ w.stashed \in Nat
    BY <2>2, <2>3, <2>4
  <2>6. 0 \in 0..Len(q)
    BY <1>4
  <2>7. Reaches(E, k[0].out, FilesOf(k[0]), k[0].stashed, T, n) /\ k[0].stashed \in Nat
    BY <2>1, <2>5
  <2> QED
    BY <2>6, <2>7
<1>11. ASSUME NEW i \in 1..Len(q), i - 1 \in B PROVE i \in B
  <2>1. PICK u, v, s, P : u = k[i-1] /\ v = k[i] /\ s = q[i] /\ P = O \cup FirstOf(q, i - 1)
    OBVIOUS
  <2>2. i \in 0..Len(q) /\ i - 1 \in 0..Len(q)
    BY <1>4
  <2>3. u \in Writers /\ SlotsKept(u, P) /\ StashMade(v, u, s) /\ v.stashed <= MadeNow.stashed
    BY <1>5, <1>8, <2>1, <2>2 DEF MadeUpTo
  <2>4. /\ s \in Stashes /\ s.blocks # {} /\ \A t \in T : Tgt[t] \cap s.blocks = {}
        /\ version \in 2..4
    BY <1>9, <2>1
  <2>5. Reaches(E, u.out, FilesOf(u), u.stashed, T, n) /\ u.stashed \in Nat
    BY <1>11, <2>1
  <2>6. v.stashed \in Int
    BY <2>3 DEF StashMade, Writers
  <2>7. v.stashed <= n
    BY <1>7, <2>3, <2>6
  <2>8. v.stashed \in Nat
    <3>1. Cardinality(s.blocks) \in Nat
      BY <2>4, StashHasBlocks
    <3> QED
      BY <2>3, <2>5, <3>1 DEF StashMade
  <2>9. T \in SUBSET Transfers
    BY <1>1 DEF Done
  <2>10. Reaches(E, v.out, FilesOf(v), v.stashed, T, n)
    BY <2>3, <2>4, <2>5, <2>7, <2>9, MakeRuns
  <2> QED
    BY <2>1, <2>2, <2>8, <2>10
<1>12. B = 0..Len(q)
  <2>1. B \in SUBSET (0..Len(q))
    OBVIOUS
  <2> HIDE DEF B
  <2> QED
    BY <1>4, <1>10, <1>11, <2>1, UpTo
<1>13. Len(q) \in B
  BY <1>4, <1>12
<1> QED
  BY <1>1, <1>5, <1>13

(* The stashes that a transfer is told to read.                            *)
LEMMA RoundSupplies ==
    ASSUME Settled, idx \in DOMAIN transfers, WriterSound(wr, Outstanding), cache \in Caches
    PROVE  Supplied(NamesNow, FilesOf(FullNow), Current)
<1>1. PICK xf, w, O, F, R : xf = Current /\ w = FullNow /\ O = LiveAt(idx) /\ F = FilesOf(w)
                            /\ R = NamesNow
  OBVIOUS
<1>2. /\ O \in SUBSET Stashes /\ useStash[xf] \subseteq O /\ version \in Versions
      /\ useStash[xf] # {} => version >= 2
  BY <1>1, RoundStashes
<1>3. w \in Writers /\ SlotsKept(w, O) /\ CountsKept(w, O)
  BY <1>1, RoundPeaks
<1>4. R = {[key |-> Key(w, s), blocks |-> s.blocks] : s \in useStash[xf]}
  BY <1>1 DEF NamesNow
<1>5. ASSUME NEW r \in R PROVE \E x \in F : x[1] = r.key /\ x[2] = HashBlocks(r.blocks)
  <2>1. PICK s \in useStash[xf] : r = [key |-> Key(w, s), blocks |-> s.blocks]
    BY <1>4
  <2>2. s \in O /\ version \in 2..4
    BY <1>2, VersionAssumption
  <2>3. <<TakeKey(w, s), HashOf(s)>> \in F /\ TakeKey(w, s) = Key(w, s)
    BY <1>1, <1>2, <1>3, <2>2, FileThere
  <2>4. PICK key, h : key = TakeKey(w, s) /\ h = HashOf(s)
    OBVIOUS
  <2>5. <<key, h>>[1] = key /\ <<key, h>>[2] = h
    OBVIOUS
  <2>6. PICK x : x = <<key, h>> /\ x[1] = key /\ x[2] = h
    BY ONLY <2>5
  <2>7. x \in F
    BY <2>3, <2>4, <2>6
  <2>8. r.key = key /\ HashBlocks(r.blocks) = h
    BY <2>1, <2>3, <2>4 DEF HashOf
  <2> QED
    BY <2>6, <2>7, <2>8
<1>6. UNION {r.blocks : r \in R} = Stashed(xf)
  <2>1. \A r \in R : \E s \in useStash[xf] : r.blocks = s.blocks
    BY <1>4
  <2>2. \A s \in useStash[xf] : \E r \in R : r.blocks = s.blocks
    <3> TAKE s \in useStash[xf]
    <3>1. PICK r : r = [key |-> Key(w, s), blocks |-> s.blocks]
      OBVIOUS
    <3>2. r \in R /\ r.blocks = s.blocks
      BY <1>4, <3>1
    <3> QED
      BY <3>2
  <2> QED
    BY <2>1, <2>2 DEF Stashed
<1>7. R \in SUBSET Names
  BY <1>1, RoundNames
<1> QED
  BY <1>1, <1>5, <1>6, <1>7 DEF Supplied

LEMMA RoundReads ==
    ASSUME Settled, idx \in DOMAIN transfers, ZerosKept
    PROVE  /\ Readable(Current, Done(idx)) /\ Current \notin Done(idx)
           /\ Done(idx + 1) = Done(idx) \cup {Current}
<1>1. PICK xf : xf = Current /\ xf \in Transfers /\ order[xf] = idx /\ transfers[idx] = xf
  BY RoundStashes DEF Current
<1>2. /\ order \in [Transfers -> Nat] /\ idx \in Nat
      /\ \A t \in Transfers : order[t] \in DOMAIN transfers /\ transfers[order[t]] = t
  BY DEF Settled, PlanOrdered
<1>3. ASSUME NEW t \in Done(idx) PROVE Tgt[t] \cap (src[xf] \ Stashed(xf)) = {}
  <2>1. t \in Transfers /\ order[t] < idx
    BY DEF Done
  <2>2. PICK i : i = order[t] /\ i \in DOMAIN transfers /\ transfers[i] = t /\ i < idx
    BY <1>2, <2>1
  <2>3. Tgt[transfers[i]] \cap (src[transfers[idx]] \ Stashed(transfers[idx])) = {}
    BY <2>2 DEF Settled, SequenceGood
  <2> QED
    BY <1>1, <2>2, <2>3
<1>4. Readable(xf, Done(idx))
  BY <1>1, <1>3 DEF Readable, ZerosKept
<1>5. xf \notin Done(idx)
  BY <1>1, <1>2 DEF Done
<1>6. Done(idx + 1) = Done(idx) \cup {xf}
  <2>1. ASSUME NEW t \in Transfers PROVE order[t] < idx + 1 <=> order[t] < idx \/ t = xf
    <3>1. order[t] = idx => t = xf
      BY <1>1, <1>2
    <3>2. order[t] \in Nat
      BY <1>2
    <3> QED
      BY <1>1, <1>2, <3>1, <3>2
  <2> QED
    BY <1>1, <2>1 DEF Done
<1> QED
  BY <1>1, <1>4, <1>5, <1>6

LEMMA TakingRuns ==
    ASSUME Settled, idx \in DOMAIN transfers, WriterSound(wr, Outstanding), cache \in Caches,
           NEW E, NEW n \in Nat, NEW T \in SUBSET Transfers, NEW p \in Seq(Commands),
           FullNow.stashed \in Nat, Reaches(E, p, FilesOf(FullNow), FullNow.stashed, T, n)
    PROVE  /\ Reaches(E, p \o UsedNow.frees, FilesOf(UsedNow),
                      UsedNow.stashed - UsedNow.freeSize, T, n)
           /\ UsedNow.stashed - UsedNow.freeSize \in Nat
<1>1. PICK xf, q, O : xf = Current /\ q = SetToSeq(useStash[xf]) /\ O = LiveAt(idx)
  OBVIOUS
<1>2. /\ O \in SUBSET Stashes /\ useStash[xf] \subseteq O /\ version \in Versions
      /\ useStash[xf] # {} => version >= 2
  BY <1>1, RoundStashes
<1>3. IsFiniteSet(useStash[xf])
  BY <1>2, StashesFinite, FS_Subset
<1>4. q \in Seq(useStash[xf]) /\ Injective(q)
  BY <1>1, <1>3, SetIsListed
<1>5. Len(q) \in Nat /\ DOMAIN q = 1..Len(q)
  BY <1>4
<1>6. PICK k : TakingRun(k)
  BY RoundTakes
<1>7. /\ k[0] = FullNow /\ UsedNow = k[Len(q)]
      /\ \A i \in 0..Len(q) : TakenUpTo(k, q, O, i)
      /\ \A i \in 1..Len(q) : k[i-1] \in Writers /\ StashTaken(k[i], k[i-1], q[i])
  BY <1>1, <1>6 DEF TakingRun, Passes
<1> DEFINE B == {i \in 0..Len(q) :
                   /\ Reaches(E, p \o k[i].frees, FilesOf(k[i]),
                              k[i].stashed - k[i].freeSize, T, n)
                   /\ k[i].stashed - k[i].freeSize \in Nat}
<1>8. 0 \in B
  <2>1. FullNow.frees = <<>> /\ FullNow.freeSize = 0
    BY RoundPeaks
  <2>2. p \o <<>> = p /\ FullNow.stashed - 0 = FullNow.stashed
    OBVIOUS
  <2>3. Reaches(E, p \o FullNow.frees, FilesOf(FullNow), FullNow.stashed - FullNow.freeSize, T, n)
        /\ FullNow.stashed - FullNow.freeSize \in Nat
    BY <2>1, <2>2
  <2>4. /\ Reaches(E, p \o k[0].frees, FilesOf(k[0]), k[0].stashed - k[0].freeSize, T, n)
        /\ k[0].stashed - k[0].freeSize \in Nat
    BY <1>7, <2>3
  <2>5. 0 \in 0..Len(q)
    BY <1>5
  <2> QED
    BY <2>4, <2>5
<1>9. ASSUME NEW i \in 1..Len(q), i - 1 \in B PROVE i \in B
  <2>1. PICK u, v, s, P : u = k[i-1] /\ v = k[i] /\ s = q[i] /\ P = O \ FirstOf(q, i - 1)
    OBVIOUS
  <2>2. i \in 0..Len(q) /\ i - 1 \in 0..Len(q)
    BY <1>5
  <2>3. u \in Writers /\ SlotsKept(u, P) /\ CountsKept(u, P) /\ StashTaken(v, u, s)
    BY <1>7, <2>1, <2>2 DEF TakenUpTo
  <2>4. s \in P /\ P \in SUBSET Stashes
    <3>1. q[i] \in useStash[xf] /\ q[i] \notin FirstOf(q, i - 1)
      BY <1>4, FirstOfGrows
    <3> QED
      BY <1>2, <2>1, <3>1
  <2>5. version \in 2..4
    <3>1. useStash[xf] # {}
      BY <1>4, <1>5
    <3> QED
      BY <1>2, <3>1, VersionAssumption
  <2>6. /\ Reaches(E, p \o u.frees, FilesOf(u), u.stashed - u.freeSize, T, n)
        /\ u.stashed - u.freeSize \in Nat
    BY <1>9, <2>1
  <2>7. /\ Reaches(E, p \o v.frees, FilesOf(v), v.stashed - v.freeSize, T, n)
        /\ v.stashed - v.freeSize \in Nat
    BY <1>2, <2>3, <2>4, <2>5, <2>6, TakeRuns
  <2>8. /\ Reaches(E, p \o k[i].frees, FilesOf(k[i]), k[i].stashed - k[i].freeSize, T, n)
        /\ k[i].stashed - k[i].freeSize \in Nat
    BY <2>1, <2>7
  <2> QED
    BY <2>2, <2>8
<1>10. B = 0..Len(q)
  <2>1. B \in SUBSET (0..Len(q))
    OBVIOUS
  <2> HIDE DEF B
  <2> QED
    BY <1>5, <1>8, <1>9, <2>1, UpTo
<1>11. Len(q) \in B
  BY <1>5, <1>10
<1> QED
  BY <1>7, <1>11

(* A round keeps the list one that can be run.                             *)
LEMMA RoundRuns ==
    ASSUME Settled, idx \in DOMAIN transfers, WriterSound(wr, Outstanding), cache \in Caches,
           wr.stashed \in Nat, ZerosKept, Runs(wr, idx)
    PROVE  Runs(FreedNow, idx + 1)
<1> SUFFICES ASSUME NEW E \in SUBSET NewDontCare
             PROVE  Reaches(E, FreedNow.out, FilesOf(FreedNow), FreedNow.stashed,
                            Done(idx + 1), FreedNow.peak)
  BY DEF Runs
<1>1. PICK xf, T, n, F, R, x, f, m, d :
         /\ xf = Current /\ T = Done(idx) /\ n = DoneNow.peak /\ F = FilesOf(FullNow)
         /\ R = NamesNow /\ x = UsedNow /\ f = FullNow /\ m = MadeNow /\ d = DoneNow
  OBVIOUS
<1>2. xf \in Transfers /\ T \in SUBSET Transfers
  BY <1>1, RoundStashes DEF Done
<1>3. Commanded(d, x, xf, R)
  BY <1>1, RoundCommands
<1>4. d \in Writers /\ n \in Nat /\ wr.peak \in Nat
  BY <1>1, <1>3 DEF Commanded, Writers, WriterSound
<1>5. x \in Writers /\ TakenOnly(x, f)
  BY <1>1, RoundTakes
<1>6. /\ f \in Writers /\ f.ids = m.ids /\ f.refs = m.refs /\ f.stashed = m.stashed
      /\ f.out = m.out /\ f.peak = Larger(wr.peak, f.stashed)
      /\ SlotsKept(f, LiveAt(idx))
  BY <1>1, RoundPeaks
<1>7. f.stashed \in Int /\ f.peak \in Nat /\ f.out \in Seq(Commands)
  BY <1>6 DEF Writers
<1>8. x.stashed = f.stashed /\ x.out = f.out /\ x.peak = f.peak
  BY <1>5 DEF TakenOnly
<1>9. f.stashed <= f.peak /\ wr.peak <= f.peak
  BY <1>4, <1>6, <1>7 DEF Larger
<1>10. src[xf] \in SUBSET Blocks /\ Cardinality(src[xf]) \in Nat
  <2>1. src[xf] \in SUBSET Blocks
    BY <1>2 DEF Settled, PlanOrdered
  <2> QED
    BY <2>1, BlocksCount
<1>11. /\ f.peak <= n
       /\ Reading(xf) /\ version >= 3 /\ src[xf] \cap Tgt[xf] # {} =>
             f.stashed + Cardinality(src[xf]) <= n
  <2>1. n = IF Reading(xf) /\ version >= 3 /\ src[xf] \cap Tgt[xf] # {}
            THEN Larger(x.peak, x.stashed + Cardinality(src[xf])) ELSE x.peak
    BY <1>1, <1>3 DEF Commanded
  <2>2. n = IF Reading(xf) /\ version >= 3 /\ src[xf] \cap Tgt[xf] # {}
            THEN Larger(f.peak, f.stashed + Cardinality(src[xf])) ELSE f.peak
    BY Zenon, <1>8, <2>1
  <2>3. PICK c : c = f.stashed + Cardinality(src[xf]) /\ c \in Int
    BY <1>7, <1>10
  <2>4. Larger(f.peak, c) >= f.peak /\ Larger(f.peak, c) >= c
    BY <1>7, <2>3 DEF Larger
  <2> QED
    BY <1>4, <1>7, <2>2, <2>3, <2>4
<1>12. m.stashed <= n /\ wr.peak <= n
  BY <1>4, <1>6, <1>7, <1>9, <1>11
<1>13. /\ Reaches(E, m.out, FilesOf(m), m.stashed, T, n)
       /\ m.stashed \in Nat
  <2>1. Reaches(E, wr.out, FilesOf(wr), wr.stashed, Done(idx), wr.peak)
    BY DEF Runs
  <2>2. MadeNow.stashed <= n
    BY <1>1, <1>12
  <2>3. /\ Reaches(E, MadeNow.out, FilesOf(MadeNow), MadeNow.stashed, Done(idx), n)
        /\ MadeNow.stashed \in Nat
    BY <1>4, <1>12, <2>1, <2>2, MakingRuns
  <2> QED
    BY <1>1, <2>3
<1>14. FilesOf(m) = F
  BY <1>1, <1>6 DEF FilesOf
<1>15. Reaches(E, f.out, F, f.stashed, T, n) /\ f.stashed \in Nat
  BY <1>6, <1>13, <1>14
<1>16. F \in Files
  <2>1. FilesOf(f) \in Files
    BY <1>6, FilesAreFiles
  <2> QED
    BY <1>1, <2>1
<1>17. Readable(xf, T) /\ xf \notin T /\ Done(idx + 1) = T \cup {xf} /\ Supplied(R, F, xf)
  BY <1>1, RoundReads, RoundSupplies
<1>18. Reaches(E, d.out, F, f.stashed, T \cup {xf}, n)
  <2>1. CASE NothingToWrite(xf)
    <3>1. d.out = f.out
      BY <1>3, <1>8, <2>1 DEF Commanded
    <3>2. Reaches(E, f.out, F, f.stashed, T \cup {xf}, n)
      BY <1>2, <1>4, <1>7, <1>15, <1>17, <2>1, NothingRuns
    <3> QED
      BY <3>1, <3>2
  <2>2. CASE ~NothingToWrite(xf)
    <3>1. PICK c, q, u : c = TransferCommand(xf, R) /\ q = f.out /\ u = f.stashed
      OBVIOUS
    <3>2. d.out = Append(q, c)
      BY <1>3, <1>8, <2>2, <3>1 DEF Commanded
    <3>3. q \in Seq(Commands) /\ u \in Nat /\ Reaches(E, q, F, u, T, n)
      BY <1>7, <1>15, <3>1
    <3>4. Reading(xf) /\ version >= 3 /\ src[xf] \cap Tgt[xf] # {} =>
             u + Cardinality(src[xf]) <= n
      BY <1>11, <3>1
    <3>5. StylesPicked /\ src \in [Transfers -> SUBSET Blocks]
      BY DEF Settled, PlanOrdered
    <3>6. Reaches(E, Append(q, c), F, u, T \cup {xf}, n)
      BY <1>2, <1>4, <1>16, <1>17, <2>2, <3>1, <3>3, <3>4, <3>5, CommandRuns
    <3> QED
      BY <3>1, <3>2, <3>6
  <2> QED
    BY <2>1, <2>2
<1>19. PICK p, U : p = d.out /\ p \in Seq(Commands) /\ U = T \cup {xf} /\ U \in SUBSET Transfers
  <2>1. d.out \in Seq(Commands)
    BY <1>4 DEF Writers
  <2>2. T \cup {xf} \in SUBSET Transfers
    BY <1>2
  <2> QED
    BY <2>1, <2>2
<1>20. Reaches(E, p \o x.frees, FilesOf(x), x.stashed - x.freeSize, U, n)
  <2>1. Reaches(E, p, FilesOf(FullNow), FullNow.stashed, U, n) /\ FullNow.stashed \in Nat
    BY <1>1, <1>15, <1>18, <1>19
  <2>2. Reaches(E, p \o UsedNow.frees, FilesOf(UsedNow), UsedNow.stashed - UsedNow.freeSize, U, n)
    BY <1>4, <1>19, <2>1, TakingRuns
  <2> QED
    BY <1>1, <2>2
<1>21. /\ d.frees = x.frees /\ d.stashed = x.stashed /\ d.freeSize = x.freeSize
       /\ d.ids = x.ids /\ d.refs = x.refs
  BY <1>3 DEF Commanded
<1>22. PICK g : g = FreedNow /\ g.out = d.out \o d.frees /\ g.stashed = d.stashed - d.freeSize
                /\ g.ids = d.ids /\ g.refs = d.refs /\ g.peak = d.peak
  BY <1>1, RoundFrees
<1>23. FilesOf(g) = FilesOf(x)
  BY <1>21, <1>22 DEF FilesOf
<1>24. Reaches(E, g.out, FilesOf(g), g.stashed, U, g.peak)
  <2>1. g.out = p \o x.frees /\ g.stashed = x.stashed - x.freeSize /\ g.peak = n
    BY <1>1, <1>19, <1>21, <1>22
  <2> QED
    BY Zenon, <1>20, <1>23, <2>1
<1> QED
  BY <1>17, <1>19, <1>22, <1>24

-----------------------------------------------------------------------------
(* What the updater makes of a list does not change while nothing does     *)
(* that the list was written from.                                         *)

LEMMA ServedStays ==
    ASSUME NEW m, NEW c, NEW n, Served(m, c, n), UNCHANGED version
    PROVE  Served(m, c, n)'
BY DEF Served, Overlapping

LEMMA RunStays ==
    ASSUME NEW M, NEW q, NEW n, Run(M, q, n), UNCHANGED version
    PROVE  Run(M, q, n)'
<1>1. \A i \in 1..Len(q) : Served(M[i], q[i], n)'
  BY ServedStays DEF Run
<1> QED
  BY <1>1 DEF Run

LEMMA LeadsStays ==
    ASSUME NEW s, NEW q, NEW m, NEW n, Leads(s, q, m, n), UNCHANGED version
    PROVE  Leads(s, q, m, n)'
<1>1. PICK M : Run(M, q, n) /\ M[1] = s /\ M[Len(q) + 1] = m
  BY DEF Leads
<1>2. Run(M, q, n)'
  BY <1>1, RunStays
<1> QED
  BY <1>1, <1>2 DEF Leads

LEMMA WantedStays ==
    ASSUME UNCHANGED <<src, style>>
    PROVE  \A t, b : Wanted(t, b)' = Wanted(t, b)
BY DEF Wanted

LEMMA HoldsStays ==
    ASSUME NEW m, NEW E, NEW q, NEW F, NEW T, Holds(m, E, q, F, T), UNCHANGED <<src, style>>
    PROVE  Holds(m, E, q, F, T)'
<1>1. Written(m, E, T) => Written(m, E, T)'
  BY WantedStays DEF Written
<1>2. Right(m, E, F, T) => Right(m, E, F, T)'
  BY <1>1 DEF Right
<1> QED
  BY <1>2 DEF Holds

LEMMA ReachesStays ==
    ASSUME NEW E, NEW q, NEW F, NEW u, NEW T, NEW n, Reaches(E, q, F, u, T, n),
           UNCHANGED <<version, src, style>>
    PROVE  Reaches(E, q, F, u, T, n)'
<1>1. PICK m : Leads(Start(E), q, m, n) /\ Used(m) = u /\ Holds(m, E, q, F, T)
  BY DEF Reaches
<1>2. PICK s : s = Start(E)
  OBVIOUS
<1>3. Leads(s, q, m, n)'
  BY <1>1, <1>2, LeadsStays
<1>4. Holds(m, E, q, F, T)'
  BY <1>1, HoldsStays
<1> QED
  BY <1>1, <1>2, <1>3, <1>4 DEF Reaches

LEMMA RunsStay ==
    ASSUME NEW w, NEW i, Runs(w, i), UNCHANGED <<version, src, style, order>>
    PROVE  Runs(w, i)'
<1>1. FilesOf(w)' = FilesOf(w) /\ Done(i)' = Done(i)
  BY DEF FilesOf, Done
<1>2. PICK F, T : F = FilesOf(w) /\ T = Done(i)
  OBVIOUS
<1>3. ASSUME NEW E \in SUBSET NewDontCare
      PROVE  Reaches(E, w.out, F, w.stashed, T, w.peak)'
  <2>1. Reaches(E, w.out, F, w.stashed, T, w.peak)
    BY <1>2 DEF Runs
  <2> QED
    BY <2>1, ReachesStays
<1>4. F = FilesOf(w)' /\ T = Done(i)'
  BY <1>1, <1>2
<1>5. \A E \in SUBSET NewDontCare : Reaches(E, w.out, FilesOf(w), w.stashed, Done(i), w.peak)'
  BY Zenon, <1>3, <1>4
<1> QED
  BY <1>5 DEF Runs

-----------------------------------------------------------------------------
(* An empty list leads nowhere.                                            *)

LEMMA StartTyped ==
    ASSUME NEW E \in SUBSET Blocks
    PROVE  /\ Typed(Start(E)) /\ Used(Start(E)) = 0
           /\ Start(E).sound /\ DOMAIN Start(E).store = {}
           /\ \A b \in Blocks : Start(E).device[b] = IF b \in E THEN Erased ELSE SourceData[b]
<1>1. PICK m : m = Start(E)
  OBVIOUS
<1>0. m.store = <<>> /\ m.sound = TRUE
  BY <1>1 DEF Start
<1>2. /\ DOMAIN m.device = Blocks
      /\ \A b \in Blocks : m.device[b] = IF b \in E THEN Erased ELSE SourceData[b]
  BY <1>1, ImageAssumption DEF Start
<1>3. DOMAIN m.store = {}
  BY <1>0
<1>4. \A b \in Blocks : m.device[b] \in Values
  BY <1>2 DEF Values
<1>5. Typed(m)
  BY <1>0, <1>2, <1>3, <1>4, FS_EmptySet DEF Typed
<1>6. Used(m) = 0
  <2>1. Used(m) = SumOver(SizesOf(m), {})
    BY Zenon, <1>3 DEF Used
  <2> QED
    BY <2>1, SumEmpty
<1> QED
  BY <1>0, <1>1, <1>2, <1>3, <1>5, <1>6

LEMMA EmptyReaches ==
    ASSUME NEW E \in SUBSET NewDontCare
    PROVE  Reaches(E, <<>>, {}, 0, {}, 0)
<1>1. E \in SUBSET Blocks
  BY ImageAssumption DEF NewDontCare
<1>2. PICK m : m = Start(E)
  OBVIOUS
<1>3. /\ Typed(m) /\ Used(m) = 0 /\ m.sound /\ DOMAIN m.store = {}
      /\ \A b \in Blocks : m.device[b] = IF b \in E THEN Erased ELSE SourceData[b]
  BY <1>1, <1>2, StartTyped
<1>4. Leads(m, <<>>, m, 0)
  <2>1. Used(m) <= 0
    BY <1>3
  <2> QED
    BY <1>3, <2>1, LeadsNowhere
<1>5. Holds(m, E, <<>>, {}, {})
  BY <1>3 DEF Holds, Right, Written
<1> QED
  BY <1>2, <1>3, <1>4, <1>5 DEF Reaches

LEMMA EmptyReachesNext ==
    \A E \in SUBSET NewDontCare : Reaches(E, <<>>, {}, 0, {}, 0)'
<1>1. \A E \in SUBSET NewDontCare : Reaches(E, <<>>, {}, 0, {}, 0)
  BY EmptyReaches
<1>2. (\A E \in SUBSET NewDontCare : Reaches(E, <<>>, {}, 0, {}, 0))'
  BY <1>1, PTL
<1> QED
  BY <1>2

(* An empty writer has written a list that can be run.                     *)
LEMMA EmptyRunsNext ==
    ASSUME \A t \in Transfers : order'[t] \in Nat /\ order'[t] >= 1
    PROVE  Runs(EmptyWriter, 1)'
<1>1. /\ EmptyWriter.out = <<>> /\ EmptyWriter.stashed = 0 /\ EmptyWriter.peak = 0
      /\ EmptyWriter.ids = {} /\ EmptyWriter.refs = EmptyBag
  BY DEF EmptyWriter
<1>2. FilesOf(EmptyWriter)' = {}
  <2>1. BagToSet(EmptyBag) = {}
    BY DEF EmptyBag, SetToBag, BagToSet
  <2> QED
    BY <1>1, <2>1 DEF FilesOf
<1>3. Done(1)' = {}
  BY DEF Done
<1>4. PICK F, T : F = {} /\ T = {}
  OBVIOUS
<1>5. \A E \in SUBSET NewDontCare : Reaches(E, <<>>, F, 0, T, 0)'
  BY <1>4, EmptyReachesNext
<1>6. F = FilesOf(EmptyWriter)' /\ T = Done(1)'
  BY <1>2, <1>3, <1>4
<1>7. \A E \in SUBSET NewDontCare :
         Reaches(E, EmptyWriter.out, FilesOf(EmptyWriter), EmptyWriter.stashed, Done(1),
                 EmptyWriter.peak)'
  BY Zenon, <1>1, <1>5, <1>6
<1> QED
  BY <1>7 DEF Runs

-----------------------------------------------------------------------------
(* The commands at both ends of the list.                                  *)

EndCommand(op, B) == Command(op, B, {}, 0, {})

LEMMA EndCommandServed ==
    ASSUME NEW B \in SUBSET Blocks, B # {}, NEW op \in {"zero", "erase"}, NEW m, Typed(m),
           NEW n, NEW c, c = EndCommand(op, B)
    PROVE  /\ c \in Commands /\ c.op = op /\ c.tgt = B /\ Writes(c)
           /\ Served(m, c, n) /\ Stocked(m, c)
           /\ \A b : Result(m, c, b) = IF op = "zero" THEN Zeros ELSE Erased
<1>1. c.op = op /\ c.tgt = B /\ c.src = {} /\ c.refs = {}
  BY DEF EndCommand, Command
<1>2. c \in Commands
  BY DEF EndCommand, Command, Commands, Keys
<1>3. op # "stash" /\ op # "free" /\ op # "move" /\ op # "bsdiff" /\ op # "new"
  OBVIOUS
<1>4. Writes(c)
  BY <1>1, <1>3 DEF Writes
<1>5. ~Overlapping(c)
  BY <1>1, <1>3 DEF Overlapping
<1>6. Served(m, c, n)
  BY <1>1, <1>2, <1>5 DEF Served, WellFormed
<1>7. Stocked(m, c)
  BY <1>1 DEF Stocked
<1>8. \A b : Result(m, c, b) = IF op = "zero" THEN Zeros ELSE Erased
  BY <1>1, <1>3 DEF Result
<1> QED
  BY <1>1, <1>2, <1>4, <1>6, <1>7, <1>8

EndsAs(e, m, B, data) ==
    /\ e.store = m.store /\ e.sound = m.sound
    /\ \A b \in B : e.device[b] = data
    /\ \A b \in Blocks \ B : e.device[b] = m.device[b]

LEMMA LastRuns ==
    ASSUME NEW q \in Seq(Commands), NEW n \in Nat, NEW s, NEW m, Leads(s, q, m, n),
           NEW B \in SUBSET Blocks, NEW op \in {"zero", "erase"}
    PROVE  \E e : /\ Leads(s, q \o Unless(B, op), e, n)
                  /\ EndsAs(e, m, B, IF op = "zero" THEN Zeros ELSE Erased)
<1>1. Typed(m) /\ Used(m) <= n
  BY LeadsTyped
<1>2. CASE B = {}
  <2>1. PICK p : p = Unless(B, op) /\ p = <<>>
    BY <1>2 DEF Unless
  <2>2. q \o p = q
    BY <2>1
  <2>3. EndsAs(m, m, B, IF op = "zero" THEN Zeros ELSE Erased)
    BY <1>2 DEF EndsAs
  <2> QED
    BY Zenon, <2>1, <2>2, <2>3
<1>3. CASE B # {}
  <2>1. PICK c, e : c = EndCommand(op, B) /\ e = After(m, c)
    OBVIOUS
  <2>2. /\ c \in Commands /\ c.op = op /\ c.tgt = B /\ Writes(c)
        /\ Served(m, c, n) /\ Stocked(m, c)
        /\ \A b : Result(m, c, b) = IF op = "zero" THEN Zeros ELSE Erased
    <3>1. /\ B \in SUBSET Blocks /\ B # {} /\ op \in {"zero", "erase"} /\ Typed(m)
          /\ c = EndCommand(op, B)
      BY <1>1, <1>3, <2>1
    <3> QED
      BY ONLY <3>1, EndCommandServed
  <2>3. c.op # "move"
    BY <2>2
  <2>4. /\ Typed(e) /\ Used(e) = Used(m) /\ e.store = m.store
        /\ \A b \in B : e.device[b] = Result(m, c, b)
        /\ \A b \in Blocks \ B : e.device[b] = m.device[b]
    BY <1>1, <2>1, <2>2, <2>3, WritingTyped
  <2>5. e.sound = m.sound
    <3>1. c.op # "bsdiff"
      BY <2>2
    <3> QED
      BY <2>1, <3>1, AfterFields DEF SoundAfter
  <2>6. EndsAs(e, m, B, IF op = "zero" THEN Zeros ELSE Erased)
    BY <2>2, <2>4, <2>5 DEF EndsAs
  <2>7. Used(e) <= n
    BY <1>1, <2>4
  <2>8. Leads(s, Append(q, c), e, n)
    BY <2>1, <2>2, <2>4, <2>7, LeadsOn
  <2>9. PICK p : p = Unless(B, op) /\ p = <<c>>
    BY <1>3, <2>1 DEF Unless, EndCommand
  <2>10. q \o p = Append(q, c)
    BY <2>2, <2>9
  <2> QED
    BY Zenon, <2>6, <2>8, <2>9, <2>10
<1> QED
  BY <1>2, <1>3

LEMMA FirstRuns ==
    ASSUME NEW q \in Seq(Commands), NEW n \in Nat, NEW m, NEW E \in SUBSET Blocks,
           Leads(Start(E), q, m, n)
    PROVE  Leads(Start({}), Unless(E, "erase") \o q, m, n)
<1>1. CASE E = {}
  <2>1. PICK p : p = Unless(E, "erase") /\ p = <<>>
    BY <1>1 DEF Unless
  <2>2. p \o q = q
    BY <2>1
  <2> QED
    BY Zenon, <1>1, <2>1, <2>2
<1>2. CASE E # {}
  <2>1. PICK c, s : c = EndCommand("erase", E) /\ s = Start({})
    OBVIOUS
  <2>2. /\ Typed(s) /\ Used(s) = 0 /\ s.sound /\ DOMAIN s.store = {}
        /\ \A b \in Blocks : s.device[b] = SourceData[b]
    BY <2>1, StartTyped
  <2>3. /\ c \in Commands /\ c.op = "erase" /\ c.tgt = E /\ Writes(c) /\ Served(s, c, n)
        /\ \A b : Result(s, c, b) = Erased
    <3>1. "erase" \in {"zero", "erase"} /\ "erase" # "zero"
      OBVIOUS
    <3> QED
      BY <1>2, <2>1, <2>2, <3>1, EndCommandServed
  <2>4. After(s, c) = Start(E)
    <3>1. DeviceAfter(s, c) = [b \in Blocks |-> IF b \in E THEN Erased ELSE SourceData[b]]
      BY <2>2, <2>3 DEF DeviceAfter
    <3>2. StoreAfter(s, c) = <<>>
      BY <2>1, <2>3 DEF StoreAfter, Start
    <3>3. SoundAfter(s, c) = TRUE
      BY <2>1, <2>3 DEF SoundAfter, Start
    <3> QED
      BY <1>2, <3>1, <3>2, <3>3 DEF After, Start
  <2>5. Leads(After(s, c), q, m, n)
    BY <2>4
  <2>6. Leads(s, <<c>> \o q, m, n)
    BY <2>2, <2>3, <2>5, LeadsFrom
  <2>7. Unless(E, "erase") = <<c>>
    BY <1>2, <2>1 DEF Unless, EndCommand
  <2> QED
    BY Zenon, <2>1, <2>6, <2>7
<1> QED
  BY <1>1, <1>2

(* The whole of the list, and what it comes to.                            *)
Complete(m) ==
    /\ m.sound
    /\ \A t \in Transfers : \A b \in Tgt[t] : m.device[b] = Wanted(t, b)
    /\ \A b \in Extended : m.device[b] = Zeros

FullList(w) ==
    Unless(EraseFirst, "erase") \o w.out \o Unless(Extended, "zero") \o Unless(EraseLast, "erase")

LEMMA NothingLeft ==
    ASSUME Settled, NEW w, WriterSound(w, {})
    PROVE  FilesOf(w) = {}
<1>1. w \in Writers /\ SlotsKept(w, {}) /\ CountsKept(Rested(w), {}) /\ version \in 1..4
  BY VersionAssumption DEF WriterSound, Settled, PlanOrdered
<1>2. CASE version >= 3
  <2>1. Rested(w).refs = w.refs /\ w.refs \in Counters
    BY <1>1, RestedWriter DEF Writers
  <2>2. \A h \in Hashes : Waiting(h, w.refs) = Cardinality(Sharing(h, {}))
    BY <1>1, <1>2, <2>1 DEF CountsKept
  <2>3. \A h : Cardinality(Sharing(h, {})) = 0
    BY FS_EmptySet DEF Sharing
  <2>4. BagToSet(w.refs) \in SUBSET Hashes
    BY <2>1, CountersAreBags
  <2>5. \A h \in BagToSet(w.refs) : Waiting(h, w.refs) \in Nat \ {0}
    BY <2>1 DEF Waiting, BagIn, BagToSet, Counters
  <2>6. BagToSet(w.refs) = {}
    BY <2>2, <2>3, <2>4, <2>5
  <2> QED
    BY <1>2, <2>6 DEF FilesOf
<1>3. CASE version < 3
  <2>1. w.ids = {}
    BY <1>1 DEF SlotsKept
  <2> QED
    BY <1>1, <1>3, <2>1 DEF FilesOf
<1> QED
  BY <1>1, <1>2, <1>3

LEMMA WholeRuns ==
    ASSUME Settled, idx \notin DOMAIN transfers, idx >= 1, WriterSound(wr, Outstanding),
           Runs(wr, idx)
    PROVE  \E m : /\ Leads(Start({}), FullList(wr), m, wr.peak)
                  /\ DOMAIN m.store = {}
                  /\ EraseFirst \cap ReadIn(wr.out) = {} => Complete(m)
<1>1. PICK E, o, n, D, X : /\ E = EraseFirst /\ o = wr.out /\ n = wr.peak
                           /\ D = EraseLast /\ X = Extended
  OBVIOUS
<1>2. /\ E \in SUBSET NewDontCare /\ D \in SUBSET NewDontCare
      /\ E \in SUBSET Blocks /\ D \in SUBSET Blocks /\ X \in SUBSET Blocks
      /\ D \cap Care = {} /\ E \cap Care = {} /\ X \cap Care = {} /\ D \cap X = {}
      /\ \A t \in Transfers : Tgt[t] \subseteq Care
  BY <1>1, ImageAssumption DEF NewDontCare, EraseFirst, EraseLast, Care
<1>3. o \in Seq(Commands) /\ n \in Nat
  BY <1>1 DEF WriterSound, Writers
<1>4. \A t \in Transfers : order[t] < idx /\ order[t] \in Nat /\ ~(idx <= order[t])
  <2>1. /\ idx \in Nat /\ transfers \in Seq(Transfers) /\ order \in [Transfers -> Nat]
        /\ \A t \in Transfers : order[t] \in DOMAIN transfers
    BY DEF Settled, PlanOrdered
  <2>2. DOMAIN transfers = 1..Len(transfers) /\ Len(transfers) \in Nat
    BY <2>1
  <2>3. idx > Len(transfers)
    BY <2>1, <2>2
  <2> QED
    BY <2>1, <2>2, <2>3
<1>5. Done(idx) = Transfers
  BY <1>4 DEF Done
<1>6. Outstanding = {}
  <2>1. \A t \in Transfers : \A s \in useStash[t] : s.use \in Transfers
    BY DEF Settled, PlanOrdered, Stashes
  <2> QED
    BY <1>4, <2>1 DEF Outstanding
<1>7. FilesOf(wr) = {}
  BY <1>6, NothingLeft
<1>8. Reaches(E, o, {}, wr.stashed, Transfers, n)
  <2>1. Reaches(E, wr.out, FilesOf(wr), wr.stashed, Done(idx), wr.peak)
    BY <1>2 DEF Runs
  <2> QED
    BY Zenon, <1>1, <1>5, <1>7, <2>1
<1>9. PICK m : Leads(Start(E), o, m, n) /\ Holds(m, E, o, {}, Transfers)
  BY <1>8 DEF Reaches
<1>10. /\ DOMAIN m.store = {}
       /\ E \cap ReadIn(o) = {} => /\ m.sound
                                   /\ \A t \in Transfers : \A b \in Tgt[t] : m.device[b] = Wanted(t, b)
  BY <1>9 DEF Holds, Right, Written
<1>11. PICK p, z, e : /\ p = Unless(E, "erase") \o o
                      /\ z = Unless(X, "zero") /\ e = Unless(D, "erase")
  OBVIOUS
<1>12. Leads(Start({}), p, m, n)
  BY <1>2, <1>3, <1>9, <1>11, FirstRuns
<1>13. p \in Seq(Commands) /\ p \o z \in Seq(Commands)
  <2>1. /\ E \in SUBSET TargetBlocks /\ X \in SUBSET TargetBlocks
        /\ "zero" \in {"zero", "erase"} /\ "erase" \in {"zero", "erase"}
    BY <1>1, <1>2, ImageAssumption DEF NewDontCare
  <2>2. PICK u : u = Unless(E, "erase")
    OBVIOUS
  <2>3. u \in Seq(Commands) /\ z \in Seq(Commands)
    BY <1>11, <2>1, <2>2, UnlessIsBlind
  <2>4. p = u \o o
    BY <1>11, <2>2
  <2>5. p \in Seq(Commands)
    BY <1>3, <2>3, <2>4
  <2> QED
    BY <2>3, <2>5
<1>14. "zero" \in {"zero", "erase"} /\ "erase" \in {"zero", "erase"} /\ "erase" # "zero"
  OBVIOUS
<1>15. PICK f : Leads(Start({}), p \o z, f, n) /\ EndsAs(f, m, X, Zeros)
  BY <1>2, <1>3, <1>11, <1>12, <1>13, <1>14, LastRuns
<1>16. PICK r : r = p \o z
  OBVIOUS
<1>17. PICK g : Leads(Start({}), r \o e, g, n) /\ EndsAs(g, f, D, Erased)
  BY <1>2, <1>3, <1>11, <1>13, <1>14, <1>15, <1>16, LastRuns
<1>18. FullList(wr) = r \o e
  BY <1>1, <1>11, <1>16 DEF FullList
<1>19. DOMAIN g.store = {}
  BY <1>10, <1>15, <1>17 DEF EndsAs
<1>20. ASSUME E \cap ReadIn(o) = {} PROVE Complete(g)
  <2>1. g.sound
    BY <1>10, <1>15, <1>17, <1>20 DEF EndsAs
  <2>2. ASSUME NEW t \in Transfers, NEW b \in Tgt[t] PROVE g.device[b] = Wanted(t, b)
    <3>1. b \in Blocks \ X /\ b \in Blocks \ D
      BY <1>2, ImageAssumption
    <3>2. m.device[b] = Wanted(t, b)
      BY <1>10, <1>20
    <3> QED
      BY <1>15, <1>17, <3>1, <3>2 DEF EndsAs
  <2>3. \A b \in Extended : g.device[b] = Zeros
    <3> TAKE b \in Extended
    <3>1. b \in X /\ b \in Blocks \ D
      BY <1>1, <1>2
    <3> QED
      BY <1>15, <1>17, <3>1 DEF EndsAs
  <2> QED
    BY <2>1, <2>2, <2>3 DEF Complete
<1> QED
  BY <1>1, <1>17, <1>18, <1>19, <1>20

-----------------------------------------------------------------------------
(* The transfer of the zero domain is never given more to read.            *)

LEMMA ZerosFrame ==
    ASSUME ZerosKept,
           \A t \in Transfers : style'[t] = "zero" => style[t] = "zero" /\ src'[t] \subseteq src[t]
    PROVE  ZerosKept'
BY DEF ZerosKept

LEMMA ZerosInit == Init => ZerosKept
BY DataAssumption DEF Init, InitialStyle, ZerosKept

LEMMA ZerosPlan == ZerosKept /\ PlanInv /\ PlanStep => ZerosKept'
<1> SUFFICES ASSUME ZerosKept, PlanInv, PlanStep PROVE ZerosKept'
  OBVIOUS
<1>1. CASE UNCHANGED <<src, style>>
  BY <1>1, ZerosFrame
<1>2. CASE RemoveBackwardEdges
  <2>1. /\ src \in [Transfers -> SUBSET Blocks] /\ style \in [Transfers -> {"new", "zero", "diff"}]
    BY <1>2 DEF RemoveBackwardEdges, PlanInv, IInv, TypeOK, Phases
  <2>2. PICK xf : xf = transfers[idx]
    OBVIOUS
  <2>3. PICK kept : /\ kept \subseteq src[xf]
                    /\ src' = [src EXCEPT ![xf] = kept]
                    /\ style' = [style EXCEPT ![xf] =
                                    IF @ = "diff" /\ kept = {} THEN "new" ELSE @]
    BY <1>2, <2>2 DEF RemoveBackwardEdges
  <2>4. \A t \in Transfers : style'[t] = "zero" => style[t] = "zero" /\ src'[t] \subseteq src[t]
    BY <2>1, <2>3
  <2> QED
    BY <2>4, ZerosFrame
<1>3. CASE ReviseStashSize
  <2>1. pc = "revise" /\ idx \in DOMAIN transfers
        /\ (SaneNow => Revised(Current, TotalNow, ReplacedNow, Dropped(ReplacedNow)))
    BY <1>3, RoundOfRevise
  <2>2. SaneNow
    BY <2>1, RoundIsSane
  <2>3. PICK R : R = ReplacedNow
    OBVIOUS
  <2>4. /\ style' = [t \in Transfers |-> IF t \in R THEN "new" ELSE style[t]]
        /\ src' = [t \in Transfers |-> IF t \in R THEN {} ELSE src[t]]
    <3>1. Revised(Current, TotalNow, R, Dropped(R))
      BY <2>1, <2>2, <2>3
    <3> QED
      BY <3>1 DEF Revised
  <2>5. \A t \in Transfers : style'[t] = "zero" => style[t] = "zero" /\ src'[t] \subseteq src[t]
    BY <2>4
  <2> QED
    BY <2>5, ZerosFrame
<1>4. CASE OrderStep
  <2>1. ReverseBackwardEdges => UNCHANGED <<src, style>>
    BY DEF ReverseBackwardEdges, inputVars
  <2> QED
    BY <1>1, <1>2, <1>4, <2>1, OrderFrame
<1>5. StartRevise \/ ReviseDone \/ AssertSequenceGood => UNCHANGED <<src, style>>
  BY DEF StartRevise, ReviseDone, AssertSequenceGood, inputVars
<1> QED
  BY <1>1, <1>3, <1>4, <1>5 DEF PlanStep

LEMMA ZerosPick == ZerosKept /\ ComputePatches => ZerosKept'
<1> SUFFICES ASSUME ZerosKept, ComputePatches PROVE ZerosKept'
  OBVIOUS
<1>1. src' = src /\ \A t \in Transfers : style'[t] = "zero" => style[t] = "zero"
  BY DEF ComputePatches
<1> QED
  BY <1>1, ZerosFrame

LEMMA ZerosStep == ZerosKept /\ ListInv /\ ListStep => ZerosKept'
<1> SUFFICES ASSUME ZerosKept, ListInv, ListStep PROVE ZerosKept'
  OBVIOUS
<1>1. CASE PlanStep
  <2>1. PlanInv
    BY <1>1, PlanStepPhases DEF ListInv
  <2> QED
    BY <1>1, <2>1, ZerosPlan
<1>2. CASE ComputePatches
  BY <1>2, ZerosPick
<1>3. CASE WriteTransfer \/ FinishWrite
  <2>1. UNCHANGED planState
    BY <1>3, RoundOfWrite DEF FinishWrite
  <2>2. UNCHANGED <<src, style>>
    BY <2>1 DEF planState, inputVars
  <2> QED
    BY <2>2, ZerosFrame
<1> QED
  BY <1>1, <1>2, <1>3 DEF ListStep

-----------------------------------------------------------------------------
(* The inductive invariant of the whole update.                            *)

Updating == {"updating", "updated"}

(* M is the updater before each command of the list, and after the last.   *)
Executes(M) ==
    /\ Run(M, wr.out, wr.peak)
    /\ M[1] = Start({})
    /\ DOMAIN M[Len(wr.out) + 1].store = {}
    /\ ErasesUnread => Complete(M[Len(wr.out) + 1])

Arrived(M) ==
    /\ pc = "updating" => idx \in 1..(Len(wr.out) + 1) /\ Now = M[idx]
    /\ pc = "updated" => Now = M[Len(wr.out) + 1]

DevInv ==
    /\ pc \notin Updating => ListInv /\ Now = Start({})
    /\ pc \in Updating => Settled /\ ListSound /\ SizesKept
    /\ ZerosKept
    /\ pc = "write" => idx >= 1 /\ Runs(wr, idx)
    /\ pc \in {"written"} \cup Updating => \E M : Executes(M) /\ Arrived(M)

LEMMA DevInitInv == UpdateInit => DevInv
<1> SUFFICES ASSUME UpdateInit PROVE DevInv
  OBVIOUS
<1>1. ListInv /\ ZerosKept /\ pc = "digraph"
  <2>1. ListInit /\ Init
    BY DEF UpdateInit, ListInit, PlanInit
  <2> QED
    BY <2>1, ListInitInv, ZerosInit DEF Init
<1>2. Now = Start({})
  BY DEF UpdateInit, Now, Start
<1> QED
  BY <1>1, <1>2 DEF DevInv, Updating

LEMMA NowStays ==
    ASSUME UNCHANGED deviceVars
    PROVE  Now' = Now
BY DEF Now, deviceVars

LEMMA CompleteStays ==
    ASSUME NEW m, Complete(m), UNCHANGED <<src, style>>
    PROVE  Complete(m)'
BY WantedStays DEF Complete

LEMMA ExecutesStays ==
    ASSUME NEW M, Executes(M), UNCHANGED <<wr, version, src, style>>
    PROVE  Executes(M)'
<1>1. PICK w : w = wr
  OBVIOUS
<1>2. Run(M, w.out, w.peak)'
  BY <1>1, RunStays DEF Executes
<1>3. ErasesUnread' = ErasesUnread
  BY DEF ErasesUnread, EraseFirst, ReadBlocks
<1>4. PICK e : e = M[Len(w.out) + 1]
  OBVIOUS
<1>5. ErasesUnread => Complete(e)'
  BY <1>1, <1>4, CompleteStays DEF Executes
<1>6. wr' = w
  BY <1>1
<1> QED
  BY <1>1, <1>2, <1>3, <1>4, <1>5, <1>6 DEF Executes

(* A step of Compute.                                                      *)
LEMMA DevPlan == DevInv /\ PlanStep /\ UNCHANGED <<wr, deviceVars>> => DevInv'
<1> SUFFICES ASSUME DevInv, PlanStep, UNCHANGED <<wr, deviceVars>> PROVE DevInv'
  OBVIOUS
<1>1. pc \in Planning /\ pc \notin Updating
  BY PlanStepPhases DEF Planning, Phases, Revising, Updating
<1>2. ListInv /\ Now = Start({}) /\ ZerosKept
  BY <1>1 DEF DevInv
<1>3. ListInv' /\ Now' = Start({}) /\ PlanInv /\ PlanInv'
  <2>1. PlanInv
    BY <1>1, <1>2 DEF ListInv
  <2>2. [PlanNext]_planVars
    BY DEF PlanNext
  <2> QED
    BY <1>2, <2>1, <2>2, ListPlanStep, NowStays, PlanNextStep DEF deviceVars
<1>4. ZerosKept'
  BY <1>2, <1>3, ZerosPlan
<1>5. pc' \in Planning
  BY <1>3 DEF PlanInv, Planning
<1>6. pc' \notin Updating /\ pc' # "write" /\ pc' # "written"
  BY <1>5 DEF Planning, Phases, Revising, Updating
<1> QED
  BY <1>3, <1>4, <1>6 DEF DevInv

LEMMA DevPick == DevInv /\ ComputePatches /\ UNCHANGED deviceVars => DevInv'
<1> SUFFICES ASSUME DevInv, ComputePatches, UNCHANGED deviceVars PROVE DevInv'
  OBVIOUS
<1>1. /\ pc = "planned" /\ pc' = "write" /\ idx' = 1 /\ wr' = wr
      /\ UNCHANGED <<order, transfers>>
  BY DEF ComputePatches, listVars
<1>2. ListInv /\ Now = Start({}) /\ ZerosKept
  BY <1>1 DEF DevInv, Updating
<1>3. ListInv' /\ Now' = Start({}) /\ ZerosKept'
  BY <1>2, PickStep, NowStays, ZerosPick
<1>4. PlanInv /\ wr = EmptyWriter /\ PlanOrdered
  BY <1>1, <1>2 DEF ListInv, Planning, Revising, PlanInv
<1>5. \A t \in Transfers : order'[t] \in Nat /\ order'[t] >= 1
  BY <1>1, <1>4 DEF PlanOrdered
<1>6. Runs(EmptyWriter, 1)'
  BY <1>5, EmptyRunsNext
<1>7. Runs(wr, idx)'
  BY <1>1, <1>4, <1>6
<1>8. idx' >= 1 /\ pc' \notin Updating /\ pc' # "written"
  BY <1>1 DEF Updating
<1> QED
  BY <1>3, <1>7, <1>8 DEF DevInv

LEMMA DevWrite == DevInv /\ WriteTransfer /\ UNCHANGED deviceVars => DevInv'
<1> SUFFICES ASSUME DevInv, WriteTransfer, UNCHANGED deviceVars PROVE DevInv'
  OBVIOUS
<1>1. /\ pc = "write" /\ idx \in DOMAIN transfers /\ idx' = idx + 1
      /\ UNCHANGED <<order, version, src, style>>
      /\ RoundSane(FullNow, Current) =>
            /\ wr' = FreedNow
            /\ pc' = IF version >= 2 /\ cache.known /\ ~PeakAllowed(FreedNow.peak)
                     THEN "oversize" ELSE "write"
  <2>1. UNCHANGED planState
    BY RoundOfWrite
  <2>2. UNCHANGED <<order, version, src, style>>
    BY <2>1 DEF planState, listVars, inputVars
  <2> QED
    BY <2>2, RoundOfWrite
<1>2. ListInv /\ Now = Start({}) /\ ZerosKept /\ idx >= 1 /\ Runs(wr, idx)
  BY <1>1 DEF DevInv, Updating
<1>3. Settled /\ WriterSound(wr, Outstanding) /\ cache \in Caches /\ wr.stashed \in Nat
  BY <1>1, <1>2 DEF ListInv, Writing, ListSound
<1>4. wr' = FreedNow /\ pc' \in {"oversize", "write"}
  BY <1>1, <1>3, RoundIsSaneToo
<1>5. PICK w, i : w = FreedNow /\ i = idx + 1
  OBVIOUS
<1>6. Runs(w, i)
  BY <1>1, <1>2, <1>3, <1>5, RoundRuns
<1>7. Runs(w, i)'
  BY <1>1, <1>6, RunsStay
<1>8. Runs(wr, idx)'
  BY <1>1, <1>4, <1>5, <1>7
<1>9. idx \in Nat
  BY <1>3 DEF Settled, PlanOrdered
<1>10. idx' >= 1
  BY <1>1, <1>2, <1>9
<1>11. ListInv' /\ Now' = Start({}) /\ ZerosKept'
  <2>1. ListStep
    BY DEF ListStep
  <2> QED
    BY <1>2, <2>1, WriteStep, NowStays, ZerosStep
<1>12. pc' \notin Updating /\ pc' # "written"
  BY <1>4 DEF Updating
<1> QED
  BY <1>8, <1>10, <1>11, <1>12 DEF DevInv

LEMMA ReadInConcat ==
    \A p, q \in Seq(Commands) : /\ p \o q \in Seq(Commands)
                                /\ ReadIn(p) \subseteq ReadIn(p \o q)
                                /\ ReadIn(q) \subseteq ReadIn(p \o q)
<1> TAKE p, q \in Seq(Commands)
<1>1. PICK r : r = p \o q
  OBVIOUS
<1>2. /\ r \in Seq(Commands) /\ Len(p) \in Nat /\ Len(q) \in Nat
      /\ DOMAIN p = 1..Len(p) /\ DOMAIN q = 1..Len(q) /\ DOMAIN r = 1..(Len(p) + Len(q))
  BY <1>1
<1>3. \A i \in DOMAIN p : i \in DOMAIN r /\ r[i] = p[i]
  BY <1>1, <1>2
<1>4. \A i \in DOMAIN q : Len(p) + i \in DOMAIN r /\ r[Len(p) + i] = q[i]
  BY <1>1, <1>2
<1>5. ReadIn(p) \subseteq ReadIn(r)
  BY <1>3 DEF ReadIn
<1>6. ReadIn(q) \subseteq ReadIn(r)
  BY <1>4 DEF ReadIn
<1> QED
  BY <1>1, <1>2, <1>5, <1>6

LEMMA FullListReads ==
    ASSUME NEW w, w.out \in Seq(Commands)
    PROVE  FullList(w) \in Seq(Commands) /\ ReadIn(w.out) \subseteq ReadIn(FullList(w))
<1>1. PICK a, b, c, o : /\ a = Unless(EraseFirst, "erase") /\ b = Unless(Extended, "zero")
                        /\ c = Unless(EraseLast, "erase") /\ o = w.out
  OBVIOUS
<1>2. a \in Seq(Commands) /\ b \in Seq(Commands) /\ c \in Seq(Commands) /\ o \in Seq(Commands)
  <2>1. EraseFirst \in SUBSET TargetBlocks /\ EraseLast \in SUBSET TargetBlocks
    BY DEF EraseFirst, EraseLast, NewDontCare
  <2>2. Extended \in SUBSET TargetBlocks
    BY ImageAssumption
  <2> QED
    BY <1>1, <2>1, <2>2, UnlessIsBlind
<1>3. PICK p : p = a \o o
  OBVIOUS
<1>4. p \in Seq(Commands) /\ ReadIn(o) \subseteq ReadIn(p)
  BY <1>2, <1>3, ReadInConcat
<1>5. PICK q : q = p \o b
  OBVIOUS
<1>6. q \in Seq(Commands) /\ ReadIn(p) \subseteq ReadIn(q)
  BY <1>2, <1>4, <1>5, ReadInConcat
<1>7. PICK r : r = q \o c
  OBVIOUS
<1>8. r \in Seq(Commands) /\ ReadIn(q) \subseteq ReadIn(r)
  BY <1>2, <1>6, <1>7, ReadInConcat
<1>9. FullList(w) = r
  BY <1>1, <1>3, <1>5, <1>7 DEF FullList
<1> QED
  BY <1>1, <1>4, <1>6, <1>8, <1>9

LEMMA DevFinish == DevInv /\ FinishWrite /\ UNCHANGED deviceVars => DevInv'
<1> SUFFICES ASSUME DevInv, FinishWrite, UNCHANGED deviceVars PROVE DevInv'
  OBVIOUS
<1>1. /\ pc = "write" /\ pc' = "written" /\ idx \notin DOMAIN transfers
      /\ UNCHANGED <<version, src, style>>
  <2>1. UNCHANGED planState
    BY DEF FinishWrite
  <2>2. UNCHANGED <<version, src, style>>
    BY <2>1 DEF planState, inputVars
  <2> QED
    BY <2>2 DEF FinishWrite
<1>2. PICK w, q, n : w = wr /\ q = FullList(wr) /\ n = wr.total + Cardinality(Extended)
  OBVIOUS
<1>3. wr' = [w EXCEPT !.out = q, !.total = n]
  BY <1>2 DEF FinishWrite, FullList
<1>4. ListInv /\ Now = Start({}) /\ ZerosKept /\ idx >= 1 /\ Runs(wr, idx)
  BY <1>1 DEF DevInv, Updating
<1>5. Settled /\ WriterSound(wr, Outstanding)
  BY <1>1, <1>4 DEF ListInv, Writing
<1>6. w \in Writers /\ w.out \in Seq(Commands)
  BY <1>2, <1>5 DEF WriterSound, Writers
<1>7. PICK x : x = wr' /\ x.out = q /\ x.touched = w.touched /\ x.peak = w.peak
  <2>1. PICK x : x = [w EXCEPT !.out = q, !.total = n]
    OBVIOUS
  <2>2. x.out = q /\ x.touched = w.touched /\ x.peak = w.peak
    BY <1>6, <2>1 DEF Writers
  <2> QED
    BY <1>3, <2>1, <2>2
<1>8. PICK m : /\ Leads(Start({}), q, m, w.peak)
               /\ DOMAIN m.store = {}
               /\ EraseFirst \cap ReadIn(w.out) = {} => Complete(m)
  BY <1>1, <1>2, <1>4, <1>5, WholeRuns
<1>9. PICK M : Run(M, q, w.peak) /\ M[1] = Start({}) /\ M[Len(q) + 1] = m
  BY <1>8 DEF Leads
<1>10. Run(M, x.out, x.peak)'
  <2>1. Run(M, x.out, x.peak)
    BY <1>7, <1>9
  <2> QED
    BY <1>1, <2>1, RunStays
<1>11. ErasesUnread' => EraseFirst \cap ReadIn(w.out) = {}
  <2>1. ReadIn(w.out) \subseteq ReadIn(q)
    BY <1>2, <1>6, FullListReads
  <2>2. EraseFirst' = EraseFirst
    BY <1>2, <1>7 DEF EraseFirst
  <2>3. ReadBlocks' = ReadIn(q)
    BY <1>7 DEF ReadBlocks, ReadIn
  <2> QED
    BY <2>1, <2>2, <2>3 DEF ErasesUnread
<1>12. Complete(m) => Complete(m)'
  BY <1>1, CompleteStays
<1>13. Executes(M)'
  BY <1>7, <1>8, <1>9, <1>10, <1>11, <1>12 DEF Executes
<1>14. Arrived(M)'
  BY <1>1 DEF Arrived
<1>15. ListInv' /\ Now' = Start({}) /\ ZerosKept'
  <2>1. ListStep
    BY DEF ListStep
  <2> QED
    BY <1>4, <2>1, FinishStep, NowStays, ZerosStep
<1>16. pc' \notin Updating /\ pc' # "write"
  BY <1>1 DEF Updating
<1> QED
  BY <1>13, <1>14, <1>15, <1>16 DEF DevInv

-----------------------------------------------------------------------------
(* The steps of the updater.                                               *)

LEMMA UpdatingKeeps ==
    ASSUME Settled, ListSound, SizesKept, ZerosKept, UNCHANGED <<planState, wr>>, idx' \in Nat
    PROVE  Settled' /\ ListSound' /\ SizesKept' /\ ZerosKept'
<1>1. /\ UNCHANGED <<transfers, order, version, src, style, stashBefore, useStash, cache>>
      /\ UNCHANGED <<stashedBlocks, newBlocks>>
  BY DEF planState, listVars, inputVars, stashVars, sizeVars
<1>2. Settled'
  BY <1>1, SettledStays
<1>3. ListSound'
  BY <1>1 DEF ListSound, Faithful
<1>4. SizesKept'
  BY <1>1 DEF SizesKept
<1>5. ZerosKept'
  BY <1>1, ZerosFrame
<1> QED
  BY <1>2, <1>3, <1>4, <1>5

(* What has to be shown of a step that leaves the list as it is.           *)
LEMMA ListedStays ==
    ASSUME NEW M, Executes(M), UNCHANGED <<planState, wr>>
    PROVE  Executes(M)'
<1>1. UNCHANGED <<version, src, style>>
  BY DEF planState, inputVars
<1> QED
  BY <1>1, ExecutesStays

LEMMA DevStart == DevInv /\ StartUpdate => DevInv'
<1> SUFFICES ASSUME DevInv, StartUpdate PROVE DevInv'
  OBVIOUS
<1>1. /\ pc = "written" /\ pc' = "updating" /\ idx' = 1 /\ UNCHANGED <<planState, wr>>
      /\ UNCHANGED deviceVars
  BY DEF StartUpdate
<1>2. ListInv /\ Now = Start({}) /\ ZerosKept
  BY <1>1 DEF DevInv, Updating
<1>3. Settled /\ ListSound /\ SizesKept
  BY <1>1, <1>2 DEF ListInv, Writing, SizesKept
<1>4. Settled' /\ ListSound' /\ SizesKept' /\ ZerosKept'
  BY <1>1, <1>2, <1>3, UpdatingKeeps
<1>5. PICK M : Executes(M)
  BY <1>1 DEF DevInv
<1>6. Executes(M)'
  BY <1>1, <1>5, ListedStays
<1>7. Arrived(M)'
  <2>1. Now' = M[1]
    BY <1>1, <1>2, <1>5, NowStays DEF Executes
  <2>2. wr'.out \in Seq(Commands)
    BY <1>4 DEF ListSound, Writers
  <2>3. 1 \in 1..(Len(wr'.out) + 1)
    BY <2>2
  <2> QED
    BY <1>1, <2>1, <2>3 DEF Arrived
<1>8. pc' \in Updating /\ pc' # "write"
  BY <1>1 DEF Updating
<1> QED
  BY <1>4, <1>6, <1>7, <1>8 DEF DevInv

LEMMA DevApply == DevInv /\ Applying => DevInv'
<1> SUFFICES ASSUME DevInv, Applying PROVE DevInv'
  OBVIOUS
<1>1. /\ pc = "updating" /\ idx \in DOMAIN wr.out /\ idx' = idx + 1
      /\ UNCHANGED <<pc, planState, wr>> /\ Now' = After(Now, This)
  BY StepIsAfter
<1>2. Settled /\ ListSound /\ SizesKept /\ ZerosKept
  BY <1>1 DEF DevInv, Updating
<1>3. idx \in Nat /\ wr.out \in Seq(Commands)
  BY <1>2 DEF ListSound, Writers, Settled, PlanOrdered
<1>4. Settled' /\ ListSound' /\ SizesKept' /\ ZerosKept'
  <2>1. idx' \in Nat
    BY <1>1, <1>3
  <2> QED
    BY <1>1, <1>2, <2>1, UpdatingKeeps
<1>5. PICK M : Executes(M) /\ Arrived(M)
  BY <1>1 DEF DevInv, Updating
<1>6. Executes(M)'
  BY <1>1, <1>5, ListedStays
<1>7. idx \in 1..Len(wr.out) /\ Len(wr.out) \in Nat
  BY <1>1, <1>3
<1>8. Now = M[idx] /\ M[idx + 1] = After(M[idx], wr.out[idx])
  BY <1>1, <1>5, <1>7 DEF Arrived, Executes, Run
<1>9. Arrived(M)'
  <2>1. Now' = M[idx + 1]
    BY <1>1, <1>8 DEF This
  <2>2. idx + 1 \in 1..(Len(wr.out) + 1)
    BY <1>7
  <2>3. PICK i, l : i = idx + 1 /\ l = Len(wr.out)
    OBVIOUS
  <2>4. idx' = i /\ Len(wr.out)' = l /\ i \in 1..(l + 1) /\ Now' = M[i] /\ pc' = "updating"
    BY <1>1, <2>1, <2>2, <2>3
  <2> QED
    BY <2>4 DEF Arrived
<1>10. pc' \in Updating /\ pc' # "write"
  BY <1>1 DEF Updating
<1> QED
  BY <1>4, <1>6, <1>9, <1>10 DEF DevInv

LEMMA DevDone == DevInv /\ UpdateDone => DevInv'
<1> SUFFICES ASSUME DevInv, UpdateDone PROVE DevInv'
  OBVIOUS
<1>1. /\ pc = "updating" /\ idx \notin DOMAIN wr.out /\ pc' = "updated" /\ idx' = idx
      /\ UNCHANGED <<planState, wr>> /\ UNCHANGED deviceVars
  BY DEF UpdateDone
<1>2. Settled /\ ListSound /\ SizesKept /\ ZerosKept
  BY <1>1 DEF DevInv, Updating
<1>3. idx \in Nat /\ wr.out \in Seq(Commands)
  BY <1>2 DEF ListSound, Writers, Settled, PlanOrdered
<1>4. Settled' /\ ListSound' /\ SizesKept' /\ ZerosKept'
  BY <1>1, <1>2, <1>3, UpdatingKeeps
<1>5. PICK M : Executes(M) /\ Arrived(M)
  BY <1>1 DEF DevInv, Updating
<1>6. Executes(M)'
  BY <1>1, <1>5, ListedStays
<1>7. idx = Len(wr.out) + 1
  <2>1. DOMAIN wr.out = 1..Len(wr.out) /\ Len(wr.out) \in Nat /\ idx \in 1..(Len(wr.out) + 1)
    BY <1>1, <1>3, <1>5 DEF Arrived
  <2> QED
    BY <1>1, <2>1
<1>8. Arrived(M)'
  <2>1. Now' = M[Len(wr.out) + 1]
    BY <1>1, <1>5, <1>7, NowStays DEF Arrived
  <2>2. Now' = M[Len(wr'.out) + 1] /\ pc' # "updating"
    BY <1>1, <2>1
  <2> QED
    BY <2>2 DEF Arrived
<1>9. pc' \in Updating /\ pc' # "write"
  BY <1>1 DEF Updating
<1> QED
  BY <1>4, <1>6, <1>8, <1>9 DEF DevInv

LEMMA DevStutter == DevInv /\ UNCHANGED updateVars => DevInv'
<1> SUFFICES ASSUME DevInv, UNCHANGED updateVars PROVE DevInv'
  OBVIOUS
<1>1. UNCHANGED listingVars /\ UNCHANGED deviceVars
  BY DEF updateVars
<1>2. UNCHANGED <<pc, idx, planState, wr>>
  BY <1>1 DEF listingVars, planVars, vars, planState
<1>3. UNCHANGED <<order, version, src, style>>
  BY <1>2 DEF planState, listVars, inputVars
<1>4. ListInv => ListInv'
  BY <1>1, ListStutterStep
<1>5. Now' = Now
  BY <1>1, NowStays
<1>6. ZerosKept'
  BY <1>3, ZerosFrame DEF DevInv
<1>7. Settled /\ ListSound /\ SizesKept => Settled' /\ ListSound' /\ SizesKept'
  <2> SUFFICES ASSUME Settled, ListSound, SizesKept PROVE Settled' /\ ListSound' /\ SizesKept'
    OBVIOUS
  <2>1. idx' \in Nat /\ ZerosKept
    BY <1>2 DEF Settled, PlanOrdered, DevInv
  <2> QED
    BY <1>2, <2>1, UpdatingKeeps
<1>8. Runs(wr, idx) => Runs(wr, idx)'
  <2> SUFFICES ASSUME Runs(wr, idx) PROVE Runs(wr, idx)'
    OBVIOUS
  <2>1. PICK w, i : w = wr /\ i = idx
    OBVIOUS
  <2>2. Runs(w, i)'
    BY <1>3, <2>1, RunsStay
  <2>3. wr' = w /\ idx' = i
    BY <1>2, <2>1
  <2> QED
    BY <2>2, <2>3
<1>9. \A M : Executes(M) /\ Arrived(M) => Executes(M)' /\ Arrived(M)'
  <2> TAKE M
  <2> HAVE Executes(M) /\ Arrived(M)
  <2>1. Executes(M)'
    BY <1>2, ListedStays
  <2>2. Arrived(M)'
    BY <1>2, <1>5 DEF Arrived
  <2> QED
    BY <2>1, <2>2
<1> QED
  BY <1>2, <1>4, <1>5, <1>6, <1>7, <1>8, <1>9 DEF DevInv

LEMMA DevNext == DevInv /\ [UpdateNext]_updateVars => DevInv'
<1> SUFFICES ASSUME DevInv, [UpdateNext]_updateVars PROVE DevInv'
  OBVIOUS
<1>1. CASE ListStep /\ UNCHANGED deviceVars
  BY <1>1, DevPlan, DevPick, DevWrite, DevFinish DEF ListStep, deviceVars
<1>2. CASE StartUpdate
  BY <1>2, DevStart
<1>3. CASE Applying
  BY <1>3, DevApply
<1>4. CASE UpdateDone
  BY <1>4, DevDone
<1>5. CASE UNCHANGED updateVars
  BY <1>5, DevStutter
<1> QED
  BY <1>1, <1>2, <1>3, <1>4, <1>5 DEF UpdateNext, UpdateStep, UpdateReturned, Applying

(* The strengthening that the theorems below rest on holds always.         *)
THEOREM UpdateInductiveInvariant == UpdateSpec => []DevInv
BY DevInitInv, DevNext, PTL DEF UpdateSpec

-----------------------------------------------------------------------------
(* What follows of every state.                                            *)

(* The updater is where the list has led it.                               *)
LEMMA WhereItIs ==
    ASSUME DevInv
    PROVE  /\ Typed(Now)
           /\ pc \in Updating => Used(Now) <= wr.peak
           /\ pc = "updating" /\ idx \in DOMAIN wr.out => Served(Now, This, wr.peak)
           /\ pc = "updated" => DOMAIN Now.store = {}
           /\ pc = "updated" /\ ErasesUnread => Complete(Now)
<1>1. CASE pc \notin Updating
  <2>1. Now = Start({})
    BY <1>1 DEF DevInv
  <2>2. Typed(Now)
    BY <2>1, StartTyped
  <2> QED
    BY <1>1, <2>2 DEF Updating
<1>2. CASE pc \in Updating
  <2>1. PICK M : Executes(M) /\ Arrived(M)
    BY <1>2 DEF DevInv
  <2>2. wr.out \in Seq(Commands)
    BY <1>2 DEF DevInv, ListSound, Writers
  <2>3. Len(wr.out) \in Nat /\ DOMAIN wr.out = 1..Len(wr.out)
    BY <2>2
  <2>4. /\ \A i \in 1..(Len(wr.out) + 1) : Typed(M[i]) /\ Used(M[i]) <= wr.peak
        /\ \A i \in 1..Len(wr.out) : Served(M[i], wr.out[i], wr.peak)
    BY <2>1 DEF Executes, Run
  <2>5. CASE pc = "updating"
    BY <2>1, <2>3, <2>4, <2>5 DEF Arrived, This
  <2>6. CASE pc = "updated"
    <3>1. Len(wr.out) + 1 \in 1..(Len(wr.out) + 1)
      BY <2>3
    <3> QED
      BY <2>1, <2>4, <2>6, <3>1 DEF Arrived, Executes
  <2> QED
    BY <1>2, <2>5, <2>6 DEF Updating
<1> QED
  BY <1>1, <1>2

(* Types, and the operands of the commands.                                *)
THEOREM UpdateTypeCorrect == UpdateSpec => []UpdateTypeOK
<1>1. DevInv => UpdateTypeOK
  <2> SUFFICES ASSUME DevInv PROVE UpdateTypeOK
    OBVIOUS
  <2>1. pc \in Phases \cup {"revise", "check", "planned", "write", "written", "oversize",
                            "updating", "updated"}
    BY DEF DevInv, ListInv, Planning, Writing, Revising, Updating
  <2>2. ListTypeOK
    BY ListTypes, WritingTypes DEF DevInv
  <2>3. Typed(Now) /\ (pc = "updating" /\ idx \in DOMAIN wr.out => Served(Now, This, wr.peak))
    BY WhereItIs
  <2>4. ASSUME pc = "updating", idx \in DOMAIN wr.out
        PROVE  /\ This.op \in Operations
               /\ This.op # "free" => This.src \cup This.tgt # {}
    <3>1. WellFormed(This)
      BY <2>3, <2>4 DEF Served
    <3> QED
      BY <3>1 DEF WellFormed, Commands, Operations
  <2>5. DOMAIN device = Blocks
    BY <2>3, NowFields DEF Typed
  <2>6. \A k \in DOMAIN store : store[k] \in Seq({SourceData[b] : b \in Blocks}
                                   \cup {NewData[b] : b \in Blocks} \cup {Zeros, Erased})
    <3>1. \A k \in DOMAIN store : store[k] \in Seq(Values)
      BY <2>3, NowFields DEF Typed
    <3> QED
      BY <3>1 DEF Values
  <2>7. sound \in BOOLEAN
    BY <2>3, NowFields DEF Typed
  <2> QED
    BY <2>1, <2>2, <2>4, <2>5, <2>6, <2>7 DEF UpdateTypeOK
<1> QED
  BY <1>1, UpdateInductiveInvariant, PTL

(* Every stash a command reads exists when it runs, none is left over, and *)
(* what is erased first is not read (from format 3 on).                    *)
THEOREM ReadsAreServed == UpdateSpec => []ReadsServed
<1>1. DevInv => ReadsServed
  <2> SUFFICES ASSUME DevInv PROVE ReadsServed
    OBVIOUS
  <2>1. StashThere
    BY WhereItIs, NowFields DEF StashThere, Served
  <2>2. TouchedNotErased
    <3> SUFFICES ASSUME pc = "written", version >= 3 PROVE ErasesUnread
      BY DEF TouchedNotErased
    <3>1. Faithful(wr)
      BY DEF DevInv, ListInv, ListSound, Writing, Updating
    <3>2. ReadBlocks \subseteq wr.touched
      BY <3>1 DEF Faithful, ReadBlocks
    <3> QED
      BY <3>2 DEF ErasesUnread, EraseFirst
  <2> QED
    BY <2>1, <2>2 DEF ReadsServed
<1> QED
  BY <1>1, UpdateInductiveInvariant, PTL

(* A patch that found the wrong data is not forgotten.                     *)
LEMMA SoundBefore ==
    ASSUME NEW M, NEW q \in Seq(Commands), NEW n, Run(M, q, n), M[Len(q) + 1].sound = TRUE
    PROVE  \A i \in 1..(Len(q) + 1) : M[i].sound = TRUE
<1>1. PICK l : l = Len(q) /\ l \in Nat
  OBVIOUS
<1> DEFINE B == {i \in 0..l : M[l + 1 - i].sound = TRUE}
<1>2. 0 \in B
  BY <1>1
<1>3. ASSUME NEW i \in 1..l, i - 1 \in B PROVE i \in B
  <2>0. l \in Nat /\ i \in 1..l
    BY <1>1
  <2>1. PICK j : j = l + 1 - i /\ j \in 1..l /\ l + 1 - (i - 1) = j + 1
    BY ONLY <2>0
  <2>2. M[j + 1].sound = TRUE
    BY <1>3, <2>1
  <2>3. M[j + 1] = After(M[j], q[j]) /\ Typed(M[j])
    <3>1. j \in 1..Len(q) /\ j \in 1..(Len(q) + 1)
      BY <1>1, <2>1
    <3> QED
      BY <3>1 DEF Run
  <2>4. SoundAfter(M[j], q[j]) = TRUE /\ M[j].sound \in BOOLEAN
    BY <2>2, <2>3, AfterFields DEF Typed
  <2>5. M[j].sound = TRUE
    BY <2>4 DEF SoundAfter
  <2>6. i \in 0..l
    BY <1>1
  <2> QED
    BY <2>1, <2>5, <2>6
<1>4. B = 0..l
  <2>1. B \in SUBSET (0..l)
    OBVIOUS
  <2> HIDE DEF B
  <2> QED
    BY <1>1, <1>2, <1>3, <2>1, UpTo
<1>5. ASSUME NEW i \in 1..(l + 1) PROVE M[i].sound = TRUE
  <2>1. l + 1 - i \in 0..l /\ l + 1 - (l + 1 - i) = i
    BY <1>1
  <2>2. l + 1 - i \in B
    BY <1>4, <2>1
  <2> QED
    BY <2>1, <2>2
<1> QED
  BY <1>1, <1>5

(* The list turns the source image into the target image.                  *)
THEOREM ImageIsCorrect == UpdateSpec => []ImageCorrect
<1>1. DevInv => ImageCorrect
  <2> SUFFICES ASSUME DevInv, pc \in {"updating", "updated"}, ErasesUnread
               PROVE  /\ sound
                      /\ pc = "updated" =>
                            /\ \A t \in Transfers : \A b \in Tgt[t] : device[b] = Wanted(t, b)
                            /\ \A b \in Extended : device[b] = Zeros
    BY DEF ImageCorrect
  <2>1. CASE pc = "updated"
    <3>1. Complete(Now)
      BY <2>1, WhereItIs
    <3> QED
      BY <3>1, NowFields DEF Complete
  <2>2. CASE pc = "updating"
    <3>1. PICK M : Executes(M) /\ Arrived(M)
      BY <2>2 DEF DevInv, Updating
    <3>2. wr.out \in Seq(Commands)
      BY <2>2 DEF DevInv, Updating, ListSound, Writers
    <3>3. PICK q, n : q = wr.out /\ n = wr.peak
      OBVIOUS
    <3>4. q \in Seq(Commands) /\ Run(M, q, n) /\ Complete(M[Len(q) + 1])
      BY <3>1, <3>2, <3>3 DEF Executes
    <3>5. Typed(M[Len(q) + 1])
      <4>1. Len(q) + 1 \in 1..(Len(q) + 1)
        BY <3>4
      <4> QED
        BY <3>4, <4>1 DEF Run
    <3>6. M[Len(q) + 1].sound = TRUE
      BY <3>4, <3>5 DEF Complete, Typed
    <3>7. \A i \in 1..(Len(q) + 1) : M[i].sound = TRUE
      BY <3>4, <3>6, SoundBefore
    <3>8. idx \in 1..(Len(q) + 1) /\ Now = M[idx]
      BY <2>2, <3>1, <3>3 DEF Arrived
    <3> QED
      BY <2>2, <3>7, <3>8, NowFields
  <2> QED
    BY <2>1, <2>2
<1> QED
  BY <1>1, UpdateInductiveInvariant, PTL

(* What CacheUsed adds up, one file after the other.                       *)
LengthsAdder(files, K) ==
    CHOOSE g : g = [U \in SUBSET K |->
                      IF U = {} THEN 0 ELSE Len(files[Pick(U)]) + g[U \ {Pick(U)}]]

LEMMA LengthsAdd ==
    ASSUME NEW files, NEW K, NEW f, \A k \in K : f[k] = Len(files[k])
    PROVE  LengthsAdder(files, K)[K] = SumOver(f, K)
<1>1. \A U \in SUBSET K : U # {} => f[Pick(U)] = Len(files[Pick(U)])
  BY PickIn
<1>2. \A g : Adds(g, f, SUBSET K)
             <=> g = [U \in SUBSET K |->
                        IF U = {} THEN 0 ELSE Len(files[Pick(U)]) + g[U \ {Pick(U)}]]
  BY <1>1 DEF Adds
<1>3. LengthsAdder(files, K) = Adder(f, K)
  BY <1>2 DEF Adder, LengthsAdder
<1>4. SumOver(f, K) = Adder(f, K)[K]
  BY SumOverDef
<1> QED
  BY <1>3, <1>4

LEMMA CacheIsUsed == CacheUsed = Used(Now)
<1>1. CacheUsed = LengthsAdder(store, DOMAIN store)[DOMAIN store]
  BY Zenon DEF CacheUsed, MapThenSumSet, MapThenFoldSet, Pick, LengthsAdder
<1>2. PICK files, K, f : files = store /\ K = DOMAIN store /\ f = SizesOf(Now)
  OBVIOUS
<1>3. \A k \in K : f[k] = Len(files[k])
  BY <1>2, NowFields DEF SizesOf
<1>4. LengthsAdder(files, K)[K] = SumOver(f, K)
  BY <1>3, LengthsAdd
<1>5. Used(Now) = SumOver(f, K)
  BY Zenon, <1>2, NowFields DEF Used
<1>6. CacheUsed = LengthsAdder(files, K)[K]
  BY Zenon, <1>1, <1>2
<1> QED
  BY <1>4, <1>5, <1>6

(* The announced peak is enough at every point of the update.              *)
THEOREM PeakIsAnnounced == UpdateSpec => []PeakAnnounced
<1>1. DevInv => PeakAnnounced
  <2> SUFFICES ASSUME DevInv PROVE PeakAnnounced
    OBVIOUS
  <2>1. CacheUsed = Used(Now)
    BY CacheIsUsed
  <2>2. pc \in {"updating", "updated"} => CacheUsed <= wr.peak
    BY <2>1, WhereItIs DEF Updating
  <2>3. pc = "updating" /\ idx \in DOMAIN wr.out /\ Overlapping(This) =>
          CacheUsed + Cardinality(This.src) <= wr.peak
    BY <2>1, WhereItIs DEF Served
  <2> QED
    BY <2>2, <2>3 DEF PeakAnnounced
<1> QED
  BY <1>1, UpdateInductiveInvariant, PTL

-----------------------------------------------------------------------------
(* The plan and the list, as the whole program makes them.                 *)

(* Where the updater runs, none of the plan's phases is going on.          *)
LEMMA PlanOrUpdate ==
    /\ Updating \cap (Phases \cup Revising \cup {"write", "written", "oversize"}) = {}
    /\ "aborted" \in Phases
BY DEF Updating, Phases, Revising

LEMMA OrderStillGood == DevInv => NoReadAfterWrite /\ StashesPaired /\ PeelingExact
<1> SUFFICES ASSUME DevInv PROVE NoReadAfterWrite /\ StashesPaired /\ PeelingExact
  OBVIOUS
<1>1. CASE pc \in Phases
  <2>1. IInv /\ PeelInv
    BY <1>1, PlanOrUpdate DEF DevInv, ListInv, Planning, PlanInv
  <2>2. NoReadAfterWrite
    BY <2>1 DEF IInv
  <2>3. StashesPaired
    BY <2>1 DEF IInv, StashesMatched, StashesPaired, Sequenced
  <2>4. PeelingExact
    BY <2>1, PeelSuffices
  <2> QED
    BY <2>2, <2>3, <2>4
<1>2. CASE pc \notin Phases
  <2>1. pc \notin {"sequenced", "sinks", "sources", "best", "edges"}
    BY <1>2 DEF Phases
  <2>2. NoReadAfterWrite /\ StashesPaired
    BY <2>1 DEF NoReadAfterWrite, StashesPaired
  <2>3. PeelingExact
    BY <2>1 DEF PeelingExact, ResidualGraph, ScoreExact, BestIsLastResort, AcyclicIsFree,
                ViolatedOverlaps, Peeling
  <2> QED
    BY <2>2, <2>3
<1> QED
  BY <1>1, <1>2

LEMMA ListStillGood ==
    DevInv => NeverAborted /\ PlanConsistent /\ PlanFits /\ StashesExact
<1> SUFFICES ASSUME DevInv PROVE NeverAborted /\ PlanConsistent /\ PlanFits /\ StashesExact
  OBVIOUS
<1>1. CASE pc \notin Updating
  <2>1. ListInv
    BY <1>1 DEF DevInv
  <2>2. NeverAborted
    BY <2>1 DEF ListInv, NeverAborted
  <2>3. PlanConsistent
    <3>1. CASE pc \in Revising
      <4>1. PlanInv
        BY <2>1, <3>1 DEF ListInv, Planning
      <4> QED
        BY <4>1, ConsistentPlan
    <3>2. CASE pc \notin Revising
      BY <2>2, <3>2 DEF PlanConsistent, NeverAborted, Revising
    <3> QED
      BY <3>1, <3>2
  <2> QED
    BY <2>1, <2>2, <2>3, ListKeepsFit, ListKeepsStashes
<1>2. CASE pc \in Updating
  <2>1. pc \notin {"aborted", "revise", "check", "planned", "write", "oversize"}
    BY <1>2 DEF Updating
  <2>2. NeverAborted /\ PlanConsistent
    BY <2>1 DEF NeverAborted, PlanConsistent
  <2>3. PlanFits
    BY <2>1 DEF PlanFits, ExplicitStashFits, FittedIsAccepted
  <2>4. StashesExact
    BY <2>1 DEF StashesExact, HashesCounted, SlotsApart
  <2> QED
    BY <2>2, <2>3, <2>4
<1> QED
  BY <1>1, <1>2

(* What ListSpec, PlanSpec and Spec promise of their own steps holds as    *)
(* well when they are followed by the update: no double-check or assertion *)
(* fails, stashes are paired and counted exactly, the plan fits.           *)
THEOREM PlanHoldsThroughUpdate ==
    UpdateSpec => [](/\ NoReadAfterWrite /\ NeverAborted /\ StashesPaired /\ PeelingExact
                     /\ PlanConsistent /\ PlanFits /\ StashesExact)
BY OrderStillGood, ListStillGood, UpdateInductiveInvariant, PTL

(* A step that is not one of the plan leaves newBlocks to it.              *)
LEMMA OnlyThePlanRevises ==
    ASSUME [UpdateNext]_updateVars, pc = "revise", newBlocks' # newBlocks
    PROVE  PlanStep
<1>1. \/ PlanStep
      \/ ComputePatches \/ WriteTransfer \/ FinishWrite
      \/ StartUpdate \/ Applying \/ UpdateDone
      \/ UNCHANGED updateVars
  BY DEF UpdateNext, UpdateStep, UpdateReturned, Applying, ListStep
<1>2. ~(ComputePatches \/ WriteTransfer \/ FinishWrite)
  BY DEF ComputePatches, WriteTransfer, FinishWrite
<1>3. ~(StartUpdate \/ Applying \/ UpdateDone)
  BY StepIsAfter DEF StartUpdate, UpdateDone
<1>4. ~UNCHANGED updateVars
  BY DEF updateVars, listingVars, planVars, sizeVars
<1> QED
  BY <1>1, <1>2, <1>3, <1>4

(* Also of the whole program: a plan that fits loses no command to the     *)
(* revision.                                                               *)
THEOREM FittingPlansAreUpdated == UpdateSpec => FittingPlanKept
<1>1. DevInv /\ [UpdateNext]_updateVars =>
         [/\ newBlocks = 0 /\ pc = "revise"
          /\ \A i \in DOMAIN transfers : NeedAt(i) <= cache.allowed
          => newBlocks' = 0]_planVars
  <2> SUFFICES ASSUME DevInv, [UpdateNext]_updateVars, newBlocks = 0, pc = "revise",
                      \A i \in DOMAIN transfers : NeedAt(i) <= cache.allowed,
                      newBlocks' # newBlocks
               PROVE  newBlocks' = 0
    OBVIOUS
  <2>1. PlanInv
    BY DEF DevInv, ListInv, Planning, Revising, Updating
  <2>2. [PlanNext]_planVars
    BY OnlyThePlanRevises DEF PlanNext
  <2> QED
    BY <2>1, <2>2, FittingRound DEF planVars, sizeVars
<1> QED
  BY <1>1, UpdateInductiveInvariant, PTL DEF UpdateSpec, FittingPlanKept
=============================================================================
