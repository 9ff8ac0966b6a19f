--------------------------- MODULE PatchWorkersProofs --------------------------
(***************************************************************************)
(* However many threads take the diffs off the queue, in whatever order    *)
(* they finish and whichever of them fail: every patch is accounted for    *)
(* once, and lies in patch.dat where its command looks for it.             *)
(***************************************************************************)
EXTENDS PatchWorkers, SequenceTheorems, DataProofs

-----------------------------------------------------------------------------
(* The inductive invariant.                                                *)

(* The bytes of the patches before the i-th.                               *)
Before(i) == MapThenSumSet(LAMBDA j : PatchLen[j], {j \in Diffs : j < i})

Queued == {diffQ[k] : k \in DOMAIN diffQ}

(* The queue has no diff twice, and none that was taken off it.            *)
QueueFresh ==
    /\ \A i, j \in DOMAIN diffQ : diffQ[i] = diffQ[j] => i = j
    /\ \A d \in Queued : patches[d] = 0
    /\ \A d \in Queued, w \in Workers : job[w] # d

(* A diff that was taken was taken by one worker, and is done or with it.  *)
TakenOnce ==
    /\ \A v, w \in Workers : job[v] = job[w] /\ job[v] # 0 => v = w
    /\ \A d \in Diffs :
           patches[d] = 0 => d \in Queued \/ \E w \in Workers : job[w] = d

(* What a worker's place says of the diff it has taken.                    *)
PlaceAndJob ==
    \A w \in Workers :
        /\ at[w] = "new" => job[w] = 0
        /\ at[w] \in {"diff", "store", "died"} => job[w] # 0 /\ patches[job[w]] = 0
        /\ at[w] \in {"take", "ended"} /\ job[w] # 0 => patches[job[w]] # 0

(* A patch is at its number, and what is written so far are the first n,   *)
(* one after the other.                                                    *)
LaidOut ==
    /\ \A d \in Diffs : patches[d] \in {0, d}
    /\ \A d \in 1..n : patches[d] # 0 /\ start[d] = Before(d)
    /\ p = Before(n + 1)
    /\ main = "incremental" => n = Len(PatchLen)

IInv == TypeOK /\ QueueFresh /\ TakenOnce /\ PlaceAndJob /\ LaidOut

-----------------------------------------------------------------------------
(* A finite set of numbers can be sorted.                                  *)

LEMMA Largest ==
    ASSUME NEW S, IsFiniteSet(S), S # {}, NEW f, \A x \in S : f[x] \in Int
    PROVE  \E x \in S : \A y \in S : f[y] <= f[x]
<1> DEFINE F == {T \in SUBSET S : T # {} /\ ~ \E x \in T : \A y \in T : f[y] <= f[x]}
<1>1. SUFFICES ASSUME F # {} PROVE FALSE
  OBVIOUS
<1>2. PICK T \in F : \A U \in F : U \subseteq T => U = T
  <2>1. F \in SUBSET SUBSET S
    OBVIOUS
  <2> HIDE DEF F
  <2> QED
    BY <1>1, <2>1, MinimalSubset
<1>3. PICK a \in T : TRUE
  BY <1>2
<1>4. T \ {a} # {}
  BY <1>2, <1>3
<1>5. PICK x \in T \ {a} : \A y \in T \ {a} : f[y] <= f[x]
  <2>1. T \ {a} \notin F
    <3>1. T \ {a} # T /\ T \ {a} \subseteq T
      BY <1>3
    <3> HIDE DEF F
    <3> QED
      BY <1>2, <3>1
  <2>2. T \ {a} \in SUBSET S
    BY <1>2
  <2> QED
    BY <1>4, <2>1, <2>2
<1>6. f[a] \in Int /\ f[x] \in Int
  BY <1>2, <1>3, <1>5
<1>7. CASE f[a] <= f[x]
  BY <1>2, <1>5, <1>7
<1>8. CASE f[x] < f[a]
  <2>1. \A y \in T \ {a} : f[y] <= f[a]
    BY <1>2, <1>5, <1>6, <1>8
  <2> QED
    BY <1>2, <1>3, <1>6, <2>1
<1> QED
  BY <1>6, <1>7, <1>8

(* A list of T without repetition, in the order of f.                      *)
SortedList(q, f, T) ==
    /\ q \in [1..Cardinality(T) -> T]
    /\ \A i, j \in 1..Cardinality(T) : i < j => q[i] # q[j] /\ f[q[i]] <= f[q[j]]

LEMMA SortedExists ==
    ASSUME NEW S, IsFiniteSet(S), NEW f, \A x \in S : f[x] \in Int
    PROVE  \E q : SortedList(q, f, S)
<1> DEFINE F == {T \in SUBSET S : ~ \E q : SortedList(q, f, T)}
<1>1. SUFFICES ASSUME F # {} PROVE FALSE
  OBVIOUS
<1>2. PICK T \in F : \A U \in F : U \subseteq T => U = T
  <2>1. F \in SUBSET SUBSET S
    OBVIOUS
  <2> HIDE DEF F
  <2> QED
    BY <1>1, <2>1, MinimalSubset
<1>3. IsFiniteSet(T)
  BY <1>2, FS_Subset
<1>4. T # {}
  <2>1. Cardinality({}) = 0
    BY FS_EmptySet
  <2>2. SortedList([k \in {} |-> 0], f, {})
    BY <2>1 DEF SortedList
  <2> QED
    BY <1>2, <2>2
<1>5. PICK x \in T : \A y \in T : f[y] <= f[x]
  <2>1. \A y \in T : f[y] \in Int
    BY <1>2
  <2> QED
    BY <1>3, <1>4, <2>1, Largest
<1> DEFINE U == T \ {x}
           C == Cardinality(U)
<1>6. IsFiniteSet(U) /\ C \in Nat /\ Cardinality(T) = C + 1
  <2>1. IsFiniteSet(U)
    BY <1>3, FS_RemoveElement
  <2>2. C \in Nat
    BY <2>1, FS_CardinalityType
  <2>3. C = Cardinality(T) - 1 /\ Cardinality(T) \in Nat
    BY <1>3, <1>5, FS_RemoveElement, FS_CardinalityType
  <2> HIDE DEF U
  <2> QED
    BY <2>1, <2>2, <2>3
<1>7. PICK q : SortedList(q, f, U)
  BY <1>2, <1>5
<1> DEFINE r == [k \in 1..(C + 1) |-> IF k = C + 1 THEN x ELSE q[k]]
<1>8. \A k \in 1..C : r[k] = q[k] /\ q[k] \in U
  <2>1. q \in [1..C -> U]
    BY <1>7 DEF SortedList
  <2> HIDE DEF C, U
  <2> QED
    BY <1>6, <2>1
<1>9. r[C + 1] = x
  <2> HIDE DEF C
  <2> QED
    BY <1>6
<1>10. r \in [1..Cardinality(T) -> T]
  <2>1. \A k \in 1..(C + 1) : r[k] \in T
    <3>1. \A k \in 1..(C + 1) : k \in 1..C \/ k = C + 1
      <4> HIDE DEF C
      <4> QED
        BY <1>6
    <3> QED
      BY <1>5, <1>8, <1>9, <3>1
  <2> HIDE DEF C
  <2> QED
    BY <1>6, <2>1
<1>11. ASSUME NEW i \in 1..Cardinality(T), NEW j \in 1..Cardinality(T), i < j
       PROVE  r[i] # r[j] /\ f[r[i]] <= f[r[j]]
  <2>1. i \in 1..C
    BY <1>6, <1>11
  <2>2. CASE j \in 1..C
    BY <1>7, <1>8, <1>11, <2>1, <2>2 DEF SortedList
  <2>3. CASE j = C + 1
    <3>1. r[j] = x /\ r[i] \in U
      BY <1>8, <1>9, <2>1, <2>3
    <3> HIDE DEF r
    <3> QED
      BY <1>5, <3>1
  <2> QED
    BY <1>6, <2>2, <2>3
<1>12. SortedList(r, f, T)
  BY <1>10, <1>11 DEF SortedList
<1> QED
  BY <1>2, <1>12

(* The queue has every diff once.                                          *)
LEMMA SortedHasAll ==
    /\ SortedDiffs \in Seq(Diffs)
    /\ \A i, j \in DOMAIN SortedDiffs : SortedDiffs[i] = SortedDiffs[j] => i = j
    /\ \A d \in Diffs : \E k \in DOMAIN SortedDiffs : SortedDiffs[k] = d
<1>1. Diffs = 1..Len(PatchLen) /\ Len(PatchLen) \in Nat
  BY WorkersAssumption DEF Diffs
<1>2. IsFiniteSet(Diffs) /\ Cardinality(Diffs) = Len(PatchLen)
  <2> DEFINE N == Len(PatchLen)
  <2>1. IsFiniteSet(1..N) /\ Cardinality(1..N) = IF 1 > N THEN 0 ELSE N - 1 + 1
    BY <1>1, FS_Interval
  <2> HIDE DEF N
  <2> QED
    BY <1>1, <2>1 DEF N
<1>3. \E q : SortedList(q, TargetSize, Diffs)
  <2>1. \A d \in Diffs : TargetSize[d] \in Int
    BY WorkersAssumption
  <2> QED
    BY <1>2, <2>1, SortedExists
<1>4. \E q \in [Diffs -> Diffs] :
          \A i, j \in Diffs : i < j => /\ q[i] # q[j]
                                       /\ TargetSize[q[i]] <= TargetSize[q[j]]
  BY <1>1, <1>2, <1>3 DEF SortedList
<1>5. /\ SortedDiffs \in [Diffs -> Diffs]
      /\ \A i, j \in Diffs : i < j => SortedDiffs[i] # SortedDiffs[j]
  BY <1>4 DEF SortedDiffs
<1>6. \A i, j \in Diffs : SortedDiffs[i] = SortedDiffs[j] => i = j
  BY <1>1, <1>5
<1>7. SortedDiffs \in Injection(Diffs, Diffs)
  BY <1>5, <1>6 DEF Injection, IsInjective
<1>8. SortedDiffs \in Surjection(Diffs, Diffs)
  BY <1>2, <1>7, FS_Injection
<1>9. SortedDiffs \in Seq(Diffs)
  BY <1>1, <1>5
<1> QED
  BY <1>5, <1>6, <1>8, <1>9 DEF Surjection

-----------------------------------------------------------------------------
(* The lengths added up.                                                   *)

LEMMA SizesAreNumbers ==
    /\ Diffs = 1..Len(PatchLen) /\ Len(PatchLen) \in Nat
    /\ IsFiniteSet(Diffs)
    /\ \A d \in Diffs : PatchLen[d] \in Nat
<1>1. Diffs = 1..Len(PatchLen) /\ Len(PatchLen) \in Nat
  BY WorkersAssumption DEF Diffs
<1>2. IsFiniteSet(1..Len(PatchLen))
  BY <1>1, FS_Interval
<1>3. \A d \in Diffs : PatchLen[d] \in Nat
  BY WorkersAssumption DEF Diffs
<1> QED
  BY <1>1, <1>2, <1>3

LEMMA BeforeIsSum ==
    ASSUME NEW i
    PROVE  Before(i) = SumOver(PatchLen, {j \in Diffs : j < i})
BY Zenon DEF Before, SumOver

LEMMA TotalIsSum == TotalLen = SumOver(PatchLen, Diffs)
BY Zenon DEF TotalLen, SumOver

LEMMA BeforeInFile ==
    ASSUME NEW i
    PROVE  Before(i) \in 0..TotalLen
<1> DEFINE D == {j \in Diffs : j < i}
<1>1. D \in SUBSET Diffs /\ IsFiniteSet(D)
  BY SizesAreNumbers, FS_Subset
<1>2. \A d \in D : PatchLen[d] \in Nat
  BY SizesAreNumbers
<1>3. SumOver(PatchLen, D) \in Nat /\ SumOver(PatchLen, Diffs) \in Nat
  <2> HIDE DEF D
  <2>1. SumOver(PatchLen, D) \in Nat
    BY <1>1, <1>2, SumNat
  <2>2. SumOver(PatchLen, Diffs) \in Nat
    BY SizesAreNumbers, SumNat
  <2> QED
    BY <2>1, <2>2
<1>4. SumOver(PatchLen, D) <= SumOver(PatchLen, Diffs)
  <2> HIDE DEF D
  <2> QED
    BY <1>1, SizesAreNumbers, SumSubset
<1>5. Before(i) = SumOver(PatchLen, D)
  BY BeforeIsSum
<1> HIDE DEF D
<1> QED
  BY <1>3, <1>4, <1>5, TotalIsSum

LEMMA BeforeFirst == Before(1) = 0
<1>1. {j \in Diffs : j < 1} = {}
  BY SizesAreNumbers
<1> QED
  BY <1>1, BeforeIsSum, SumEmpty

LEMMA BeforeNext ==
    ASSUME NEW d \in Diffs
    PROVE  Before(d + 1) = Before(d) + PatchLen[d]
<1> DEFINE D == {j \in Diffs : j < d}
<1>1. {j \in Diffs : j < d + 1} = D \cup {d} /\ d \notin D
  BY SizesAreNumbers
<1>2. IsFiniteSet(D)
  BY SizesAreNumbers, FS_Subset
<1>3. \A j \in D : PatchLen[j] \in Int
  BY SizesAreNumbers
<1>4. PatchLen[d] \in Int
  BY SizesAreNumbers
<1>5. Before(d) = SumOver(PatchLen, D) /\ Before(d + 1) = SumOver(PatchLen, D \cup {d})
  BY <1>1, BeforeIsSum
<1>6. Before(d) \in Int
  BY BeforeInFile, SizesAreNumbers, TotalIsSum
<1>7. SumOver(PatchLen, D \cup {d}) = PatchLen[d] + SumOver(PatchLen, D)
  <2> HIDE DEF D
  <2> QED
    BY <1>1, <1>2, <1>3, <1>4, SumAdd
<1> HIDE DEF D
<1> QED
  BY <1>4, <1>5, <1>6, <1>7

-----------------------------------------------------------------------------

LEMMA InitIInv == Init => IInv
<1> SUFFICES ASSUME Init PROVE IInv
  OBVIOUS
<1>1. /\ diffQ \in Seq(Diffs)
      /\ \A i, j \in DOMAIN diffQ : diffQ[i] = diffQ[j] => i = j
      /\ \A d \in Diffs : d \in Queued
  BY SortedHasAll DEF Init, Queued
<1>2. \A d \in Queued : d \in Diffs /\ d # 0
  BY <1>1, SizesAreNumbers DEF Queued
<1>3. TotalLen \in Nat
  BY SizesAreNumbers, SumNat, TotalIsSum
<1>4. TypeOK
  BY <1>1, <1>3, SizesAreNumbers DEF Init, TypeOK
<1>5. QueueFresh /\ TakenOnce /\ PlaceAndJob
  BY <1>1, <1>2 DEF Init, QueueFresh, TakenOnce, PlaceAndJob
<1>6. LaidOut
  BY BeforeFirst DEF Init, LaidOut
<1> QED
  BY <1>4, <1>5, <1>6 DEF IInv

-----------------------------------------------------------------------------
(* One lemma for each action.                                              *)

LEMMA SameDiffs ==
    ASSUME QueueFresh, TakenOnce, UNCHANGED <<diffQ, job, patches>>
    PROVE  QueueFresh' /\ TakenOnce'
BY DEF QueueFresh, TakenOnce, Queued

LEMMA SameFile ==
    ASSUME LaidOut, UNCHANGED <<main, patches, n, p, start>>
    PROVE  LaidOut'
BY DEF LaidOut

LEMMA StartThreadStep ==
    ASSUME IInv, NEW w \in Workers, StartThread(w)
    PROVE  IInv'
<1> USE DEF IInv, StartThread
<1>1. TypeOK'
  BY DEF TypeOK
<1>2. PlaceAndJob'
  BY DEF PlaceAndJob, TypeOK
<1> QED
  BY <1>1, <1>2, SameDiffs, SameFile

(* The end of the queue was nobody's: it is now the worker's.              *)
LEMMA TakeStep ==
    ASSUME IInv, NEW w \in Workers, Take(w)
    PROVE  IInv'
<1> USE DEF IInv, Take
<1>1. main = "start"
  BY DEF TypeOK, Finished
<1>2. LaidOut'
  BY SameFile
<1>3. CASE diffQ = <<>> /\ at' = [at EXCEPT ![w] = "ended"] /\ UNCHANGED <<diffQ, job>>
  <2>1. TypeOK'
    BY <1>1, <1>3 DEF TypeOK
  <2>2. QueueFresh' /\ TakenOnce'
    BY <1>3, SameDiffs
  <2>3. PlaceAndJob'
    BY <1>3 DEF PlaceAndJob, TypeOK
  <2> QED
    BY <1>2, <2>1, <2>2, <2>3
<1>4. CASE /\ diffQ # <<>>
           /\ job' = [job EXCEPT ![w] = diffQ[Len(diffQ)]]
           /\ diffQ' = SubSeq(diffQ, 1, Len(diffQ) - 1)
           /\ at' = [at EXCEPT ![w] = "diff"]
  <2> DEFINE L == Len(diffQ)
             d == diffQ[L]
  <2>1. /\ diffQ \in Seq(Diffs) /\ L \in Nat \ {0} /\ DOMAIN diffQ = 1..L
        /\ \A k \in 1..L : diffQ[k] \in Diffs
    BY <1>4 DEF TypeOK
  <2>2. d \in Diffs /\ d # 0 /\ d \in Queued
    BY <2>1, SizesAreNumbers DEF Queued
  <2>3. /\ diffQ' \in Seq(Diffs) /\ DOMAIN diffQ' = 1..(L - 1)
        /\ \A k \in 1..(L - 1) : diffQ'[k] = diffQ[k]
    <3> HIDE DEF L
    <3>1. \A k \in 1..(L - 1) : diffQ[k] \in Diffs
      BY <2>1
    <3>2. /\ SubSeq(diffQ, 1, L - 1) \in Seq(Diffs)
          /\ Len(SubSeq(diffQ, 1, L - 1)) = IF 1 <= L - 1 THEN L - 1 - 1 + 1 ELSE 0
          /\ \A k \in 1..(L - 1 - 1 + 1) : SubSeq(diffQ, 1, L - 1)[k] = diffQ[1 + k - 1]
      BY <2>1, <3>1, SubSeqProperties
    <3>3. diffQ' = SubSeq(diffQ, 1, L - 1)
      BY <1>4 DEF L
    <3> QED
      BY <2>1, <3>2, <3>3
  <2>4. \A c \in Queued' : c \in Queued /\ c # d
    BY <2>1, <2>3 DEF QueueFresh, Queued
  <2>5. \A c \in Queued : c = d \/ c \in Queued'
    BY <2>1, <2>3 DEF Queued
  <2> HIDE DEF L
  <2>6. TypeOK'
    BY <1>1, <1>4, <2>2, <2>3 DEF TypeOK, L
  <2>7. QueueFresh'
    <3>1. \A i, j \in DOMAIN diffQ' : diffQ'[i] = diffQ'[j] => i = j
      BY <2>1, <2>3 DEF QueueFresh
    <3>2. \A c \in Queued' : patches'[c] = 0 /\ \A v \in Workers : job'[v] # c
      BY <1>4, <2>4 DEF QueueFresh, TypeOK, L
    <3> QED
      BY <3>1, <3>2 DEF QueueFresh
  <2>8. TakenOnce'
    <3>1. \A u, v \in Workers : job'[u] = job'[v] /\ job'[u] # 0 => u = v
      BY <1>4, <2>2 DEF QueueFresh, TakenOnce, TypeOK, L
    <3>2. ASSUME NEW c \in Diffs, patches'[c] = 0
          PROVE  c \in Queued' \/ \E v \in Workers : job'[v] = c
      <4>1. job[w] # 0 => patches[job[w]] # 0
        BY DEF PlaceAndJob
      <4>2. job'[w] = d /\ \A v \in Workers : v # w => job'[v] = job[v]
        BY <1>4 DEF TypeOK, L
      <4>3. CASE c \in Queued
        BY <2>5, <4>2, <4>3
      <4>4. CASE \E v \in Workers : job[v] = c
        BY <3>2, <4>1, <4>2, <4>4, SizesAreNumbers
      <4> QED
        BY <3>2, <4>3, <4>4 DEF TakenOnce
    <3> QED
      BY <3>1, <3>2 DEF TakenOnce
  <2>9. PlaceAndJob'
    <3>1. patches[d] = 0
      BY <2>2 DEF QueueFresh
    <3>2. job'[w] = d /\ at'[w] = "diff" /\ patches' = patches
      BY <1>4 DEF TypeOK, L
    <3>3. \A v \in Workers : v # w => job'[v] = job[v] /\ at'[v] = at[v]
      BY <1>4 DEF TypeOK
    <3> QED
      BY <2>2, <3>1, <3>2, <3>3 DEF PlaceAndJob
  <2> QED
    BY <1>2, <2>6, <2>7, <2>8, <2>9
<1> QED
  BY <1>3, <1>4

LEMMA DiffStep ==
    ASSUME IInv, NEW w \in Workers, Diff(w)
    PROVE  IInv'
<1> USE DEF IInv, Diff
<1>1. TypeOK'
  BY DEF TypeOK, Finished
<1>2. PlaceAndJob'
  BY DEF PlaceAndJob, TypeOK
<1> QED
  BY <1>1, <1>2, SameDiffs, SameFile

(* Only the worker itself has the diff whose patch it puts in place.       *)
LEMMA StoreStep ==
    ASSUME IInv, NEW w \in Workers, Store(w)
    PROVE  IInv'
<1> USE DEF IInv, Store, PatchNum
<1> DEFINE d == job[w]
<1>1. d \in Diffs /\ d # 0 /\ patches[d] = 0
  BY DEF PlaceAndJob, TypeOK
<1>2. patches'[d] = d /\ \A c \in Diffs : c # d => patches'[c] = patches[c]
  BY <1>1 DEF TypeOK
<1>3. \A v \in Workers : v # w => job[v] # d
  BY <1>1 DEF TakenOnce
<1>4. main = "start"
  BY DEF TypeOK, Finished
<1>5. TypeOK'
  BY <1>1, <1>4 DEF TypeOK
<1>6. QueueFresh'
  <2>1. Queued' = Queued
    BY DEF Queued
  <2>2. \A k \in DOMAIN diffQ : diffQ[k] \in Diffs
    BY DEF TypeOK
  <2>3. ASSUME NEW c \in Queued PROVE patches'[c] = 0
    <3>1. c \in Diffs
      BY <2>2 DEF Queued
    <3>2. d # c /\ patches[c] = 0
      BY DEF QueueFresh
    <3> QED
      BY <1>2, <3>1, <3>2
  <2> QED
    BY <2>1, <2>3 DEF QueueFresh
<1>7. TakenOnce'
  BY <1>1, <1>2 DEF TakenOnce, Queued
<1>8. PlaceAndJob'
  <2>1. at'[w] = "take" /\ \A v \in Workers : v # w => at'[v] = at[v]
    BY DEF TypeOK
  <2>2. \A v \in Workers : v # w /\ job[v] # 0 => patches'[job[v]] = patches[job[v]]
    BY <1>2, <1>3 DEF TypeOK
  <2> QED
    BY <1>1, <1>2, <2>1, <2>2 DEF PlaceAndJob
<1>9. LaidOut'
  <2>1. 1..n \subseteq Diffs
    BY SizesAreNumbers DEF TypeOK
  <2> QED
    BY <1>1, <1>2, <2>1 DEF LaidOut
<1> QED
  BY <1>5, <1>6, <1>7, <1>8, <1>9

LEMMA JoinThreadsStep ==
    ASSUME IInv, JoinThreads
    PROVE  IInv'
<1> USE DEF IInv, JoinThreads
<1>1. TypeOK'
  BY DEF TypeOK, Finished
<1>2. PlaceAndJob' /\ LaidOut'
  BY DEF PlaceAndJob, LaidOut
<1> QED
  BY <1>1, <1>2, SameDiffs

(* The next patch is the one with that number, or is missing.              *)
LEMMA WritePatchStep ==
    ASSUME IInv, WritePatch
    PROVE  IInv'
<1> USE DEF IInv, WritePatch, Written
<1>1. n + 1 \in Diffs /\ n \in Nat
  BY SizesAreNumbers DEF TypeOK
<1>2. QueueFresh' /\ TakenOnce'
  BY SameDiffs
<1>3. PlaceAndJob'
  BY DEF PlaceAndJob
<1>4. CASE patches[n + 1] = 0 /\ main' = "TypeError" /\ UNCHANGED <<n, p, start>>
  <2>1. TypeOK'
    BY <1>4 DEF TypeOK, Finished
  <2>2. LaidOut'
    BY <1>4 DEF LaidOut
  <2> QED
    BY <1>2, <1>3, <2>1, <2>2
<1>5. CASE /\ patches[n + 1] # 0
           /\ start' = [start EXCEPT ![patches[n + 1]] = p]
           /\ p' = p + PatchLen[patches[n + 1]]
           /\ n' = n + 1
           /\ main' = main
  <2> DEFINE d == n + 1
  <2>1. patches[d] = d
    BY <1>1, <1>5 DEF LaidOut
  <2>2. start' = [start EXCEPT ![d] = p] /\ p' = p + PatchLen[d] /\ n' = d
    BY <1>5, <2>1
  <2>3. p = Before(d) /\ p' = Before(d + 1)
    BY <1>1, <2>2, BeforeNext DEF LaidOut
  <2>4. p \in 0..TotalLen /\ p' \in 0..TotalLen
    BY <2>3, BeforeInFile
  <2>5. d \in 0..Len(PatchLen)
    BY <1>1, SizesAreNumbers
  <2>6. TotalLen \in Nat
    BY SizesAreNumbers, SumNat, TotalIsSum
  <2>7. start' \in [Diffs -> -1..TotalLen]
    <3> HIDE DEF d
    <3>1. p \in -1..TotalLen
      BY <2>4, <2>6
    <3> QED
      BY <2>2, <3>1 DEF TypeOK
  <2>8. TypeOK'
    <3> HIDE DEF d
    <3> QED
      BY <1>5, <2>2, <2>4, <2>5, <2>7 DEF TypeOK, Finished
  <2>9. LaidOut'
    <3>1. \A c \in 1..n : c \in Diffs /\ c # d
      BY <1>1, SizesAreNumbers
    <3>2. \A c \in 1..d : c \in 1..n \/ c = d
      BY <1>1
    <3>3. start'[d] = p /\ \A c \in Diffs : c # d => start'[c] = start[c]
      BY <1>1, <2>2 DEF TypeOK
    <3>4. patches' = patches /\ main' = "write"
      BY <1>5
    <3> HIDE DEF d
    <3>5. \A c \in 1..d : patches[c] # 0 /\ start'[c] = Before(c)
      BY <1>5, <2>3, <3>1, <3>2, <3>3 DEF LaidOut, d
    <3> QED
      BY <2>2, <2>3, <3>4, <3>5 DEF LaidOut
  <2> QED
    BY <1>2, <1>3, <2>8, <2>9
<1> QED
  BY <1>4, <1>5

LEMMA PackageDoneStep ==
    ASSUME IInv, PackageDone
    PROVE  IInv'
<1> USE DEF IInv, PackageDone
<1>1. TypeOK'
  BY DEF TypeOK, Finished
<1>2. PlaceAndJob' /\ LaidOut'
  BY DEF PlaceAndJob, LaidOut
<1> QED
  BY <1>1, <1>2, SameDiffs

LEMMA HandleFailureStep ==
    ASSUME IInv, HandleFailure
    PROVE  IInv'
<1> USE DEF IInv, HandleFailure
<1>1. TypeOK'
  BY DEF TypeOK, Finished
<1>2. PlaceAndJob' /\ LaidOut'
  BY DEF PlaceAndJob, LaidOut
<1> QED
  BY <1>1, <1>2, SameDiffs

LEMMA StutterStep ==
    ASSUME IInv, UNCHANGED vars
    PROVE  IInv'
BY DEF IInv, TypeOK, vars, QueueFresh, TakenOnce, Queued, PlaceAndJob, LaidOut, Finished

-----------------------------------------------------------------------------

LEMMA IInvImpliesOnce == IInv => EachDiffOnce
<1> SUFFICES ASSUME IInv, NEW i \in Diffs
             PROVE  LET takers == {w \in Workers : job[w] = i
                                                   /\ at[w] \in {"diff", "store", "died"}}
                        queued == {k \in DOMAIN diffQ : diffQ[k] = i}
                    IN  Cardinality(takers) + Cardinality(queued)
                          + (IF patches[i] = 0 THEN 0 ELSE 1) = 1
  BY DEF EachDiffOnce
<1> DEFINE takers == {w \in Workers : job[w] = i /\ at[w] \in {"diff", "store", "died"}}
           queued == {k \in DOMAIN diffQ : diffQ[k] = i}
<1>1. i # 0
  BY SizesAreNumbers
<1>2. CASE patches[i] # 0
  <2>1. takers = {} /\ queued = {}
    BY <1>2 DEF IInv, QueueFresh, Queued, PlaceAndJob
  <2> QED
    BY <1>2, <2>1, FS_EmptySet
<1>3. CASE patches[i] = 0 /\ i \in Queued
  <2>1. takers = {}
    BY <1>3 DEF IInv, QueueFresh
  <2>2. PICK k \in DOMAIN diffQ : diffQ[k] = i
    BY <1>3 DEF Queued
  <2>3. queued = {k}
    BY <2>2 DEF IInv, QueueFresh
  <2>4. Cardinality(takers) = 0 /\ Cardinality(queued) = 1
    BY <2>1, <2>3, FS_EmptySet, FS_Singleton
  <2> QED
    BY <1>3, <2>4
<1>4. CASE patches[i] = 0 /\ i \notin Queued
  <2>1. queued = {}
    BY <1>4 DEF Queued
  <2>2. PICK w \in Workers : job[w] = i
    BY <1>4 DEF IInv, TakenOnce
  <2>3. at[w] \in {"diff", "store", "died"}
    BY <1>1, <1>4, <2>2 DEF IInv, PlaceAndJob, TypeOK
  <2>4. takers = {w}
    BY <1>1, <2>2, <2>3 DEF IInv, TakenOnce
  <2>5. Cardinality(takers) = 1 /\ Cardinality(queued) = 0
    BY <2>1, <2>4, FS_EmptySet, FS_Singleton
  <2> QED
    BY <1>4, <2>5
<1> QED
  BY <1>2, <1>3, <1>4

LEMMA IInvImpliesPlace == IInv => PatchesInPlace /\ FailureNoticed
<1> SUFFICES ASSUME IInv, main = "incremental"
             PROVE  /\ \A i \in Diffs : start[i] = Before(i)
                    /\ \A w \in Workers : at[w] # "died"
  BY DEF PatchesInPlace, FailureNoticed, Before
<1>1. \A i \in Diffs : patches[i] # 0 /\ start[i] = Before(i)
  BY SizesAreNumbers DEF IInv, LaidOut
<1>2. \A w \in Workers : at[w] # "died"
  BY <1>1 DEF IInv, PlaceAndJob, TypeOK
<1> QED
  BY <1>1, <1>2

(* Between the queue, the workers and patches no diff is lost or taken     *)
(* twice, at every interleaving of the threads of ComputePatches.          *)
THEOREM PatchWorkersInvariant == Spec => []IInv
<1>1. IInv /\ [Next]_vars => IInv'
  BY StartThreadStep, TakeStep, DiffStep, StoreStep, JoinThreadsStep, WritePatchStep,
     PackageDoneStep, HandleFailureStep, StutterStep
  DEF Next, Work, Main, Ended
<1> QED
  BY <1>1, InitIInv, PTL DEF Spec

(* Whatever the number of threads, the lengths of the patches and the      *)
(* diffs that fail: each diff is accounted for once, every transfer's      *)
(* patch_start is the sum of the patches before it, and no incremental     *)
(* package is made when a worker of ComputePatches has died.               *)
THEOREM PatchesAreComplete == Spec => []PatchesComplete
<1>1. IInv => PatchesComplete
  BY IInvImpliesOnce, IInvImpliesPlace DEF IInv, PatchesComplete
<1> QED
  BY <1>1, PatchWorkersInvariant, PTL
=============================================================================
