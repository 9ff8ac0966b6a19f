--------------------------- MODULE DiffWorkersProofs ---------------------------
(***************************************************************************)
(* However many threads share the iterator, and whichever of the tool, the *)
(* time limits and the signals comes first for each of them: every file is *)
(* taken once, and what the caller finds is honest.                        *)
(***************************************************************************)
EXTENDS DiffWorkers, FiniteSetTheorems, SequenceTheorems, TLAPS

-----------------------------------------------------------------------------
(* The inductive invariant.                                                *)

(* What the iterator still has, and where a worker has a file in hand.     *)
Coming == {diffIter[k] : k \in DOMAIN diffIter}
InHand == {"run", "join300", "terminate", "join5", "kill", "join", "result"}

(* The iterator has no file twice, and none that was taken from it.        *)
IteratorFresh ==
    /\ \A i, j \in DOMAIN diffIter : diffIter[i] = diffIter[j] => i = j
    /\ \A d \in Coming : patch[d] = "unset"
    /\ \A d \in Coming, w \in Workers : job[w] # d

(* A file that was taken was taken by one worker, and is done or with it.  *)
TakenOnce ==
    /\ \A v, w \in Workers : job[v] = job[w] /\ job[v] # 0 => v = w
    /\ \A d \in Diffs :
           patch[d] = "unset" => d \in Coming \/ \E w \in Workers : job[w] = d

(* The iterator, and the message, are reached under the lock.              *)
UnderLock == \A w \in Workers : at[w] \in {"next", "report"} => lock = w

(* What each place says of the file in hand: between the iterator and the  *)
(* result it is undone, and outside it is done, but for a worker that died.*)
PlaceAndJob ==
    \A w \in Workers :
        /\ at[w] \in InHand => job[w] # 0 /\ patch[job[w]] = "unset"
        /\ at[w] \in {"reacquire", "report"} => job[w] # 0
        /\ at[w] \notin InHand \cup {"died"} /\ job[w] # 0 => patch[job[w]] # "unset"
        /\ at[w] = "ended" => diffIter = <<>>

(* The tool is over when it has been waited for, as it has been before the *)
(* result is looked at; and a patch kept is the work of a tool that ended. *)
ToolAndPlace ==
    \A w \in Workers :
        /\ reaped[w] => tool[w] \in {"ok", "failed", "killed"}
        /\ at[w] \in {"result", "reacquire", "report"} => reaped[w]

CallerWaits == main = "done" => \A w \in Workers : Finished(w)

IInv ==
    /\ TypeOK /\ IteratorFresh /\ TakenOnce /\ UnderLock
    /\ PlaceAndJob /\ ToolAndPlace /\ CallerWaits /\ NoTornPatch

-----------------------------------------------------------------------------
(* The list sorted by size has every file once.                            *)
LEMMA SortedHasAll ==
    ASSUME NEW q \in BySize
    PROVE  /\ q \in Seq(Diffs)
           /\ \A i, j \in DOMAIN q : q[i] = q[j] => i = j
           /\ \A d \in Diffs : \E k \in DOMAIN q : q[k] = d
<1> DEFINE C == Cardinality(Diffs)
<1>1. /\ Diffs = 1..Len(FileSize)
      /\ Len(FileSize) \in Nat
  BY DiffsAssumption DEF Diffs
<1>2. IsFiniteSet(Diffs) /\ C = Len(FileSize)
  BY <1>1, FS_Interval
<1>3. /\ q \in [1..C -> Diffs]
      /\ \A i, j \in 1..C : i # j => q[i] # q[j]
  BY DEF BySize, SetToSeqs
<1>4. DOMAIN q = 1..C /\ C \in Nat
  BY <1>1, <1>2, <1>3
<1>5. q \in Seq(Diffs)
  <2> HIDE DEF C
  <2> QED
    BY <1>3, <1>4
<1>6. q \in Injection(1..C, Diffs)
  BY <1>3 DEF Injection, IsInjective, Injection
<1>7. IsFiniteSet(1..C) /\ Cardinality(1..C) = C
  BY <1>4, FS_Interval
<1>8. q \in Surjection(1..C, Diffs)
  <2> HIDE DEF C
  <2> QED
    BY <1>2, <1>6, <1>7, FS_Injection DEF C
<1>9. \A d \in Diffs : \E k \in 1..C : q[k] = d
  BY <1>8 DEF Surjection
<1> QED
  BY <1>3, <1>4, <1>5, <1>9

LEMMA InitIInv == Init => IInv
<1> SUFFICES ASSUME Init PROVE IInv
  OBVIOUS
<1>1. /\ diffIter \in Seq(Diffs)
      /\ \A i, j \in DOMAIN diffIter : diffIter[i] = diffIter[j] => i = j
      /\ \A d \in Diffs : d \in Coming
  BY SortedHasAll DEF Init, Coming
<1>2. \A d \in Coming : d \in Diffs /\ d # 0
  BY <1>1, DiffsAssumption DEF Coming, Diffs
<1>3. TypeOK
  BY <1>1 DEF Init, TypeOK
<1>4. IteratorFresh /\ TakenOnce
  BY <1>1, <1>2 DEF Init, IteratorFresh, TakenOnce
<1>5. UnderLock /\ PlaceAndJob /\ ToolAndPlace /\ CallerWaits /\ NoTornPatch
  BY DEF Init, UnderLock, PlaceAndJob, InHand, ToolAndPlace, CallerWaits, NoTornPatch
<1> QED
  BY <1>3, <1>4, <1>5 DEF IInv

-----------------------------------------------------------------------------
(* One lemma for each action.                                              *)

LEMMA TypeStep == TypeOK /\ [Next]_vars => TypeOK'
<1> SUFFICES ASSUME TypeOK, [Next]_vars PROVE TypeOK'
  OBVIOUS
<1> USE DEF TypeOK, Goto, Process
<1>1. ASSUME NEW w \in Workers, Acquire(w) PROVE TypeOK'
  BY <1>1 DEF Acquire
<1>2. ASSUME NEW w \in Workers, NextDiff(w) PROVE TypeOK'
  <2>1. CASE diffIter # <<>> /\ job' = [job EXCEPT ![w] = Head(diffIter)]
               /\ diffIter' = Rest(diffIter) /\ lock' = Nobody /\ Goto(w, "run")
    <3>1. Head(diffIter) \in Diffs /\ Tail(diffIter) \in Seq(Diffs)
      BY <2>1, HeadTailProperties
    <3> QED
      BY <1>2, <2>1, <3>1 DEF NextDiff, Rest
  <2> QED
    BY <1>2, <2>1 DEF NextDiff
<1>3. ASSUME NEW w \in Workers, StartTool(w) PROVE TypeOK'
  BY <1>3 DEF StartTool
<1>4. ASSUME NEW w \in Workers, Joined(w) PROVE TypeOK'
  BY <1>4 DEF Joined
<1>5. ASSUME NEW w \in Workers, Signal(w) PROVE TypeOK'
  BY <1>5 DEF Signal
<1>6. ASSUME NEW w \in Workers, Result(w) PROVE TypeOK'
  BY <1>6 DEF Result, Succeeded
<1>7. ASSUME NEW w \in Workers, Report(w) PROVE TypeOK'
  BY <1>7 DEF Report
<1>8. ASSUME NEW w \in Workers, ToolEnds(w) PROVE TypeOK'
  BY <1>8 DEF ToolEnds
<1>9. ASSUME NEW w \in Workers, Reap(w) PROVE TypeOK'
  BY <1>9 DEF Reap
<1>10. CASE JoinAll
  BY <1>10 DEF JoinAll
<1>11. CASE UNCHANGED vars
  BY <1>11 DEF vars
<1> QED
  BY <1>1, <1>2, <1>3, <1>4, <1>5, <1>6, <1>7, <1>8, <1>9, <1>10, <1>11
  DEF Next, Work, Ended

(* Nothing but taking a file, and its result, touches what says whose each *)
(* file is.                                                                *)
LEMMA SameFiles ==
    ASSUME IteratorFresh, TakenOnce, UNCHANGED <<diffIter, job, patch>>
    PROVE  IteratorFresh' /\ TakenOnce'
BY DEF IteratorFresh, TakenOnce, Coming

LEMMA AcquireStep ==
    ASSUME IInv, NEW w \in Workers, Acquire(w), TypeOK'
    PROVE  IInv'
<1> USE DEF IInv, TypeOK, Acquire, Goto, Process
<1>1. IteratorFresh' /\ TakenOnce'
  BY SameFiles
<1>2. UnderLock'
  BY DiffsAssumption DEF UnderLock
<1>3. PlaceAndJob'
  BY DEF PlaceAndJob, InHand
<1>4. ToolAndPlace' /\ CallerWaits' /\ NoTornPatch'
  BY DEF ToolAndPlace, CallerWaits, Finished, NoTornPatch
<1> QED
  BY <1>1, <1>2, <1>3, <1>4

(* The head of the iterator was nobody's: it is now the worker's.          *)
LEMMA NextDiffStep ==
    ASSUME IInv, NEW w \in Workers, NextDiff(w), TypeOK'
    PROVE  IInv'
<1> USE DEF IInv, TypeOK, NextDiff, Goto, Process
<1>1. CASE diffIter = <<>> /\ lock' = Nobody /\ Goto(w, "ended") /\ UNCHANGED <<job, diffIter>>
  <2>1. IteratorFresh' /\ TakenOnce'
    BY <1>1, SameFiles
  <2>2. UnderLock'
    BY <1>1 DEF UnderLock
  <2>3. PlaceAndJob'
    BY <1>1 DEF PlaceAndJob, InHand
  <2>4. ToolAndPlace' /\ CallerWaits' /\ NoTornPatch'
    BY <1>1 DEF ToolAndPlace, CallerWaits, Finished, NoTornPatch
  <2> QED
    BY <2>1, <2>2, <2>3, <2>4
<1>2. CASE /\ diffIter # <<>>
           /\ job' = [job EXCEPT ![w] = Head(diffIter)]
           /\ diffIter' = Rest(diffIter)
           /\ lock' = Nobody
           /\ Goto(w, "run")
  <2> DEFINE d == Head(diffIter)
  <2>1. /\ d = diffIter[1] /\ d \in Diffs /\ d \in Coming /\ d # 0
        /\ 1 \in DOMAIN diffIter
    BY <1>2, HeadTailProperties, DiffsAssumption DEF Coming, Diffs
  <2>2. /\ Len(diffIter') = Len(diffIter) - 1
        /\ \A k \in DOMAIN diffIter' : k + 1 \in DOMAIN diffIter /\ diffIter'[k] = diffIter[k + 1]
    BY <1>2, HeadTailProperties DEF Rest
  <2>3. \A c \in Coming' : c \in Coming /\ c # d
    BY <2>1, <2>2 DEF IteratorFresh, Coming
  <2>4. \A c \in Coming : c = d \/ c \in Coming'
    <3> SUFFICES ASSUME NEW k \in DOMAIN diffIter, diffIter[k] # d
                 PROVE  diffIter[k] \in Coming'
      BY DEF Coming
    <3>1. k - 1 \in DOMAIN diffIter' /\ diffIter'[k - 1] = diffIter[k]
      BY <2>1, <2>2
    <3> QED
      BY <3>1 DEF Coming
  <2>5. IteratorFresh'
    <3>1. \A i, j \in DOMAIN diffIter' : diffIter'[i] = diffIter'[j] => i = j
      BY <2>2 DEF IteratorFresh
    <3>2. \A c \in Coming' : patch'[c] = "unset" /\ \A v \in Workers : job'[v] # c
      BY <1>2, <2>3 DEF IteratorFresh
    <3> QED
      BY <3>1, <3>2 DEF IteratorFresh
  <2>6. TakenOnce'
    <3>1. \A u, v \in Workers : job'[u] = job'[v] /\ job'[u] # 0 => u = v
      BY <1>2, <2>1 DEF IteratorFresh, TakenOnce
    <3>2. ASSUME NEW c \in Diffs, patch'[c] = "unset"
          PROVE  c \in Coming' \/ \E v \in Workers : job'[v] = c
      <4>1. at[w] = "next" /\ (job[w] # 0 => patch[job[w]] # "unset")
        BY DEF PlaceAndJob, InHand
      <4>2. CASE c \in Coming
        BY <1>2, <2>4, <4>2
      <4>3. CASE \E v \in Workers : job[v] = c
        BY <1>2, <3>2, <4>1, <4>3, DiffsAssumption DEF Diffs
      <4> QED
        BY <3>2, <4>2, <4>3 DEF TakenOnce
    <3> QED
      BY <3>1, <3>2 DEF TakenOnce
  <2>7. UnderLock'
    BY <1>2 DEF UnderLock
  <2>8. PlaceAndJob'
    <3>1. patch[d] = "unset"
      BY <2>1 DEF IteratorFresh
    <3> QED
      BY <1>2, <2>1, <3>1 DEF PlaceAndJob, InHand
  <2>9. ToolAndPlace' /\ CallerWaits' /\ NoTornPatch'
    BY <1>2 DEF ToolAndPlace, CallerWaits, Finished, NoTornPatch
  <2> QED
    BY <2>5, <2>6, <2>7, <2>8, <2>9
<1> QED
  BY <1>1, <1>2

LEMMA StartToolStep ==
    ASSUME IInv, NEW w \in Workers, StartTool(w), TypeOK'
    PROVE  IInv'
<1> USE DEF IInv, TypeOK, StartTool, Goto, Process
<1>1. IteratorFresh' /\ TakenOnce'
  BY SameFiles
<1>2. UnderLock' /\ PlaceAndJob'
  BY DEF UnderLock, PlaceAndJob, InHand
<1>3. ToolAndPlace' /\ CallerWaits' /\ NoTornPatch'
  BY DEF ToolAndPlace, CallerWaits, Finished, NoTornPatch
<1> QED
  BY <1>1, <1>2, <1>3

LEMMA JoinedStep ==
    ASSUME IInv, NEW w \in Workers, Joined(w), TypeOK'
    PROVE  IInv'
<1> USE DEF IInv, TypeOK, Joined, Goto, Process
<1>1. IteratorFresh' /\ TakenOnce'
  BY SameFiles
<1>2. UnderLock' /\ PlaceAndJob'
  BY DEF UnderLock, PlaceAndJob, InHand
<1>3. ToolAndPlace' /\ CallerWaits' /\ NoTornPatch'
  BY DEF ToolAndPlace, CallerWaits, Finished, NoTornPatch
<1> QED
  BY <1>1, <1>2, <1>3

LEMMA SignalStep ==
    ASSUME IInv, NEW w \in Workers, Signal(w), TypeOK'
    PROVE  IInv'
<1> USE DEF IInv, TypeOK, Signal, Goto, Process
<1>1. IteratorFresh' /\ TakenOnce'
  BY SameFiles
<1>2. UnderLock' /\ PlaceAndJob'
  BY DEF UnderLock, PlaceAndJob, InHand
<1>3. ToolAndPlace' /\ CallerWaits' /\ NoTornPatch'
  BY DEF ToolAndPlace, CallerWaits, Finished, NoTornPatch
<1> QED
  BY <1>1, <1>2, <1>3

(* Only the worker itself has the file whose patch it sets.                *)
LEMMA ResultStep ==
    ASSUME IInv, NEW w \in Workers, Result(w), TypeOK'
    PROVE  IInv'
<1> USE DEF IInv, TypeOK, Result, Goto, Process
<1>1. /\ job[w] \in Diffs
      /\ \A v \in Workers : v # w /\ job[v] # 0 => job[v] # job[w]
      /\ patch'[job[w]] # "unset" /\ (patch'[job[w]] = "patch" => tool[w] = "ok")
      /\ \A d \in Diffs : d # job[w] => patch'[d] = patch[d]
  BY DEF PlaceAndJob, InHand, TakenOnce, Succeeded
<1>2. IteratorFresh'
  <2>1. \A k \in DOMAIN diffIter : diffIter[k] \in Diffs
    BY ElementOfSeq
  <2>2. ASSUME NEW d \in Coming PROVE patch'[d] = "unset"
    <3>1. d \in Diffs
      BY <2>1 DEF Coming
    <3>2. job[w] # d /\ patch[d] = "unset"
      BY DEF IteratorFresh
    <3> QED
      BY <1>1, <3>1, <3>2
  <2>3. Coming' = Coming
    BY DEF Coming
  <2> QED
    BY <2>2, <2>3 DEF IteratorFresh
<1>3. TakenOnce'
  BY <1>1 DEF TakenOnce, Coming
<1>4. UnderLock'
  BY DEF UnderLock
<1>5. PlaceAndJob'
  BY <1>1 DEF PlaceAndJob, InHand
<1>6. ToolAndPlace' /\ CallerWaits'
  BY DEF ToolAndPlace, CallerWaits, Finished
<1>7. NoTornPatch'
  BY <1>1 DEF NoTornPatch, PlaceAndJob
<1> QED
  BY <1>2, <1>3, <1>4, <1>5, <1>6, <1>7

LEMMA ReportStep ==
    ASSUME IInv, NEW w \in Workers, Report(w), TypeOK'
    PROVE  IInv'
<1> USE DEF IInv, TypeOK, Report, Goto, Process
<1>1. IteratorFresh' /\ TakenOnce'
  BY SameFiles
<1>2. UnderLock' /\ PlaceAndJob'
  BY DEF UnderLock, PlaceAndJob, InHand
<1>3. ToolAndPlace' /\ CallerWaits' /\ NoTornPatch'
  BY DEF ToolAndPlace, CallerWaits, Finished, NoTornPatch
<1> QED
  BY <1>1, <1>2, <1>3

(* A tool that ends had not been waited for.                               *)
LEMMA ToolEndsStep ==
    ASSUME IInv, NEW w \in Workers, ToolEnds(w), TypeOK'
    PROVE  IInv'
<1> USE DEF IInv, TypeOK, ToolEnds
<1>1. IteratorFresh' /\ TakenOnce'
  BY SameFiles
<1>2. UnderLock' /\ PlaceAndJob'
  BY DEF UnderLock, PlaceAndJob, InHand
<1>3. ToolAndPlace' /\ CallerWaits' /\ NoTornPatch'
  BY DEF ToolAndPlace, CallerWaits, Finished, NoTornPatch
<1> QED
  BY <1>1, <1>2, <1>3

LEMMA ReapStep ==
    ASSUME IInv, NEW w \in Workers, Reap(w), TypeOK'
    PROVE  IInv'
<1> USE DEF IInv, TypeOK, Reap
<1>1. IteratorFresh' /\ TakenOnce'
  BY SameFiles
<1>2. UnderLock' /\ PlaceAndJob'
  BY DEF UnderLock, PlaceAndJob, InHand
<1>3. ToolAndPlace' /\ CallerWaits' /\ NoTornPatch'
  BY DEF ToolAndPlace, CallerWaits, Finished, NoTornPatch
<1> QED
  BY <1>1, <1>2, <1>3

LEMMA JoinAllStep ==
    ASSUME IInv, JoinAll, TypeOK'
    PROVE  IInv'
<1> USE DEF IInv, TypeOK, JoinAll, Process
<1>1. IteratorFresh' /\ TakenOnce'
  BY SameFiles
<1>2. UnderLock' /\ PlaceAndJob'
  BY DEF UnderLock, PlaceAndJob, InHand
<1>3. ToolAndPlace' /\ CallerWaits' /\ NoTornPatch'
  BY DEF ToolAndPlace, CallerWaits, Finished, NoTornPatch
<1> QED
  BY <1>1, <1>2, <1>3

LEMMA StutterStep ==
    ASSUME IInv, UNCHANGED vars
    PROVE  IInv'
BY DEF IInv, TypeOK, vars, IteratorFresh, TakenOnce, Coming, UnderLock, PlaceAndJob, InHand,
       ToolAndPlace, CallerWaits, Finished, NoTornPatch

-----------------------------------------------------------------------------

(* What the invariant is for.                                              *)
LEMMA IInvImpliesOnce == IInv => EachFileOnce
<1> SUFFICES ASSUME IInv, NEW d \in Diffs
             PROVE  LET busy == {w \in Workers : job[w] = d /\ patch[d] = "unset"}
                        left == {k \in DOMAIN diffIter : diffIter[k] = d}
                    IN  Cardinality(busy) + Cardinality(left)
                          + (IF patch[d] = "unset" THEN 0 ELSE 1) = 1
  BY DEF EachFileOnce
<1> DEFINE busy == {w \in Workers : job[w] = d /\ patch[d] = "unset"}
           left == {k \in DOMAIN diffIter : diffIter[k] = d}
<1>1. d # 0
  BY DiffsAssumption DEF Diffs
<1>2. CASE patch[d] # "unset"
  <2>1. busy = {} /\ left = {}
    BY <1>2 DEF IInv, IteratorFresh, Coming
  <2> QED
    BY <1>2, <2>1, FS_EmptySet
<1>3. CASE patch[d] = "unset" /\ d \in Coming
  <2>1. busy = {}
    BY <1>3 DEF IInv, IteratorFresh
  <2>2. PICK k \in DOMAIN diffIter : diffIter[k] = d
    BY <1>3 DEF Coming
  <2>3. left = {k}
    BY <2>2 DEF IInv, IteratorFresh
  <2>4. Cardinality(busy) = 0 /\ Cardinality(left) = 1
    BY <2>1, <2>3, FS_EmptySet, FS_Singleton
  <2> QED
    BY <1>3, <2>4
<1>4. CASE patch[d] = "unset" /\ d \notin Coming
  <2>1. left = {}
    BY <1>4 DEF Coming
  <2>2. PICK w \in Workers : job[w] = d
    BY <1>4 DEF IInv, TakenOnce
  <2>3. busy = {w}
    BY <1>1, <1>4, <2>2 DEF IInv, TakenOnce
  <2>4. Cardinality(busy) = 1 /\ Cardinality(left) = 0
    BY <2>1, <2>3, FS_EmptySet, FS_Singleton
  <2> QED
    BY <1>4, <2>4
<1> QED
  BY <1>2, <1>3, <1>4

LEMMA IInvImpliesDeath == IInv => UndoneOnlyByDeath
<1> SUFFICES ASSUME IInv, main = "done", NEW d \in Diffs, patch[d] = "unset",
                    ~ \A w \in Workers : at[w] = "died"
             PROVE  \E w \in Workers : job[w] = d /\ at[w] = "died"
  BY DEF UndoneOnlyByDeath, IInv, CallerWaits
<1>1. \A w \in Workers : at[w] \in {"ended", "died"}
  BY DEF IInv, CallerWaits, Finished
<1>2. diffIter = <<>>
  BY <1>1 DEF IInv, PlaceAndJob
<1>3. PICK w \in Workers : job[w] = d
  BY <1>2 DEF IInv, TakenOnce, Coming
<1>4. d # 0
  BY DiffsAssumption DEF Diffs
<1>5. at[w] = "died"
  BY <1>1, <1>3, <1>4 DEF IInv, PlaceAndJob, InHand
<1> QED
  BY <1>3, <1>5

(* Between the iterator, the workers and the results no file is lost or    *)
(* taken twice, at every interleaving of the threads of ComputeDifferences.*)
THEOREM DiffWorkersInvariant == Spec => []IInv
<1>1. IInv /\ [Next]_vars => IInv'
  <2> SUFFICES ASSUME IInv, [Next]_vars PROVE IInv'
    OBVIOUS
  <2>1. TypeOK'
    BY TypeStep DEF IInv
  <2> QED
    BY <2>1, AcquireStep, NextDiffStep, StartToolStep, JoinedStep, SignalStep, ResultStep,
       ReportStep, ToolEndsStep, ReapStep, JoinAllStep, StutterStep
    DEF Next, Work, Ended
<1> QED
  BY <1>1, InitIInv, PTL DEF Spec

(* Whatever the number of threads and the sizes of the files, and however  *)
(* the tools end: each file is taken once, the caller of ComputeDifferences*)
(* goes on when no worker can touch a result, a file without one belongs   *)
(* to a worker that died, and no patch is kept that a tool did not finish. *)
THEOREM ResultsAreHonest == Spec => []ResultsHonest
<1>1. IInv => ResultsHonest
  BY IInvImpliesOnce, IInvImpliesDeath DEF IInv, ResultsHonest
<1> QED
  BY <1>1, DiffWorkersInvariant, PTL
=============================================================================
