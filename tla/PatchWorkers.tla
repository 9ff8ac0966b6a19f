------------------------------ MODULE PatchWorkers ------------------------------
(***************************************************************************)
(* The second half of BlockImageDiff.ComputePatches: worker threads take   *)
(* the diffs off a queue and run the diff tool, the main thread waits for  *)
(* them and lays the patches out in patch.dat.  Around it, the handler in  *)
(* ota_from_target_files.py that falls back to a full package.             *)
(***************************************************************************)
EXTENDS Integers, Sequences, FiniteSets, FiniteSetsExt

CONSTANTS
    Workers,    \* the threads
    PatchLen,   \* PatchLen[i]: length of the patch with patch_num i
    TargetSize, \* TargetSize[i]: length of its target, by which they are sorted
    MayFail,    \* diffs the diff tool may report a failure for
    Fallback    \* OPTIONS.fallback_to_full

Diffs == DOMAIN PatchLen

ASSUME WorkersAssumption ==
    /\ Workers # {}
    /\ PatchLen \in Seq(Nat) /\ PatchLen # <<>>
    /\ TargetSize \in [Diffs -> Nat]
    /\ MayFail \subseteq Diffs /\ Fallback \in BOOLEAN

VARIABLES
    main,     \* where the main thread is
    diffQ,    \* diff_q, sorted: the next one is taken from its end
    at,       \* where each worker is
    job,      \* the diff a worker has taken, 0 before the first
    patches,  \* the patch of each diff, 0 for None
    n, p,     \* entries of patches and bytes written to patch.dat
    start     \* xf.patch_start, -1 if not set

vars == <<main, diffQ, at, job, patches, n, p, start>>

SortedDiffs ==
    CHOOSE q \in [Diffs -> Diffs] :
        \A i, j \in Diffs : i < j => /\ q[i] # q[j]
                                     /\ TargetSize[q[i]] <= TargetSize[q[j]]

Init ==
    /\ main = "start"
    /\ diffQ = SortedDiffs
    /\ at = [w \in Workers |-> "new"]
    /\ job = [w \in Workers |-> 0]
    /\ patches = [i \in Diffs |-> 0]
    /\ n = 0 /\ p = 0
    /\ start = [i \in Diffs |-> -1]

(* th.start(), for one thread after the other.                             *)
StartThread(w) ==
    /\ main = "start"
    /\ at[w] = "new"
    /\ at' = [at EXCEPT ![w] = "take"]
    /\ UNCHANGED <<main, diffQ, job, patches, n, p, start>>

(* "with lock": the queue is looked at and its last entry popped; a worker *)
(* that finds it empty returns.  A slip: the entry is not popped.          *)
TakeAndKeep(w) ==
    /\ at[w] = "take"
    /\ at' = [at EXCEPT ![w] = IF diffQ = <<>> THEN "ended" ELSE "diff"]
    /\ diffQ # <<>> => job' = [job EXCEPT ![w] = diffQ[Len(diffQ)]]
    /\ diffQ = <<>> => job' = job
    /\ UNCHANGED <<main, diffQ, patches, n, p, start>>
Take(w) ==
    /\ at[w] = "take"
    /\ \/ /\ diffQ = <<>>
          /\ at' = [at EXCEPT ![w] = "ended"]
          /\ UNCHANGED <<diffQ, job>>
       \/ /\ diffQ # <<>>
          /\ job' = [job EXCEPT ![w] = diffQ[Len(diffQ)]]
          /\ diffQ' = SubSeq(diffQ, 1, Len(diffQ) - 1)
          /\ at' = [at EXCEPT ![w] = "diff"]
    /\ UNCHANGED <<main, patches, n, p, start>>

(* compute_patch, outside the lock; its ValueError ends the thread.        *)
Diff(w) ==
    /\ at[w] = "diff"
    /\ \/ at' = [at EXCEPT ![w] = "store"]
       \/ job[w] \in MayFail /\ at' = [at EXCEPT ![w] = "died"]
    /\ UNCHANGED <<main, diffQ, job, patches, n, p, start>>

(* The place in patches of the diff a worker has done.  A slip: the next   *)
(* one that is free.                                                       *)
NextFree(w) == Cardinality({i \in Diffs : patches[i] # 0}) + 1
PatchNum(w) == job[w]

(* "with lock": the patch goes to its place.                               *)
Store(w) ==
    /\ at[w] = "store"
    /\ patches' = [patches EXCEPT ![PatchNum(w)] = job[w]]
    /\ at' = [at EXCEPT ![w] = "take"]
    /\ UNCHANGED <<main, diffQ, job, n, p, start>>

Finished(w) == at[w] \in {"ended", "died"}

(* threads.pop().join(), until there is no thread left.                    *)
JoinThreads ==
    /\ main = "start"
    /\ \A w \in Workers : Finished(w)
    /\ main' = "write"
    /\ UNCHANGED <<diffQ, at, job, patches, n, p, start>>

(* Bytes a patch takes in the file.                                       *)
Written(i) == PatchLen[i]

(* "for patch, xf in patches": None cannot be unpacked, a TypeError.      *)
WritePatch ==
    /\ main = "write"
    /\ n < Len(PatchLen)
    /\ \/ /\ patches[n + 1] # 0
          /\ start' = [start EXCEPT ![patches[n + 1]] = p]
          /\ p' = p + Written(patches[n + 1])
          /\ n' = n + 1
          /\ main' = main
       \/ /\ patches[n + 1] = 0
          /\ main' = "TypeError"
          /\ UNCHANGED <<n, p, start>>
    /\ UNCHANGED <<diffQ, at, job, patches>>

PackageDone ==
    /\ main = "write"
    /\ n = Len(PatchLen)
    /\ main' = "incremental"
    /\ UNCHANGED <<diffQ, at, job, patches, n, p, start>>

(* "except ValueError: if not OPTIONS.fallback_to_full: raise".            *)
HandleFailure ==
    /\ main \in {"TypeError", "ValueError"}
    /\ main' = IF main = "ValueError" /\ Fallback THEN "full" ELSE "traceback"
    /\ UNCHANGED <<diffQ, at, job, patches, n, p, start>>

Ended ==
    /\ main \in {"incremental", "full", "traceback"}
    /\ UNCHANGED vars

Work(w) == StartThread(w) \/ Take(w) \/ Diff(w) \/ Store(w)
Main    == JoinThreads \/ WritePatch \/ PackageDone \/ HandleFailure

Next == (\E w \in Workers : Work(w)) \/ Main \/ Ended

(* The operating system runs every thread, and the diff tool ends.         *)
Spec == Init /\ [][Next]_vars /\ WF_vars(Main) /\ \A w \in Workers : WF_vars(Work(w))

-----------------------------------------------------------------------------

TotalLen == MapThenSumSet(LAMBDA j : PatchLen[j], Diffs)

(* The range of each variable; the file never grows past its patches, and  *)
(* the main thread goes on only when no thread can touch patches any more. *)
TypeOK ==
    /\ main \in {"start", "write", "TypeError", "ValueError",
                 "incremental", "full", "traceback"}
    /\ diffQ \in Seq(Diffs)
    /\ at \in [Workers -> {"new", "take", "diff", "store", "ended", "died"}]
    /\ job \in [Workers -> Diffs \cup {0}]
    /\ patches \in [Diffs -> Diffs \cup {0}]
    /\ n \in 0..Len(PatchLen) /\ p \in 0..TotalLen
    /\ start \in [Diffs -> -1..TotalLen]
    /\ main # "start" => \A w \in Workers : Finished(w)

(* A diff is in the queue, or with the one worker that took it, or its     *)
(* patch is in place, or it failed: none is lost or computed twice.        *)
EachDiffOnce ==
    \A i \in Diffs :
        LET takers == {w \in Workers : job[w] = i /\ at[w] \in {"diff", "store", "died"}}
            queued == {k \in DOMAIN diffQ : diffQ[k] = i}
        IN  Cardinality(takers) + Cardinality(queued)
              + (IF patches[i] = 0 THEN 0 ELSE 1) = 1

(* The commands of the transfer list find their patches in patch.dat: each *)
(* has its own stretch of the file, whatever order the workers finish in.  *)
PatchesInPlace ==
    main = "incremental" =>
        \A i \in Diffs :
            start[i] = MapThenSumSet(LAMBDA j : PatchLen[j], {j \in Diffs : j < i})

(* No package is made in which the patch of a failed diff is missing.      *)
FailureNoticed ==
    main = "incremental" => \A w \in Workers : at[w] # "died"

(* What the workers leave behind for the main thread, however they take    *)
(* turns and fail: every diff accounted for once, every patch where its    *)
(* command looks for it, and no package without one of them.               *)
PatchesComplete == TypeOK /\ EachDiffOnce /\ PatchesInPlace /\ FailureNoticed

(* The program ends, also when all the workers have died.                  *)
ProgramEnds == <>(main \in {"incremental", "full", "traceback"})
=============================================================================
