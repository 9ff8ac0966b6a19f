------------------------------ MODULE DiffWorkers ------------------------------
(***************************************************************************)
(* common.ComputeDifferences: worker threads share an iterator under one   *)
(* lock and run the diff tool for each file.  Difference.ComputePatch      *)
(* starts the tool and a thread that talks to it and reaps it, waits for   *)
(* that thread with a time limit, then terminates and at last kills it.    *)
(***************************************************************************)
EXTENDS Integers, Sequences, FiniteSets, SequencesExt

CONSTANTS
    Workers,    \* the threads
    FileSize,   \* FileSize[d]: tf.size of the d-th Difference
    Nobody      \* no thread

Diffs == DOMAIN FileSize

ASSUME DiffsAssumption ==
    /\ Workers # {} /\ Nobody \notin Workers
    /\ FileSize \in Seq(Nat) /\ FileSize # <<>>

VARIABLES
    main,      \* the caller: "join" or "done"
    diffIter,  \* what diff_iter has yet to yield
    lock,      \* who holds it
    at,        \* where each worker is
    job,       \* its d, 0 before the first
    tool,      \* its diff program
    sent,      \* the last signal sent to it
    reaped,    \* the thread "run" has its exit status
    patch      \* self.patch of each Difference, and whether it was assigned

vars == <<main, diffIter, lock, at, job, tool, sent, reaped, patch>>

(* Largest first; which of two equal ones comes first depends on their     *)
(* addresses.                                                             *)
Largest(q)     == \A i, j \in DOMAIN q : i < j => FileSize[q[i]] >= FileSize[q[j]]
BySize         == {q \in SetToSeqs(Diffs) : Largest(q)}

Init ==
    /\ main = "join"
    /\ diffIter \in BySize
    /\ lock = Nobody
    /\ at = [w \in Workers |-> "acquire"]
    /\ job = [w \in Workers |-> 0]
    /\ tool = [w \in Workers |-> "none"]
    /\ sent = [w \in Workers |-> "none"]
    /\ reaped = [w \in Workers |-> FALSE]
    /\ patch = [d \in Diffs |-> "unset"]

Goto(w, place) == at' = [at EXCEPT ![w] = place]
Process        == <<tool, sent, reaped>>

(* lock.acquire(), before the loop and after each patch.                   *)
Acquire(w) ==
    /\ at[w] \in {"acquire", "reacquire"}
    /\ lock = Nobody
    /\ lock' = w
    /\ Goto(w, IF at[w] = "acquire" THEN "next" ELSE "report")
    /\ UNCHANGED <<main, diffIter, job, Process, patch>>

(* What the iterator has left after an item.  A slip: the item again.      *)
SameAgain(q) == q
Rest(q)      == Tail(q)

(* "for d in diff_iter: lock.release()", or the end of the loop.           *)
NextDiff(w) ==
    /\ at[w] = "next"
    /\ \/ /\ diffIter # <<>>
          /\ job' = [job EXCEPT ![w] = Head(diffIter)]
          /\ diffIter' = Rest(diffIter)
          /\ lock' = Nobody
          /\ Goto(w, "run")
       \/ /\ diffIter = <<>>
          /\ lock' = Nobody
          /\ Goto(w, "ended")
          /\ UNCHANGED <<job, diffIter>>
    /\ UNCHANGED <<main, Process, patch>>

(* Run(cmd), th.start().                                                   *)
StartTool(w) ==
    /\ at[w] = "run"
    /\ tool' = [tool EXCEPT ![w] = "running"]
    /\ sent' = [sent EXCEPT ![w] = "none"]
    /\ reaped' = [reaped EXCEPT ![w] = FALSE]
    /\ Goto(w, "join300")
    /\ UNCHANGED <<main, diffIter, lock, job, patch>>

(* The tool ends by itself, "ok" with status 0 and nothing on stderr, or   *)
(* of a signal; it may catch or ignore SIGTERM.                            *)
ToolEnds(w) ==
    /\ tool[w] = "running"
    /\ \E how \in {"ok", "failed"} \cup (IF sent[w] = "none" THEN {} ELSE {"killed"}) :
           tool' = [tool EXCEPT ![w] = how]
    /\ UNCHANGED <<main, diffIter, lock, at, job, sent, reaped, patch>>
KillTakesEffect(w) == sent[w] = "KILL" /\ ToolEnds(w)

(* p.communicate() in the thread "run" returns: the process is waited for. *)
Reap(w) ==
    /\ tool[w] \in {"ok", "failed", "killed"}
    /\ ~reaped[w]
    /\ reaped' = [reaped EXCEPT ![w] = TRUE]
    /\ UNCHANGED <<main, diffIter, lock, at, job, tool, sent, patch>>

(* th.join(300), th.join(5), th.join(): the thread is over, or the time is *)
(* up for the first two.                                                   *)
Joined(w) ==
    /\ at[w] \in {"join300", "join5", "join"}
    /\ \/ reaped[w] /\ Goto(w, "result")
       \/ at[w] = "join300" /\ ~reaped[w] /\ Goto(w, "terminate")
       \/ at[w] = "join5" /\ ~reaped[w] /\ Goto(w, "kill")
    /\ UNCHANGED <<main, diffIter, lock, job, Process, patch>>

(* p.terminate(), p.kill(): to a process that has been waited for in the   *)
(* meantime they raise OSError, which ends the worker.                     *)
Signal(w) ==
    /\ at[w] \in {"terminate", "kill"}
    /\ \/ /\ reaped[w]
          /\ Goto(w, "died")
          /\ UNCHANGED sent
       \/ /\ ~reaped[w]
          /\ sent' = [sent EXCEPT ![w] = IF at[w] = "kill" THEN "KILL" ELSE "TERM"]
          /\ Goto(w, IF at[w] = "kill" THEN "join" ELSE "join5")
    /\ UNCHANGED <<main, diffIter, lock, job, tool, reaped, patch>>

(* "if err or p.returncode != 0".  A slip: the signals are forgotten.      *)
NotFailed(w) == tool[w] # "failed"
Succeeded(w) == tool[w] = "ok"

Result(w) ==
    /\ at[w] = "result"
    /\ patch' = [patch EXCEPT ![job[w]] = IF Succeeded(w) THEN "patch" ELSE "none"]
    /\ Goto(w, "reacquire")
    /\ UNCHANGED <<main, diffIter, lock, job, Process>>

(* The message, under the lock, divides by tf.size if there is a patch.    *)
Report(w) ==
    /\ at[w] = "report"
    /\ Goto(w, IF patch[job[w]] = "patch" /\ FileSize[job[w]] = 0 THEN "died" ELSE "next")
    /\ UNCHANGED <<main, diffIter, lock, job, Process, patch>>

Finished(w) == at[w] \in {"ended", "died"}

(* "while threads: threads.pop().join()".                                 *)
JoinAll ==
    /\ main = "join"
    /\ \A w \in Workers : Finished(w)
    /\ main' = "done"
    /\ UNCHANGED <<diffIter, lock, at, job, Process, patch>>

Ended == main = "done" /\ UNCHANGED vars

Work(w) ==
    Acquire(w) \/ NextDiff(w) \/ StartTool(w) \/ Joined(w) \/ Signal(w)
      \/ Result(w) \/ Report(w)

Next ==
    \/ \E w \in Workers : Work(w) \/ ToolEnds(w) \/ Reap(w)
    \/ JoinAll
    \/ Ended

(* Every thread runs.  The tool itself need not end, unless it is killed.  *)
Fairness ==
    /\ WF_vars(JoinAll)
    /\ \A w \in Workers :
           WF_vars(Work(w)) /\ WF_vars(KillTakesEffect(w)) /\ WF_vars(Reap(w))

Spec == Init /\ [][Next]_vars /\ Fairness

-----------------------------------------------------------------------------

(* The range of each variable.                                             *)
TypeOK ==
    /\ main \in {"join", "done"}
    /\ diffIter \in Seq(Diffs)
    /\ lock \in Workers \cup {Nobody}
    /\ at \in [Workers -> {"acquire", "next", "run", "join300", "terminate", "join5", "kill",
                           "join", "result", "reacquire", "report", "ended", "died"}]
    /\ job \in [Workers -> Diffs \cup {0}]
    /\ tool \in [Workers -> {"none", "running", "ok", "failed", "killed"}]
    /\ sent \in [Workers -> {"none", "TERM", "KILL"}]
    /\ reaped \in [Workers -> BOOLEAN]
    /\ patch \in [Diffs -> {"unset", "patch", "none"}]

(* Every file is still to come, or with exactly one worker, or done.       *)
EachFileOnce ==
    \A d \in Diffs :
        LET busy == {w \in Workers : job[w] = d /\ patch[d] = "unset"}
            left == {k \in DOMAIN diffIter : diffIter[k] = d}
        IN  Cardinality(busy) + Cardinality(left) + (IF patch[d] = "unset" THEN 0 ELSE 1) = 1

(* When the caller goes on no worker can touch a patch any more, and a     *)
(* file without a result is one whose worker died, or all of them died.    *)
UndoneOnlyByDeath ==
    main = "done" =>
        /\ \A w \in Workers : Finished(w)
        /\ \A d \in Diffs : patch[d] = "unset" =>
               \/ \E w \in Workers : job[w] = d /\ at[w] = "died"
               \/ \A w \in Workers : at[w] = "died"

(* No patch is kept that the tool did not complete, whichever of the tool, *)
(* the time limits and the signals comes first.                            *)
NoTornPatch ==
    \A w \in Workers :
        at[w] \in {"reacquire", "report"} /\ patch[job[w]] = "patch" => tool[w] = "ok"

(* The results the caller finds: each file once, unset only by a death, no *)
(* patch that is torn.                                                     *)
ResultsHonest == TypeOK /\ EachFileOnce /\ UndoneOnlyByDeath /\ NoTornPatch

(* "start worker threads; wait for them all to finish" (common.py:1341):   *)
(* the wait ends, though a tool may hang.                                  *)
AllFinish == <>(main = "done")
=============================================================================
