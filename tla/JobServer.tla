------------------------------- MODULE JobServer -------------------------------
(***************************************************************************)
(* makeparallel: recipes of a parallel make that wrap a command claim what *)
(* tokens they can read from the jobserver pipe, pass their number to the  *)
(* command as -j and put the tokens back when it has ended.  The pipe is   *)
(* shared with make and with every other recipe.                           *)
(***************************************************************************)
EXTENDS Integers, FiniteSets, FiniteSetsExt

CONSTANTS
    Wrapped,      \* recipes run by makeparallel
    NinjaOnes,    \* those of them with --ninja
    Plain,        \* other recipes of the same make
    Pool,         \* tokens in the pipe: make was given -j<Pool + 1>
    NinjaDefault  \* jobs that ninja runs when it is not told

ASSUME JobServerAssumption ==
    /\ NinjaOnes \subseteq Wrapped
    /\ Wrapped \cap Plain = {}
    /\ IsFiniteSet(Wrapped \cup Plain)
    /\ Pool \in Nat /\ NinjaDefault \in Nat

Recipes == Wrapped \cup Plain

VARIABLES
    makeflags,  \* "serial", "unlimited" (-j) or "jobserver" (-j<n>)
    pipe,       \* bytes in the jobserver's pipe
    has,        \* what make started a recipe with
    at,         \* where each recipe is
    tokens,     \* tokens a wrapper has read
    jobs        \* -j of its command, 0 if none is passed

vars == <<makeflags, pipe, has, at, tokens, jobs>>

Over(r)  == at[r] \in {"exited", "failed"}
Live     == {r \in Recipes : at[r] # "new" /\ ~Over(r)}
parallel == makeflags # "serial"

Init ==
    /\ makeflags \in {"serial", "unlimited", "jobserver"}
    /\ pipe = IF makeflags = "jobserver" THEN Pool ELSE 0
    /\ has = [r \in Recipes |-> "none"]
    /\ at = [r \in Recipes |-> "new"]
    /\ tokens = [m \in Wrapped |-> 0]
    /\ jobs = [m \in Wrapped |-> 0]

(* GNU make starts a recipe on the token it was born with or on one from   *)
(* the pipe.                                                               *)
StartRecipe(r) ==
    /\ at[r] = "new"
    /\ \/ /\ makeflags = "unlimited" \/ \A q \in Recipes : has[q] # "own"
          /\ has' = [has EXCEPT ![r] = "own"]
          /\ pipe' = pipe
       \/ /\ pipe > 0
          /\ \E q \in Recipes : has[q] = "own"
          /\ has' = [has EXCEPT ![r] = "pipe"]
          /\ pipe' = pipe - 1
    /\ at' = [at EXCEPT ![r] = IF r \in Plain THEN "work"
                               ELSE IF makeflags = "jobserver" THEN "poll" ELSE "fork"]
    /\ UNCHANGED <<makeflags, tokens, jobs>>

(* It takes the token back when the recipe's process has ended.            *)
CollectRecipe(r) ==
    /\ at[r] = "work" \/ Over(r)
    /\ has[r] # "none"
    /\ pipe' = pipe + (IF has[r] = "pipe" THEN 1 ELSE 0)
    /\ has' = [has EXCEPT ![r] = "none"]
    /\ at' = IF r \in Plain THEN [at EXCEPT ![r] = "exited"] ELSE at
    /\ UNCHANGED <<makeflags, tokens, jobs>>

(* GetJobserverTokens: poll says that there is a byte, or that there is    *)
(* none, when the measuring ends.                                          *)
Poll(m) ==
    /\ at[m] = "poll"
    /\ at' = [at EXCEPT ![m] = IF pipe > 0 THEN "read" ELSE "fork"]
    /\ UNCHANGED <<makeflags, pipe, has, tokens, jobs>>

(* ReadByteTimeout: the byte, if nobody else was faster.                   *)
ReadByte(m) ==
    /\ at[m] = "read"
    /\ pipe > 0
    /\ pipe' = pipe - 1
    /\ tokens' = [tokens EXCEPT ![m] = @ + 1]
    /\ at' = [at EXCEPT ![m] = "poll"]
    /\ UNCHANGED <<makeflags, has, jobs>>

(* SIGALRM interrupts the read, or closes its descriptor before it begins. *)
(* A slip: the interrupted read is retried.                                *)
RetryRead(m) == at[m] = "read" /\ UNCHANGED vars
ReadTimeout(m) ==
    /\ at[m] = "read"
    /\ at' = [at EXCEPT ![m] = "fork"]
    /\ UNCHANGED <<makeflags, pipe, has, tokens, jobs>>

(* The -j argument.  A slip: ninja is only told what was claimed.         *)
JArgOfClaimed(m) ==
    IF m \in NinjaOnes /\ tokens[m] = 0 THEN 0 ELSE tokens[m] + 1
JArg(m) ==
    IF m \notin NinjaOnes THEN tokens[m] + 1
    ELSE IF ~parallel THEN 1
    ELSE IF tokens[m] > 0 THEN tokens[m] + 1 ELSE 0

(* fork, or its failure, at which the process ends with what it has read.  *)
Fork(m) ==
    /\ at[m] = "fork"
    /\ \/ /\ at' = [at EXCEPT ![m] = "wait"]
          /\ jobs' = [jobs EXCEPT ![m] = JArg(m)]
       \/ /\ at' = [at EXCEPT ![m] = "failed"]
          /\ jobs' = jobs
    /\ UNCHANGED <<makeflags, pipe, has, tokens>>

(* waitid returns, however the command has ended.                          *)
Wait(m) ==
    /\ at[m] = "wait"
    /\ at' = [at EXCEPT ![m] = "put"]
    /\ UNCHANGED <<makeflags, pipe, has, tokens, jobs>>

(* The loop "for (int i = 0; i < tokens; i++)" is over.  A slip: i <=.     *)
WrittenThrough(m) == tokens[m] < 0
Written(m)        == tokens[m] <= 0

(* PutJobserverTokens writes byte after byte, then the process exits.      *)
Put(m) ==
    /\ at[m] = "put"
    /\ \/ /\ ~Written(m)
          /\ pipe' = pipe + 1
          /\ tokens' = [tokens EXCEPT ![m] = @ - 1]
          /\ at' = at
       \/ /\ Written(m)
          /\ at' = [at EXCEPT ![m] = "exited"]
          /\ UNCHANGED <<pipe, tokens>>
    /\ UNCHANGED <<makeflags, has, jobs>>

Ended == (\A r \in Recipes : Over(r) /\ has[r] = "none") /\ UNCHANGED vars

Wrapper(m) == Poll(m) \/ ReadByte(m) \/ ReadTimeout(m) \/ Fork(m) \/ Wait(m) \/ Put(m)

Next ==
    \/ \E r \in Recipes : StartRecipe(r) \/ CollectRecipe(r)
    \/ \E m \in Wrapped : Wrapper(m)
    \/ Ended

(* A wrapper runs and its command ends; of the other recipes nothing is    *)
(* asked, they may keep their tokens.                                      *)
Spec == Init /\ [][Next]_vars /\ \A m \in Wrapped : WF_vars(Wrapper(m))

-----------------------------------------------------------------------------

(* The range of each variable.                                             *)
TypeOK ==
    /\ makeflags \in {"serial", "unlimited", "jobserver"}
    /\ pipe \in 0..Pool
    /\ has \in [Recipes -> {"none", "own", "pipe"}]
    /\ at \in [Recipes -> {"new", "work", "poll", "read", "fork", "wait", "put",
                           "exited", "failed"}]
    /\ tokens \in [Wrapped -> 0..Pool]
    /\ jobs \in [Wrapped -> 0..(Pool + 1)]

Claimed == MapThenSumSet(LAMBDA m : tokens[m], Wrapped)

(* Every token is in the pipe, with make for a recipe, or with a wrapper;  *)
(* one that has exited keeps none, only a failed fork loses them.          *)
TokensConserved ==
    makeflags = "jobserver" =>
        /\ pipe + Cardinality({r \in Recipes : has[r] = "pipe"}) + Claimed = Pool
        /\ \A m \in Wrapped : at[m] = "exited" => tokens[m] = 0

(* Jobs a recipe may run at the same time.                                 *)
Runs(r) ==
    IF at[r] = "wait" THEN IF jobs[r] = 0 THEN NinjaDefault ELSE jobs[r]
    ELSE 1
Running(recipes) == MapThenSumSet(Runs, recipes)

(* A command that is told nothing runs as many jobs as it likes.  With such  *)
(* a one counted as the one job of its token, all together stay in make's    *)
(* limit: it is exceeded by no more than what they run beyond one job each.  *)
(* Only a ninja whose wrapper found no token is told nothing; when there is   *)
(* none, the limit holds.                                                    *)
Untold == {r \in Live \cap Wrapped : at[r] = "wait" /\ jobs[r] = 0}
OthersBounded ==
    makeflags = "jobserver" =>
        /\ Running(Live \ Untold) + Cardinality(Untold) <= Pool + 1
        /\ Untold = {} => Running(Live) <= Pool + 1
        /\ \A m \in Untold : m \in NinjaOnes /\ tokens[m] = 0

(* "pass -j1 to disable parallelism if make wasn't parallel"               *)
(* (makeparallel.cpp:323).                                                 *)
SerialStaysSerial ==
    makeflags = "serial" => Running(Live) <= 1

(* What make was told about parallelism holds for all recipes together:    *)
(* its limit as long as no ninja is told nothing, and one job at a time    *)
(* when it was not parallel, a ninja's included.                           *)
JobsBounded == TypeOK /\ OthersBounded /\ SerialStaysSerial

(* A wrapper never waits for ever for a token that another process was     *)
(* faster to read and does not give back.                                  *)
WrapperEnds == \A m \in Wrapped : (at[m] # "new") ~> Over(m)
=============================================================================
