---------------------------- MODULE JobServerProofs ----------------------------
(***************************************************************************)
(* However many recipes share the pipe and however their reads, time-outs  *)
(* and failures interleave: no token is lost or made, and the recipes      *)
(* together keep to what make was told.                                    *)
(***************************************************************************)
EXTENDS JobServer, DataProofs

-----------------------------------------------------------------------------
(* The inductive invariant.                                                *)

HasPipe == {r \in Recipes : has[r] = "pipe"}
HasOwn  == {r \in Recipes : has[r] = "own"}

Types ==
    /\ makeflags \in {"serial", "unlimited", "jobserver"}
    /\ pipe \in Nat
    /\ has \in [Recipes -> {"none", "own", "pipe"}]
    /\ at \in [Recipes -> {"new", "work", "poll", "read", "fork", "wait", "put",
                           "exited", "failed"}]
    /\ tokens \in [Wrapped -> Nat]
    /\ jobs \in [Wrapped -> 0..(Pool + 1)]

(* In every mode the tokens there are: none without a jobserver.           *)
Balance ==
    pipe + Cardinality(HasPipe) + Claimed = IF makeflags = "jobserver" THEN Pool ELSE 0

(* A recipe that runs has a token of make's, one that has not begun none.  *)
TokenHeld ==
    \A r \in Recipes : /\ at[r] = "new" => has[r] = "none"
                       /\ at[r] \notin {"new", "exited", "failed"} => has[r] # "none"

(* The token make was born with is given to one recipe at a time.          *)
OneOwn ==
    makeflags # "unlimited" =>
        \A q, r \in Recipes : has[q] = "own" /\ has[r] = "own" => q = r

(* A command was told of the tokens its wrapper still has.                 *)
ToldExactly ==
    \A m \in Wrapped : /\ at[m] = "wait" => jobs[m] = JArg(m)
                       /\ at[m] = "exited" => tokens[m] = 0

(* A recipe without a wrapper goes through none of its steps, and one with *)
(* a wrapper does nothing else.                                            *)
PlainWork ==
    /\ \A r \in Plain : at[r] \in {"new", "work", "exited"}
    /\ \A m \in Wrapped : at[m] # "work"

IInv == Types /\ PlainWork /\ Balance /\ TokenHeld /\ OneOwn /\ ToldExactly

-----------------------------------------------------------------------------

LEMMA FiniteRecipes ==
    /\ IsFiniteSet(Recipes) /\ IsFiniteSet(Wrapped)
    /\ \A T \in SUBSET Recipes : IsFiniteSet(T) /\ Cardinality(T) \in Nat
<1>1. IsFiniteSet(Recipes)
  BY JobServerAssumption DEF Recipes
<1>2. Wrapped \in SUBSET Recipes
  BY DEF Recipes
<1> QED
  BY <1>1, <1>2, FS_Subset, FS_CardinalityType

LEMMA ClaimedIsSum == Claimed = SumOver(tokens, Wrapped)
BY DEF Claimed, SumOver

LEMMA InitIInv == Init => IInv
<1> SUFFICES ASSUME Init PROVE IInv
  OBVIOUS
<1> USE DEF Init
<1>1. Types
  BY JobServerAssumption DEF Types
<1>2. Balance
  <2>1. Cardinality(HasPipe) = 0
    BY FS_EmptySet DEF HasPipe
  <2>2. Claimed = 0
    BY FiniteRecipes, ClaimedIsSum, SumZero
  <2> QED
    BY <2>1, <2>2, JobServerAssumption DEF Balance
<1>3. TokenHeld /\ OneOwn /\ ToldExactly /\ PlainWork
  BY DEF TokenHeld, OneOwn, ToldExactly, Recipes, PlainWork
<1> QED
  BY <1>1, <1>2, <1>3 DEF IInv

(* What is claimed and what make has given out, when it changes by one.    *)
LEMMA ClaimOne ==
    ASSUME Types, NEW m \in Wrapped, NEW n \in Nat, tokens' = [tokens EXCEPT ![m] = n]
    PROVE  tokens' \in [Wrapped -> Nat] /\ Claimed' = Claimed + (n - tokens[m])
<1>1. tokens \in [Wrapped -> Int] /\ tokens' \in [Wrapped -> Nat]
  BY DEF Types
<1>2. Claimed' = SumOver(tokens', Wrapped)
  BY Zenon DEF Claimed, SumOver, MapThenSumSet, MapThenFoldSet
<1>3. SumOver([tokens EXCEPT ![m] = n], Wrapped) = SumOver(tokens, Wrapped) + (n - tokens[m])
  <2>1. n \in Int /\ tokens \in [Wrapped -> Int] /\ IsFiniteSet(Wrapped)
    BY <1>1, FiniteRecipes
  <2> QED
    BY <2>1, SumExcept
<1> QED
  BY <1>1, <1>2, <1>3, ClaimedIsSum

LEMMA ClaimedSame == ASSUME UNCHANGED tokens PROVE Claimed' = Claimed
BY Zenon DEF Claimed, MapThenSumSet, MapThenFoldSet

LEMMA ClaimedNat == ASSUME Types PROVE Claimed \in Nat
BY FiniteRecipes, ClaimedIsSum, SumNat DEF Types

LEMMA TokensWithinClaimed ==
    ASSUME Types, NEW m \in Wrapped
    PROVE  tokens[m] <= Claimed
<1>1. IsFiniteSet(Wrapped) /\ IsFiniteSet(Wrapped \ {m}) /\ tokens \in [Wrapped -> Nat]
  BY FiniteRecipes, FS_Subset DEF Types
<1>2. SumOver(tokens, Wrapped) = tokens[m] + SumOver(tokens, Wrapped \ {m})
  BY <1>1, SumRemove
<1>3. SumOver(tokens, Wrapped \ {m}) \in Nat
  BY <1>1, SumNat
<1> QED
  BY <1>1, <1>2, <1>3, ClaimedIsSum

(* An action that leaves the pipe, the tokens and who has them alone.      *)
LEMMA BalanceSame ==
    ASSUME Balance, UNCHANGED <<makeflags, pipe, has, tokens>>
    PROVE  Balance'
BY ClaimedSame DEF Balance, HasPipe

LEMMA StepStart ==
    ASSUME IInv, NEW r \in Recipes, StartRecipe(r)
    PROVE  IInv'
<1> USE DEF IInv, StartRecipe
<1>1. Types'
  <2>1. has' \in [Recipes -> {"none", "own", "pipe"}] /\ pipe' \in Nat
    BY DEF Types
  <2>2. at' \in [Recipes -> {"new", "work", "poll", "read", "fork", "wait", "put",
                             "exited", "failed"}]
    BY DEF Types
  <2> QED
    BY <2>1, <2>2 DEF Types
<1>2. has[r] = "none" /\ \A q \in Recipes \ {r} : has'[q] = has[q]
  BY DEF TokenHeld, Types
<1>3. Balance'
  <2>1. CASE has' = [has EXCEPT ![r] = "own"] /\ pipe' = pipe
    <3>1. HasPipe' = HasPipe
      BY <1>2, <2>1 DEF HasPipe, Types
    <3> QED
      BY <2>1, <3>1, ClaimedSame DEF Balance
  <2>2. CASE has' = [has EXCEPT ![r] = "pipe"] /\ pipe' = pipe - 1
    <3>1. HasPipe' = HasPipe \cup {r} /\ r \notin HasPipe
      BY <1>2, <2>2 DEF HasPipe, Types
    <3>2. IsFiniteSet(HasPipe) /\ Cardinality(HasPipe) \in Nat
      BY FiniteRecipes DEF HasPipe
    <3>3. Cardinality(HasPipe') = Cardinality(HasPipe) + 1
      BY <3>1, <3>2, FS_AddElement
    <3>4. Claimed' = Claimed /\ Claimed \in Nat
      BY ClaimedSame, ClaimedNat
    <3>5. pipe \in Nat
      BY DEF Types
    <3> QED
      BY <2>2, <3>2, <3>3, <3>4, <3>5 DEF Balance
  <2> QED
    BY <2>1, <2>2
<1>4. TokenHeld'
  BY <1>2 DEF TokenHeld, Types
<1>5. OneOwn'
  BY <1>2 DEF OneOwn, Types
<1>6. ToldExactly'
  <2>1. \A m \in Wrapped : m \in Recipes /\ JArg(m)' = JArg(m)
    BY DEF Recipes, JArg, parallel
  <2> QED
    BY <2>1 DEF ToldExactly, Types
<1>7. PlainWork'
  BY JobServerAssumption DEF PlainWork, Types, Recipes
<1> QED
  BY <1>1, <1>3, <1>4, <1>5, <1>6, <1>7

LEMMA StepCollect ==
    ASSUME IInv, NEW r \in Recipes, CollectRecipe(r)
    PROVE  IInv'
<1> USE DEF IInv, CollectRecipe
<1>1. Types'
  <2>1. has' \in [Recipes -> {"none", "own", "pipe"}] /\ pipe' \in Nat
    BY DEF Types
  <2>2. at' \in [Recipes -> {"new", "work", "poll", "read", "fork", "wait", "put",
                             "exited", "failed"}]
    BY DEF Types
  <2> QED
    BY <2>1, <2>2 DEF Types
<1>2. has'[r] = "none" /\ \A q \in Recipes \ {r} : has'[q] = has[q]
  BY DEF Types
<1>3. Balance'
  <2>1. CASE has[r] # "pipe"
    <3>1. HasPipe' = HasPipe
      BY <1>2, <2>1 DEF HasPipe, Types
    <3>2. pipe' = pipe
      BY <2>1 DEF Types
    <3> QED
      BY <3>1, <3>2, ClaimedSame DEF Balance
  <2>2. CASE has[r] = "pipe"
    <3>1. HasPipe' = HasPipe \ {r} /\ r \in HasPipe
      BY <1>2, <2>2 DEF HasPipe, Types
    <3>2. IsFiniteSet(HasPipe) /\ Cardinality(HasPipe) \in Nat
      BY FiniteRecipes DEF HasPipe
    <3>3. Cardinality(HasPipe') = Cardinality(HasPipe) - 1
      BY <3>1, <3>2, FS_RemoveElement
    <3>4. Claimed' = Claimed /\ Claimed \in Nat
      BY ClaimedSame, ClaimedNat
    <3>5. pipe \in Nat
      BY DEF Types
    <3> QED
      BY <2>2, <3>2, <3>3, <3>4, <3>5 DEF Balance
  <2> QED
    BY <2>1, <2>2
<1>4. TokenHeld'
  BY <1>2 DEF TokenHeld, Types, Over, PlainWork, Recipes
<1>5. OneOwn'
  BY <1>2 DEF OneOwn, Types
<1>6. ToldExactly'
  <2>1. \A m \in Wrapped : m \in Recipes /\ m \notin Plain /\ JArg(m)' = JArg(m)
    BY JobServerAssumption DEF Recipes, JArg, parallel
  <2>2. \A m \in Wrapped : at'[m] = at[m]
    BY <2>1 DEF Types
  <2> QED
    BY <2>1, <2>2 DEF ToldExactly, Types
<1>7. PlainWork'
  BY JobServerAssumption DEF PlainWork, Types, Recipes
<1> QED
  BY <1>1, <1>3, <1>4, <1>5, <1>6, <1>7

(* One byte of the pipe changes hands.                                     *)
LEMMA StepRead ==
    ASSUME IInv, NEW m \in Wrapped, ReadByte(m)
    PROVE  IInv'
<1> USE DEF IInv, ReadByte
<1>0. m \in Recipes /\ tokens[m] + 1 \in Nat /\ tokens' = [tokens EXCEPT ![m] = tokens[m] + 1]
  BY DEF Recipes, Types
<1>1. tokens' \in [Wrapped -> Nat] /\ Claimed' = Claimed + ((tokens[m] + 1) - tokens[m])
  BY <1>0, ClaimOne
<1>2. Types'
  <2>1. pipe' \in Nat /\ UNCHANGED <<makeflags, has, jobs>>
    BY DEF Types
  <2>2. at' \in [Recipes -> {"new", "work", "poll", "read", "fork", "wait", "put",
                             "exited", "failed"}]
    BY DEF Types
  <2> QED
    BY <1>1, <2>1, <2>2 DEF Types
<1>3. Balance'
  <2>1. Cardinality(HasPipe) \in Nat
    BY FiniteRecipes DEF HasPipe
  <2>2. Claimed \in Nat /\ pipe \in Nat /\ tokens[m] \in Nat
    BY ClaimedNat DEF Types
  <2>3. HasPipe' = HasPipe
    BY DEF HasPipe
  <2> QED
    BY <1>1, <2>1, <2>2, <2>3 DEF Balance
<1>4. TokenHeld' /\ OneOwn'
  BY <1>0 DEF TokenHeld, OneOwn, Types
<1>5. ToldExactly'
  <2>1. \A q \in Wrapped : at'[q] \in {"wait", "exited"} =>
           at'[q] = at[q] /\ JArg(q)' = JArg(q) /\ tokens'[q] = tokens[q]
    BY <1>0 DEF Recipes, Types, JArg, parallel
  <2> QED
    BY <2>1 DEF ToldExactly
<1>6. PlainWork'
  BY JobServerAssumption DEF PlainWork, Types, Recipes
<1> QED
  BY <1>2, <1>3, <1>4, <1>5, <1>6

LEMMA StepPut ==
    ASSUME IInv, NEW m \in Wrapped, Put(m)
    PROVE  IInv'
<1> USE DEF IInv, Put
<1>0. m \in Recipes /\ tokens[m] \in Nat
  BY DEF Recipes, Types
<1>1. CASE ~Written(m) /\ pipe' = pipe + 1 /\ tokens' = [tokens EXCEPT ![m] = @ - 1] /\ at' = at
  <2>0. tokens[m] - 1 \in Nat
    <3>1. ~(tokens[m] <= 0)
      BY <1>1 DEF Written
    <3> QED
      BY <1>0, <3>1
  <2>1. tokens' \in [Wrapped -> Nat] /\ Claimed' = Claimed + ((tokens[m] - 1) - tokens[m])
    BY <1>1, <2>0, ClaimOne
  <2>2. Types'
    BY <1>1, <2>1 DEF Types
  <2>3. Balance'
    <3>1. Cardinality(HasPipe) \in Nat
      BY FiniteRecipes DEF HasPipe
    <3>2. Claimed \in Nat /\ pipe \in Nat
      BY ClaimedNat DEF Types
    <3>3. HasPipe' = HasPipe
      BY DEF HasPipe
    <3> QED
      BY <1>0, <1>1, <2>1, <3>1, <3>2, <3>3 DEF Balance
  <2>4. TokenHeld' /\ OneOwn'
    BY <1>1 DEF TokenHeld, OneOwn
  <2>5. ToldExactly'
    <3>1. \A q \in Wrapped : at'[q] \in {"wait", "exited"} =>
             at'[q] = at[q] /\ JArg(q)' = JArg(q) /\ tokens'[q] = tokens[q]
      BY <1>0, <1>1 DEF Types, JArg, parallel
    <3> QED
      BY <3>1 DEF ToldExactly
  <2>6. PlainWork'
    BY <1>1 DEF PlainWork
  <2> QED
    BY <2>2, <2>3, <2>4, <2>5, <2>6
<1>2. CASE Written(m) /\ at' = [at EXCEPT ![m] = "exited"] /\ UNCHANGED <<pipe, tokens>>
  <2>1. Types'
    BY <1>2 DEF Types
  <2>2. Balance'
    BY <1>2, BalanceSame
  <2>3. TokenHeld' /\ OneOwn'
    BY <1>0, <1>2 DEF TokenHeld, OneOwn, Types
  <2>4. ToldExactly'
    <3>1. \A q \in Wrapped : JArg(q)' = JArg(q)
      BY <1>2 DEF JArg, parallel
    <3>2. tokens[m] = 0
      BY <1>0, <1>2 DEF Written
    <3> QED
      BY <1>0, <1>2, <3>1, <3>2 DEF ToldExactly, Types, Recipes
  <2>5. PlainWork'
    BY <1>2, JobServerAssumption DEF PlainWork, Types, Recipes
  <2> QED
    BY <2>1, <2>2, <2>3, <2>4, <2>5
<1> QED
  BY <1>1, <1>2

(* The other steps of a wrapper move only itself and its command.          *)
LEMMA StepQuiet ==
    ASSUME IInv, NEW m \in Wrapped, Poll(m) \/ ReadTimeout(m) \/ Fork(m) \/ Wait(m)
    PROVE  IInv'
<1> USE DEF IInv
<1>0. m \in Recipes /\ UNCHANGED <<makeflags, pipe, has, tokens>>
  BY DEF Recipes, Poll, ReadTimeout, Fork, Wait
<1>1. /\ at[m] \in {"poll", "read", "fork", "wait"}
      /\ \E to \in {"read", "fork", "wait", "put", "failed"} :
            /\ at' = [at EXCEPT ![m] = to]
            /\ to = "wait" => jobs' = [jobs EXCEPT ![m] = JArg(m)]
            /\ to # "wait" => jobs' = jobs
  BY DEF Poll, ReadTimeout, Fork, Wait
<1>2. JArg(m) \in 0..(Pool + 1)
  <2>1. Claimed <= IF makeflags = "jobserver" THEN Pool ELSE 0
    <3>1. Cardinality(HasPipe) \in Nat
      BY FiniteRecipes DEF HasPipe
    <3>2. Claimed \in Nat /\ pipe \in Nat
      BY ClaimedNat DEF Types
    <3> QED
      BY <3>1, <3>2, JobServerAssumption DEF Balance
  <2>2. tokens[m] <= Claimed
    BY TokensWithinClaimed
  <2>3. tokens[m] \in Nat /\ Claimed \in Nat
    BY ClaimedNat DEF Types
  <2> QED
    BY <2>1, <2>2, <2>3, JobServerAssumption DEF JArg
<1>3. Types'
  BY <1>0, <1>1, <1>2 DEF Types
<1>4. Balance'
  BY <1>0, BalanceSame
<1>5. TokenHeld' /\ OneOwn'
  BY <1>0, <1>1 DEF TokenHeld, OneOwn, Types
<1>6. ToldExactly'
  <2>1. \A q \in Wrapped : q \in Recipes /\ JArg(q)' = JArg(q)
    BY <1>0 DEF JArg, parallel, Recipes
  <2> QED
    BY <1>0, <1>1, <2>1 DEF ToldExactly, Types
<1>7. PlainWork'
  BY <1>0, <1>1, JobServerAssumption DEF PlainWork, Types, Recipes
<1> QED
  BY <1>3, <1>4, <1>5, <1>6, <1>7

LEMMA NextIInv == IInv /\ [Next]_vars => IInv'
<1> SUFFICES ASSUME IInv, [Next]_vars PROVE IInv'
  OBVIOUS
<1>1. CASE UNCHANGED vars
  <2>1. Balance'
    BY <1>1, BalanceSame DEF IInv, vars
  <2>2. \A m \in Wrapped : JArg(m)' = JArg(m)
    BY <1>1 DEF vars, JArg, parallel
  <2> QED
    BY <1>1, <2>1, <2>2 DEF IInv, vars, Types, PlainWork, TokenHeld, OneOwn, ToldExactly
<1>2. ASSUME NEW r \in Recipes, StartRecipe(r) \/ CollectRecipe(r) PROVE IInv'
  BY <1>2, StepStart, StepCollect
<1>3. ASSUME NEW m \in Wrapped, Wrapper(m) PROVE IInv'
  BY <1>3, StepRead, StepPut, StepQuiet DEF Wrapper
<1>4. CASE Ended
  BY <1>1, <1>4 DEF Ended
<1> QED
  BY <1>1, <1>2, <1>3, <1>4 DEF Next

(* The strengthening holds in every reachable state.                       *)
THEOREM JobServerInvariant == Spec => []IInv
BY InitIInv, NextIInv, PTL DEF Spec

-----------------------------------------------------------------------------
(* The properties of the runs.                                             *)

LEMMA IInvTypeOK == IInv => TypeOK
<1> SUFFICES ASSUME IInv PROVE TypeOK
  OBVIOUS
<1>1. Cardinality(HasPipe) \in Nat /\ Claimed \in Nat /\ pipe \in Nat /\ Pool \in Nat
  BY FiniteRecipes, ClaimedNat, JobServerAssumption DEF HasPipe, IInv, Types
<1>2. pipe <= Pool /\ Claimed <= Pool
  BY <1>1 DEF IInv, Balance
<1>3. \A m \in Wrapped : tokens[m] \in Nat /\ tokens[m] <= Claimed
  BY TokensWithinClaimed DEF IInv, Types
<1>4. \A m \in Wrapped : tokens[m] \in 0..Pool
  BY <1>1, <1>2, <1>3
<1>5. tokens \in [Wrapped -> 0..Pool]
  BY <1>4 DEF IInv, Types
<1> QED
  BY <1>1, <1>2, <1>5 DEF IInv, Types, TypeOK

(* What the recipes run together is a sum.                                 *)
RunAdder(T) ==
    CHOOSE g : g = [U \in SUBSET T |->
                      IF U = {} THEN 0 ELSE Runs(Pick(U)) + g[U \ {Pick(U)}]]

LEMMA RunningIsSum ==
    ASSUME NEW T PROVE Running(T) = SumOver([r \in T |-> Runs(r)], T)
<1> DEFINE R == [r \in T |-> Runs(r)]
<1>1. Running(T) = RunAdder(T)[T]
  BY Zenon DEF Running, MapThenSumSet, MapThenFoldSet, RunAdder, Pick
<1>2. \A U \in SUBSET T : U # {} => R[Pick(U)] = Runs(Pick(U))
  BY PickIn
<1>3. \A g : Adds(g, R, SUBSET T)
             <=> g = [U \in SUBSET T |->
                        IF U = {} THEN 0 ELSE Runs(Pick(U)) + g[U \ {Pick(U)}]]
  <2> HIDE DEF R
  <2> QED
    BY <1>2 DEF Adds
<1>4. RunAdder(T) = Adder(R, T)
  <2> HIDE DEF R
  <2> QED
    BY <1>3 DEF RunAdder, Adder
<1> QED
  BY <1>1, <1>4, SumOverDef

(* Recipes that run hold different tokens.                                 *)
LEMMA LiveHoldTokens ==
    ASSUME IInv, makeflags # "unlimited"
    PROVE  IsFiniteSet(Live) /\ Cardinality(Live) \in Nat
           /\ Cardinality(Live) <= Cardinality(HasPipe) + 1
<1>1. Live \subseteq HasPipe \cup HasOwn
  BY DEF IInv, TokenHeld, Types, Live, Over, HasPipe, HasOwn
<1>2. /\ IsFiniteSet(HasPipe) /\ Cardinality(HasPipe) \in Nat
      /\ IsFiniteSet(HasOwn) /\ Cardinality(HasOwn) \in Nat
      /\ IsFiniteSet(Live) /\ Cardinality(Live) \in Nat
  BY FiniteRecipes DEF HasPipe, HasOwn, Live
<1>3. Cardinality(HasOwn) <= 1
  <2>1. CASE HasOwn = {}
    BY <2>1, FS_EmptySet
  <2>2. CASE HasOwn # {}
    <3>1. PICK r : r \in HasOwn
      BY <2>2
    <3>2. HasOwn = {r}
      BY <3>1 DEF HasOwn, IInv, OneOwn
    <3> QED
      BY <3>2, FS_Singleton
  <2> QED
    BY <2>1, <2>2
<1>4. HasPipe \cap HasOwn = {}
  BY DEF HasPipe, HasOwn
<1>5. IsFiniteSet(HasPipe \cup HasOwn)
      /\ Cardinality(HasPipe \cup HasOwn) = Cardinality(HasPipe) + Cardinality(HasOwn)
  <2>1. Cardinality(HasPipe \cap HasOwn) = 0
    BY <1>4, FS_EmptySet
  <2>2. /\ IsFiniteSet(HasPipe \cup HasOwn)
        /\ Cardinality(HasPipe \cup HasOwn)
              = Cardinality(HasPipe) + Cardinality(HasOwn) - Cardinality(HasPipe \cap HasOwn)
    BY <1>2, FS_Union
  <2> QED
    BY <1>2, <2>1, <2>2
<1>6. Cardinality(Live) <= Cardinality(HasPipe \cup HasOwn)
  BY <1>1, <1>5, FS_Subset
<1> QED
  BY <1>2, <1>3, <1>5, <1>6

(* The jobs of a command that was told, on top of the token it runs on,    *)
(* are the tokens its wrapper claimed.                                     *)
Extra == [r \in Recipes |-> IF r \in Wrapped THEN tokens[r] ELSE 0]

LEMMA ExtraIsClaimed ==
    ASSUME IInv
    PROVE  /\ \A r \in Recipes : Extra[r] \in Nat
           /\ SumOver(Extra, Recipes) = Claimed
<1>1. \A r \in Recipes : Extra[r] \in Nat
  BY DEF Extra, IInv, Types
<1>2. IsFiniteSet(Wrapped) /\ IsFiniteSet(Plain) /\ Wrapped \cap Plain = {}
      /\ Recipes = Wrapped \cup Plain
  BY JobServerAssumption, FiniteRecipes, FS_Subset DEF Recipes
<1>3. SumOver(Extra, Recipes) = SumOver(Extra, Wrapped) + SumOver(Extra, Plain)
  <2>1. \A x \in Wrapped \cup Plain : Extra[x] \in Int
    BY <1>1, <1>2
  <2> QED
    BY <1>2, <2>1, SumDisjoint
<1>4. SumOver(Extra, Plain) = 0
  <2>1. \A x \in Plain : Extra[x] = 0
    BY <1>2 DEF Extra
  <2> QED
    BY <1>2, <2>1, SumZero
<1>5. SumOver(Extra, Wrapped) = SumOver(tokens, Wrapped)
  <2>0. \A x \in Wrapped : x \in Recipes
    BY <1>2
  <2>1. \A x \in Wrapped : Extra[x] \in Int /\ Extra[x] = tokens[x]
    BY <1>1, <2>0 DEF Extra
  <2> QED
    BY <1>2, <2>1, SumSame
<1>6. Claimed \in Nat
  BY ClaimedNat DEF IInv
<1> QED
  BY <1>1, <1>3, <1>4, <1>5, <1>6, ClaimedIsSum

(* A command that is told how many jobs to run has a token for each.       *)
LEMMA RunsOnTokens ==
    ASSUME IInv, NEW r \in Live, r \notin Untold
    PROVE  Runs(r) \in Nat /\ Runs(r) <= 1 + Extra[r]
<1>1. r \in Recipes /\ Extra[r] \in Nat
  BY ExtraIsClaimed DEF Live
<1>2. CASE at[r] # "wait"
  BY <1>1, <1>2 DEF Runs
<1>3. CASE at[r] = "wait"
  <2>1. r \in Wrapped
    BY <1>1, <1>3 DEF IInv, PlainWork, Recipes
  <2>2. jobs[r] = JArg(r) /\ jobs[r] # 0 /\ tokens[r] \in Nat
    BY <1>1, <1>3, <2>1 DEF Untold, IInv, ToldExactly, Types
  <2>3. Runs(r) = JArg(r) /\ Extra[r] = tokens[r]
    BY <1>1, <1>3, <2>1, <2>2 DEF Runs, Extra
  <2> QED
    BY <2>2, <2>3 DEF JArg
<1> QED
  BY <1>2, <1>3

LEMMA ToldAreBounded ==
    ASSUME IInv, makeflags = "jobserver"
    PROVE  /\ Running(Live \ Untold) \in Int
           /\ Running(Live \ Untold) + Cardinality(Untold) <= Pool + 1
<1> DEFINE T == Live \ Untold
           R == [r \in T |-> Runs(r)]
           one == [r \in Recipes |-> 1]
           both == [r \in Recipes |-> 1 + Extra[r]]
<1>1. /\ IsFiniteSet(T) /\ T \in SUBSET Recipes /\ Untold \subseteq Live
      /\ IsFiniteSet(Untold) /\ Cardinality(Untold) \in Nat /\ Cardinality(T) \in Nat
      /\ IsFiniteSet(Live) /\ Cardinality(Live) \in Nat
  BY FiniteRecipes DEF Live, Untold
<1>2. Cardinality(T) = Cardinality(Live) - Cardinality(Untold)
  <2>1. Live \cap Untold = Untold
    BY <1>1
  <2>2. Cardinality(Live \ Untold) = Cardinality(Live) - Cardinality(Live \cap Untold)
    BY <1>1, FS_Difference
  <2> QED
    BY <2>1, <2>2
<1>3. \A r \in T : /\ R[r] \in Int /\ both[r] \in Int /\ R[r] <= both[r]
                   /\ one[r] = 1 /\ Extra[r] \in Int /\ both[r] = one[r] + Extra[r]
  BY <1>1, RunsOnTokens, ExtraIsClaimed
<1>4. \A r \in Recipes : Extra[r] \in Nat
  BY ExtraIsClaimed
<1> HIDE DEF T, R, one, both
<1>5. SumOver(R, T) <= SumOver(both, T)
  <2>1. \A r \in T : R[r] \in Int /\ both[r] \in Int /\ R[r] <= both[r]
    BY <1>3
  <2> QED
    BY <1>1, <2>1, SumMonotonic
<1>6. SumOver(both, T) = SumOver(one, T) + SumOver(Extra, T)
  <2>1. \A r \in T : one[r] \in Int /\ Extra[r] \in Int /\ both[r] = one[r] + Extra[r]
    BY <1>3
  <2> QED
    BY <1>1, <2>1, SumPlus
<1>7. SumOver(one, T) = Cardinality(T)
  BY <1>1, <1>3, SumOnes
<1>8. SumOver(Extra, T) <= Claimed
  <2>1. IsFiniteSet(Recipes)
    BY FiniteRecipes
  <2>2. SumOver(Extra, T) <= SumOver(Extra, Recipes)
    BY <1>1, <1>4, <2>1, SumSubset
  <2> QED
    BY <2>2, ExtraIsClaimed
<1>9. SumOver(R, T) \in Int /\ SumOver(Extra, T) \in Int
  BY <1>1, <1>3, SumInt
<1>10. Running(T) = SumOver(R, T)
  BY RunningIsSum DEF R
<1>11. Cardinality(Live) <= Cardinality(HasPipe) + 1
  BY LiveHoldTokens
<1>12. pipe \in Nat /\ Claimed \in Nat /\ Cardinality(HasPipe) \in Nat /\ Pool \in Nat
       /\ pipe + Cardinality(HasPipe) + Claimed = Pool
  BY ClaimedNat, FiniteRecipes, JobServerAssumption DEF IInv, Types, Balance, HasPipe
<1>13. Running(T) + Cardinality(Untold) <= Pool + 1
  BY <1>1, <1>2, <1>5, <1>6, <1>7, <1>8, <1>9, <1>10, <1>11, <1>12
<1> QED
  BY <1>9, <1>10, <1>13 DEF T

(* The only command that is told nothing is a ninja without a token.       *)
LEMMA IInvOthersBounded == IInv => OthersBounded
<1> SUFFICES ASSUME IInv, makeflags = "jobserver"
             PROVE  /\ Running(Live \ Untold) + Cardinality(Untold) <= Pool + 1
                    /\ Untold = {} => Running(Live) <= Pool + 1
                    /\ \A m \in Untold : m \in NinjaOnes /\ tokens[m] = 0
  BY DEF OthersBounded
<1>1. /\ Running(Live \ Untold) \in Int
      /\ Running(Live \ Untold) + Cardinality(Untold) <= Pool + 1
  BY ToldAreBounded
<1>2. ASSUME Untold = {} PROVE Running(Live) <= Pool + 1
  <2>1. Live \ Untold = Live
    BY <1>2
  <2>2. Cardinality(Untold) = 0
    BY <1>2, FS_EmptySet
  <2> QED
    BY <1>1, <2>1, <2>2, JobServerAssumption
<1>3. ASSUME NEW m \in Untold PROVE m \in NinjaOnes /\ tokens[m] = 0
  <2>1. m \in Wrapped /\ jobs[m] = JArg(m) /\ jobs[m] = 0 /\ tokens[m] \in Nat
    BY <1>3 DEF Untold, IInv, ToldExactly, Types
  <2> QED
    BY <2>1 DEF JArg
<1> QED
  BY <1>1, <1>2, <1>3

LEMMA IInvSerial == IInv => SerialStaysSerial
<1> SUFFICES ASSUME IInv, makeflags = "serial" PROVE Running(Live) <= 1
  BY DEF SerialStaysSerial
<1>1. Cardinality(HasPipe) = 0 /\ Claimed = 0
  <2>1. Cardinality(HasPipe) \in Nat /\ Claimed \in Nat /\ pipe \in Nat
    BY ClaimedNat, FiniteRecipes DEF IInv, Types, HasPipe
  <2> QED
    BY <2>1 DEF IInv, Balance
<1>2. \A m \in Wrapped : tokens[m] = 0
  BY <1>1, TokensWithinClaimed DEF IInv, Types
<1> DEFINE R == [r \in Live |-> Runs(r)]
<1>3. \A r \in Live : R[r] = 1
  <2> SUFFICES ASSUME NEW r \in Live PROVE Runs(r) = 1
    OBVIOUS
  <2>1. CASE at[r] # "wait"
    BY <2>1 DEF Runs
  <2>2. CASE at[r] = "wait"
    <3>1. r \in Wrapped
      BY <2>2 DEF Live, Recipes, IInv, PlainWork
    <3>2. jobs[r] = JArg(r) /\ tokens[r] = 0
      BY <1>2, <2>2, <3>1 DEF IInv, ToldExactly
    <3>3. JArg(r) = 1
      BY <3>2 DEF JArg, parallel
    <3> QED
      BY <2>2, <3>2, <3>3 DEF Runs
  <2> QED
    BY <2>1, <2>2
<1>4. IsFiniteSet(Live) /\ Cardinality(Live) \in Nat /\ Cardinality(Live) <= 1
  BY <1>1, LiveHoldTokens
<1> HIDE DEF R
<1>5. SumOver(R, Live) = Cardinality(Live)
  BY <1>3, <1>4, SumOnes
<1>6. Running(Live) = SumOver(R, Live)
  BY RunningIsSum DEF R
<1> QED
  BY <1>4, <1>5, <1>6

(* No token is lost or made: whatever the wrappers read, give up or put    *)
(* back, and however they race, pipe, make and wrappers hold Pool tokens,  *)
(* and a wrapper that has exited holds none (PutJobserverTokens).          *)
THEOREM TokensAreConserved == Spec => []TokensConserved
<1>1. IInv => TokensConserved
  BY DEF IInv, Balance, ToldExactly, TokensConserved, HasPipe
<1> QED
  BY <1>1, JobServerInvariant, PTL

(* As long as no ninja is told nothing, all recipes together keep to the    *)
(* -j that make was given, with any number of them and of tokens; only a     *)
(* ninja whose wrapper found no token is told nothing (makeparallel.cpp:325), *)
(* and then all the others keep to what its own token leaves.  Without -j     *)
(* one job runs at a time, a ninja's included.                                *)
THEOREM JobsAreBounded == Spec => []JobsBounded
<1>1. IInv => JobsBounded
  BY IInvTypeOK, IInvOthersBounded, IInvSerial DEF JobsBounded
<1> QED
  BY <1>1, JobServerInvariant, PTL
=============================================================================
