------------------------------- MODULE StashPlan -------------------------------
(***************************************************************************)
(* The rest of BlockImageDiff.Compute before the patches: fitting the      *)
(* stashes of the sequence into the cache partition (ReviseStashSize) and  *)
(* double-checking the result (AssertSequenceGood).  Extends the ordering  *)
(* of TransferOrder; the numbers are in blocks.                            *)
(***************************************************************************)
EXTENDS TransferOrder, SequencesExt

CONSTANTS
    Caches,       \* what is known of the cache partition: a set of limits
    CacheBlocks   \* OPTIONS.cache_size, in blocks

(* known: OPTIONS.cache_size is not None; allowed: cache_size *            *)
(* stash_threshold in whole blocks; whole: that is what it is exactly.     *)
ASSUME CacheAssumption ==
    /\ Caches \subseteq [known : BOOLEAN, allowed : Nat, whole : BOOLEAN]
    /\ CacheBlocks \in Nat
    /\ \A c \in Caches : c.allowed <= CacheBlocks

(* AddSplitTransfers, for versions 3 and 4: a diff transfer is cut until   *)
(* its target or its source is no larger than an eighth of the cache.      *)
MaxBlocksPerTransfer == CacheBlocks \div 8

ASSUME SplitAssumption ==
    \A v \in Versions, t \in Transfers \ ZeroDomain : \A s \in SrcChoices[t] :
        \/ v < 3
        \/ s = {}
        \/ Cardinality(Tgt[t]) <= MaxBlocksPerTransfer
        \/ Cardinality(s) <= MaxBlocksPerTransfer

VARIABLES
    cache,           \* the limits of this run
    stashedBlocks,   \* the running total of ReviseStashSize
    newBlocks        \* target blocks it has made "new" for want of space

sizeVars == <<cache, stashedBlocks, newBlocks>>
planVars == <<vars, sizeVars>>

PlanInit == Init /\ cache \in Caches /\ stashedBlocks = 0 /\ newBlocks = 0

(* Compute only revises when it knows the size of the cache.               *)
StartRevise ==
    /\ pc = "sequenced"
    /\ pc' = IF version >= 2 /\ cache.known THEN "revise" ELSE "check"
    /\ idx' = 1
    /\ UNCHANGED <<listVars, inputVars, graphVars, seqVars, stashVars, topoVars,
                   sizeVars>>

(* stashed_blocks + size > max_allowed; and slips: the bound taken for too *)
(* much, or the stashes that exist already left out.                       *)
ExceedsOrMeets(total, size) == total + size >= cache.allowed
ExceedsAlone(total, size)   == size > cache.allowed
Exceeds(total, size)        == total + size > cache.allowed

(* Stashing, in turn, those of xf.stash_before that still fit: Total[i] is *)
(* the running total after the first i of them.                            *)
Fitting(xf) ==
    LET Size(i) == Cardinality(stashBefore[xf][i].blocks)
        Total[i \in 0..Len(stashBefore[xf])] ==
            IF i = 0 THEN stashedBlocks
            ELSE IF Exceeds(Total[i-1], Size(i)) THEN Total[i-1]
            ELSE Total[i-1] + Size(i)
    IN  [total  |-> Total[Len(stashBefore[xf])],
         unmade |-> {stashBefore[xf][i] : i \in {i \in DOMAIN stashBefore[xf] :
                                        Exceeds(Total[i-1], Size(i))}}]

(* In format 3 a command whose source and target overlap stashes its whole *)
(* source on its own account while it runs.                                *)
StashesImplicitly(xf) ==
    style[xf] = "diff" /\ version >= 3 /\ src[xf] \cap Tgt[xf] # {}

(* The stashes the replaced commands no longer use, whose def points go;   *)
(* and a slip: they stay.                                                  *)
DroppedNone(cmds) == {}
Dropped(cmds)     == UNION {useStash[c] : c \in cmds}

(* A stash_before from which the dropped ones were removed.                *)
Without(made, dropped) ==
    LET Kept[i \in 0..Len(made)] ==
            IF i = 0 THEN <<>>
            ELSE IF made[i] \in dropped THEN Kept[i-1] ELSE Append(Kept[i-1], made[i])
    IN  Kept[Len(made)]

(* One round of the loop of ReviseStashSize.  The commands that cannot be  *)
(* afforded become "new", and what was to be stashed for them is not.      *)
ReviseStashSize ==
    /\ pc = "revise"
    /\ idx \in DOMAIN transfers
    /\ LET xf       == transfers[idx]
           total    == Fitting(xf).total - SizeOf(useStash[xf])
           implicit == {x \in {xf} : /\ StashesImplicitly(x)
                                     /\ Exceeds(total, Cardinality(src[x]))}
           replaced == {s.use : s \in Fitting(xf).unmade} \cup implicit
           dropped  == Dropped(replaced)
           sane     == /\ style[xf] = "diff" /\ version >= 3 => src[xf] # {}
                       /\ \A s \in dropped : s \in StashesMade(s.def)
                       /\ \A c \in replaced : style[c] # "new"
       IN  \/ /\ sane
              /\ stashedBlocks' = total
              /\ newBlocks' = newBlocks
                    + MapThenSumSet(LAMBDA t : Cardinality(Tgt[t]), replaced)
              /\ stashBefore' = [t \in Transfers |-> Without(stashBefore[t], dropped)]
              /\ useStash' = [t \in Transfers |->
                    IF t \in replaced THEN {} ELSE useStash[t]]
              /\ style' = [t \in Transfers |->
                    IF t \in replaced THEN "new" ELSE style[t]]
              /\ src' = [t \in Transfers |-> IF t \in replaced THEN {} ELSE src[t]]
              /\ pc' = pc
           \/ /\ ~sane
              /\ pc' = "aborted"
              /\ UNCHANGED <<stashVars, src, style, stashedBlocks, newBlocks>>
    /\ idx' = idx + 1
    /\ UNCHANGED <<version, cache, listVars, graphVars, seqVars, topoVars>>

ReviseDone ==
    /\ pc = "revise"
    /\ idx \notin DOMAIN transfers
    /\ pc' = "check"
    /\ UNCHANGED <<idx, listVars, inputVars, graphVars, seqVars, stashVars,
                   topoVars, sizeVars>>

AssertSequenceGood ==
    /\ pc = "check"
    /\ pc' = IF SequenceGood THEN "planned" ELSE "aborted"
    /\ UNCHANGED <<idx, listVars, inputVars, graphVars, seqVars, stashVars,
                   topoVars, sizeVars>>

PlanStep ==
    \/ OrderStep /\ UNCHANGED sizeVars
    \/ StartRevise \/ ReviseStashSize \/ ReviseDone \/ AssertSequenceGood

PlanReturned == pc \in {"planned", "aborted"} /\ UNCHANGED planVars

PlanNext == PlanStep \/ PlanReturned

PlanSpec == PlanInit /\ [][PlanNext]_planVars /\ WF_planVars(PlanStep)

-----------------------------------------------------------------------------

(* Types; the running total is a number of blocks that fit in the cache.   *)
PlanTypeOK ==
    /\ version \in Versions /\ cache \in Caches
    /\ src \in [Transfers -> SUBSET Blocks]
    /\ stashBefore \in [Transfers -> Seq(Stashes)]
    /\ useStash \in [Transfers -> SUBSET Stashes]
    /\ stashedBlocks \in 0..cache.allowed /\ newBlocks \in Nat

(* The stashes on the cache partition while the i-th transfer runs: made   *)
(* by it or before it, and used by it or later.                            *)
LiveAt(i) == {s \in UNION {useStash[t] : t \in Transfers} :
                order[s.def] <= i /\ i <= order[s.use]}

(* The plan that leaves ReviseStashSize never has more blocks stashed by   *)
(* "stash" commands than the cache allows, at any point of the update,     *)
(* although the running total it worked with forgets to take off what was  *)
(* counted for a command replaced later.                                   *)
ExplicitStashFits ==
    pc = "planned" /\ version >= 2 /\ cache.known =>
        \A i \in DOMAIN transfers : SizeOf(LiveAt(i)) <= cache.allowed

(* The double-check after the revision never fires: making a command "new" *)
(* leaves no other command reading a block after it was written, drops no  *)
(* stash that is still wanted and leaves none that nobody takes out.       *)
PlanConsistent ==
    /\ pc # "aborted"
    /\ pc \in {"revise", "check", "planned"} =>
          \A t \in Transfers :
             /\ \A s \in useStash[t] : s.use = t /\ s \in StashesMade(s.def)
             /\ \A s \in StashesMade(t) : s.def = t /\ s \in useStash[s.use]

(* What the command at position i needs, its own source included.          *)
NeedAt(i) ==
    SizeOf(LiveAt(i)) + (IF StashesImplicitly(transfers[i])
                         THEN Cardinality(src[transfers[i]]) ELSE 0)

(* A plan that fits is left alone: no command is turned into "new", at the *)
(* price of a larger package, when the whole sequence stays in the limit.  *)
FittingPlanKept ==
    [][/\ newBlocks = 0 /\ pc = "revise"
       /\ \A i \in DOMAIN transfers : NeedAt(i) <= cache.allowed
       => newBlocks' = 0]_planVars
=============================================================================
