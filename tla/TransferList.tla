----------------------------- MODULE TransferList -----------------------------
(***************************************************************************)
(* The end of BlockImageDiff.Compute: ComputePatches picks the command of  *)
(* each transfer, WriteTransfers turns the plan of StashPlan into the      *)
(* commands of the transfer list.  One round of the loop of WriteTransfers *)
(* is one action; its local variables are the fields of wr.                *)
(***************************************************************************)
EXTENDS StashPlan, Bags

CONSTANTS
    SourceData,    \* SourceData[b]: what block b of the source image holds
    TargetBlocks,  \* the blocks of the target partition
    Extended       \* tgt.extended, zeroed for dm-verity

Care == UNION {Tgt[t] : t \in Transfers}

(* Blocks are numbered from 0.                                             *)
ASSUME ImageAssumption ==
    /\ Blocks \subseteq Nat
    /\ DOMAIN SourceData = Blocks
    /\ Care \subseteq TargetBlocks /\ TargetBlocks \subseteq Blocks
    /\ Extended \subseteq TargetBlocks \ Care

VARIABLE wr   \* the local variables of WriteTransfers

listingVars == <<planVars, wr>>
planState == <<listVars, inputVars, graphVars, seqVars, stashVars,
               topoVars, sizeVars>>

(* ids: stash |-> slot, as pairs; free: slots given back; next: slots ever *)
(* used; refs: how many outstanding stashes share a hash; stashed, peak:   *)
(* blocks on the cache now and at most; touched: self.touched_src_ranges;  *)
(* frees, freeSize: what this command frees; total: blocks written.        *)
EmptyWriter ==
    [ids |-> {}, free |-> {}, next |-> 0, refs |-> EmptyBag, stashed |-> 0,
     peak |-> 0, touched |-> {}, frees |-> <<>>, freeSize |-> 0,
     total |-> 0, out |-> <<>>]

ListInit == PlanInit /\ wr = EmptyWriter

Command(op, tgt, source, key, refs) ==
    [op |-> op, tgt |-> tgt, src |-> source, key |-> key, refs |-> refs]

(* The blocks of a range set in their order: before the i-th are i - 1.    *)
Ascending(blocks) ==
    [i \in 1..Cardinality(blocks) |->
        CHOOSE n \in blocks : Cardinality({m \in blocks : m < n}) = i - 1]

(* HashBlocks(self.src, ranges), taken to be collision free.               *)
HashBlocks(blocks) ==
    LET at == Ascending(blocks) IN [i \in DOMAIN at |-> SourceData[at[i]]]

-----------------------------------------------------------------------------

(* A diff whose source and target data are the same becomes a move, the    *)
(* others get a patch (bsdiff stands for imgdiff too).  Which data are the *)
(* same is up to the target image, as long as the sizes agree.             *)
ComputePatches ==
    /\ pc = "planned"
    /\ \E moves \in SUBSET {t \in Transfers :
                 style[t] = "diff" /\ Cardinality(src[t]) = Cardinality(Tgt[t])} :
          style' = [t \in Transfers |-> IF t \in moves THEN "move"
                                        ELSE IF style[t] = "diff" THEN "bsdiff"
                                        ELSE style[t]]
    /\ idx' = 1
    /\ pc' = "write"
    /\ UNCHANGED <<version, src, listVars, graphVars, seqVars, stashVars, topoVars,
                   sizeVars, wr>>

(* A slot for s: one that was given back, or a new one.  A slip: the       *)
(* number of a new one is not counted up.                                  *)
SameSlot(w, s) ==
    IF w.free = {} THEN [w EXCEPT !.ids = @ \cup {<<s, w.next>>}]
    ELSE [w EXCEPT !.ids = @ \cup {<<s, Min(w.free)>>}, !.free = @ \ {Min(w.free)}]
TakeSlot(w, s) ==
    IF w.free = {} THEN [w EXCEPT !.ids = @ \cup {<<s, w.next>>}, !.next = @ + 1]
    ELSE [w EXCEPT !.ids = @ \cup {<<s, Min(w.free)>>}, !.free = @ \ {Min(w.free)}]

(* One pass of "for s, sr in xf.stash_before".                             *)
MakeStash(w, s) ==
    LET id == IF w.free # {} THEN Min(w.free) ELSE w.next
        h  == HashBlocks(s.blocks)
        v  == TakeSlot(w, s)
    IN  IF version = 2
        THEN [v EXCEPT !.stashed = @ + Cardinality(s.blocks),
                       !.out = Append(@, Command("stash", {}, s.blocks, id, {}))]
        ELSE IF BagIn(h, w.refs)
        THEN [v EXCEPT !.refs = @ (+) SetToBag({h})]
        ELSE [v EXCEPT !.refs = @ (+) SetToBag({h}),
                       !.stashed = @ + Cardinality(s.blocks),
                       !.touched = @ \cup s.blocks,
                       !.out = Append(@, Command("stash", {}, s.blocks, h, {}))]

SlotOf(w, s) == CHOOSE id \in 0..w.next : <<s, id>> \in w.ids

Key(w, s) == IF version = 2 THEN SlotOf(w, s) ELSE HashBlocks(s.blocks)

(* How many stashes wait in the file of h, that is stashes[sh].            *)
Waiting(h, refs) == IF BagIn(h, refs) THEN refs[h] ELSE 0

(* Whether others still wait for the file of h, refs having been counted   *)
(* down from before.  A slip: nobody does.                                *)
NobodyWaits(h, before, refs)  == FALSE
OthersWait(h, before, refs)   == version # 2 /\ BagIn(h, refs)

(* One pass of "for s, sr in xf.use_stash".  A stash is used once, so it   *)
(* is freed right after the command, unless others share its hash.         *)
TakeStash(w, s) ==
    LET id == SlotOf(w, s)
        h  == HashBlocks(s.blocks)
        v  == [w EXCEPT !.ids = @ \ {<<s, id>>}, !.free = @ \cup {id},
                        !.refs = IF version = 2 THEN @ ELSE @ (-) SetToBag({h})]
    IN  IF OthersWait(h, w.refs, v.refs) THEN v
        ELSE [v EXCEPT !.freeSize = @ + Cardinality(s.blocks),
                       !.frees = Append(@, Command("free", {}, {}, Key(w, s), {}))]

Larger(m, n) == IF m > n THEN m ELSE n

(* temp_stash_usage; and a slip: what is stashed already is left out.      *)
OwnUsage(w, xf)  == Cardinality(src[xf])
TempUsage(w, xf) == w.stashed + Cardinality(src[xf])

(* The command of xf, if it needs one, and the source blocks it touches.   *)
WriteCommand(w, xf, refs) ==
    CASE style[xf] = "new" ->
           [w EXCEPT !.out = Append(@, Command("new", Tgt[xf], {}, 0, {})),
                     !.total = @ + Cardinality(Tgt[xf])]
      [] style[xf] = "zero" ->
           LET toZero == Tgt[xf] \ src[xf]
           IN  IF toZero = {} THEN w
               ELSE [w EXCEPT !.out = Append(@, Command("zero", toZero, {}, 0, {})),
                              !.total = @ + Cardinality(toZero)]
      [] style[xf] = "move" /\ src[xf] = Tgt[xf] -> w
      [] OTHER ->
           LET implicit == version >= 3 /\ src[xf] \cap Tgt[xf] # {}
           IN  [w EXCEPT !.out = Append(@,
                                   Command(style[xf], Tgt[xf], src[xf], 0, refs)),
                         !.total = @ + Cardinality(Tgt[xf]),
                         !.peak = IF implicit
                                  THEN Larger(@, TempUsage(w, xf)) ELSE @,
                         !.touched = IF version >= 3 THEN @ \cup src[xf] ELSE @]

(* max_stashed_blocks * blocksize < max_allowed                            *)
PeakAllowed(peak) ==
    peak < cache.allowed \/ (peak = cache.allowed /\ ~cache.whole)

(* The assertions of one round, other than the one on the stash size.      *)
RoundSane(w, xf) ==
    /\ version = 1 => stashBefore[xf] = <<>> /\ useStash[xf] = {}
    /\ \A s \in useStash[xf] :
          /\ \E id \in 0..w.next : <<s, id>> \in w.ids
          /\ version >= 3 =>
                LET h == HashBlocks(s.blocks)
                IN  Waiting(h, w.refs) >= Cardinality(
                      {r \in useStash[xf] : HashBlocks(r.blocks) = h})
          /\ s.blocks \subseteq src[xf]
          /\ \A r \in useStash[xf] \ {s} : r.blocks \cap s.blocks = {}
    /\ style[xf] = "move" => Cardinality(src[xf]) = Cardinality(Tgt[xf])
    /\ style[xf] = "bsdiff" => src[xf] # {}

(* One round of the main loop of WriteTransfers.                           *)
WriteTransfer ==
    /\ pc = "write"
    /\ idx \in DOMAIN transfers
    /\ LET xf   == transfers[idx]
           made == FoldLeft(MakeStash, [wr EXCEPT !.frees = <<>>, !.freeSize = 0],
                            stashBefore[xf])
           full == [made EXCEPT !.peak = Larger(@, made.stashed)]
           refs == {[key |-> Key(full, s), blocks |-> s.blocks] : s \in useStash[xf]}
           used == FoldLeft(TakeStash, full, SetToSeq(useStash[xf]))
           done == WriteCommand(used, xf, refs)
           freed == [done EXCEPT !.out = @ \o done.frees,
                                 !.stashed = @ - done.freeSize]
       IN  \/ /\ RoundSane(full, xf)
              /\ wr' = freed
              /\ pc' = IF version >= 2 /\ cache.known /\ ~PeakAllowed(freed.peak)
                       THEN "oversize" ELSE "write"
           \/ /\ ~RoundSane(full, xf)
              /\ pc' = "aborted"
              /\ UNCHANGED wr
    /\ idx' = idx + 1
    /\ UNCHANGED planState

(* What nothing in the new image needs; of it, what the update is not said *)
(* to read is erased at the beginning and the rest at the end.  A slip:    *)
(* the care map is not taken off.                                          *)
NewCareToo  == TargetBlocks \ Extended
NewDontCare == (TargetBlocks \ Extended) \ Care
EraseFirst  == NewDontCare \ wr.touched
EraseLast   == NewDontCare \ EraseFirst

(* A slip: written in any case.                                            *)
Always(blocks, op) == <<Command(op, blocks, {}, 0, {})>>
Unless(blocks, op) ==
    IF blocks = {} THEN <<>> ELSE <<Command(op, blocks, {}, 0, {})>>

FinishWrite ==
    /\ pc = "write"
    /\ idx \notin DOMAIN transfers
    /\ wr' = [wr EXCEPT !.out = Unless(EraseFirst, "erase") \o @
                                   \o Unless(Extended, "zero")
                                   \o Unless(EraseLast, "erase"),
                        !.total = @ + Cardinality(Extended)]
    /\ pc' = "written"
    /\ UNCHANGED <<idx, planState>>

ListStep ==
    \/ PlanStep /\ UNCHANGED wr
    \/ ComputePatches \/ WriteTransfer \/ FinishWrite

(* The program has returned or died on an assertion.                       *)
ListReturned == pc \in {"written", "oversize", "aborted"} /\ UNCHANGED listingVars

ListNext == ListStep \/ ListReturned

ListSpec == ListInit /\ [][ListNext]_listingVars /\ WF_listingVars(ListStep)

-----------------------------------------------------------------------------

(* Types; in particular what is counted never goes below zero.             *)
ListTypeOK ==
    /\ PlanTypeOK
    /\ style \in [Transfers -> {"new", "zero", "diff", "move", "bsdiff"}]
    /\ wr.free \subseteq Nat /\ wr.next \in Nat
    /\ IsABag(wr.refs)
    /\ wr.stashed \in Nat /\ wr.peak \in Nat /\ wr.total \in Nat
    /\ wr.touched \subseteq Blocks
    /\ \A i \in DOMAIN wr.out : /\ wr.out[i].tgt \subseteq TargetBlocks
                                /\ wr.out[i].src \subseteq Blocks

(* The stashes made by the transfers listed so far and not yet used.       *)
Outstanding == {s \in UNION {useStash[t] : t \in Transfers} :
                  order[s.def] < idx /\ idx <= order[s.use]}

(* Stashes with the same content share one file on the device: its         *)
(* reference count is the number of stashes still to be used, it is freed  *)
(* with the last of them, and the blocks counted as stashed are those of   *)
(* the files that exist, so that nothing is left when the list ends.       *)
HashesCounted ==
    pc = "write" /\ version >= 3 =>
      /\ \A h \in {HashBlocks(s.blocks) : s \in Outstanding} \cup BagToSet(wr.refs) :
            Waiting(h, wr.refs)
              = Cardinality({s \in Outstanding : HashBlocks(s.blocks) = h})
      /\ wr.stashed = MapThenSumSet(Len, BagToSet(wr.refs))

(* Format 2 numbers its stashes: no two that exist at once share a number, *)
(* every number below the announced count is in use or free, and the       *)
(* blocks counted are those of the stashes that exist.                     *)
SlotsApart ==
    pc = "write" /\ version >= 2 =>
      /\ {p[1] : p \in wr.ids} = Outstanding
      /\ \A p, q \in wr.ids : p[2] = q[2] => p = q
      /\ {p[2] : p \in wr.ids} \cap wr.free = {}
      /\ {p[2] : p \in wr.ids} \cup wr.free = 0..(wr.next - 1)
      /\ version = 2 => wr.stashed = SizeOf(Outstanding)

(* Blocks of the partition that some command of the list reads.            *)
Read(command) ==
    command.src \ UNION {r.blocks : r \in command.refs}

ReadBlocks == UNION {Read(wr.out[i]) : i \in DOMAIN wr.out}

ErasesUnread == EraseFirst \cap ReadBlocks = {}

(* What the list says to erase before the first command, no command reads: *)
(* from format 3 on touched_src_ranges has every block that is read.       *)
TouchedNotErased == pc = "written" /\ version >= 3 => ErasesUnread

(* The same of all the formats: "we erase the ones that won't be used in   *)
(* this update at the beginning of an update" (blockimgdiff.py:578).       *)
EraseFirstUnread == pc = "written" => ErasesUnread

(* A plan that ReviseStashSize has fitted into the cache is written out    *)
(* without tripping the sanity check on the stash size.                    *)
NeverOversize == pc # "oversize"

(* The same of format 2, but for one case: a list that needs exactly the   *)
(* allowed size, where <= meets <, is refused too.                         *)
FittedIsAccepted ==
    pc = "oversize" /\ version = 2 => cache.whole /\ wr.peak = cache.allowed

(* A plan fits the cache by the count of the method that revises it, and   *)
(* by that of the method that writes it out.                               *)
PlanFits == ExplicitStashFits /\ FittedIsAccepted

(* Shared files and numbered slots are counted exactly, in every format.   *)
StashesExact == HashesCounted /\ SlotsApart
=============================================================================
