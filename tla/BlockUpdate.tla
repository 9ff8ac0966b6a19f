------------------------------ MODULE BlockUpdate ------------------------------
(***************************************************************************)
(* The device side of a block-based update: the updater executes the       *)
(* commands of the transfer list one after the other on the partition,     *)
(* which holds the source image.  The updater is not part of this          *)
(* repository; each command does what WriteTransfers' comments and the     *)
(* operands it writes say.  What is checked is that the list is right: it  *)
(* turns the source image into the target image.                           *)
(***************************************************************************)
EXTENDS TransferList

CONSTANTS
    NewData,   \* NewData[b]: what block b holds in the target image, if written
    Zeros,     \* a block of zeros
    Erased     \* what is read from a block that was erased

ASSUME DataAssumption ==
    /\ DOMAIN NewData = Blocks
    /\ Erased \notin {SourceData[b] : b \in Blocks} \cup {NewData[b] : b \in Blocks}
    /\ \A z \in ZeroDomain : \A s \in SrcChoices[z] : \A b \in s : SourceData[b] = Zeros

VARIABLES
    device,   \* contents of the partition
    store,    \* stash files on the cache partition: key |-> blocks
    sound     \* every patch was applied to the data it was computed from

deviceVars == <<device, store, sound>>
updateVars == <<listingVars, deviceVars>>

UpdateInit ==
    /\ ListInit
    /\ device = SourceData
    /\ store = <<>>
    /\ sound = TRUE

Contents(blocks) ==
    LET at == Ascending(blocks) IN [i \in DOMAIN at |-> device[at[i]]]

PlaceOf(b, blocks) == Cardinality({x \in blocks : x <= b})

(* The source of a command: blocks of the partition and stashes, put back  *)
(* together in the order of its source ranges.                             *)
Assembled(command) ==
    LET at == Ascending(command.src)
    IN  [i \in DOMAIN at |->
           IF at[i] \in Read(command) THEN device[at[i]]
           ELSE LET r == CHOOSE r \in command.refs : at[i] \in r.blocks
                IN  store[r.key][PlaceOf(at[i], r.blocks)]]

Write(blocks, Data(_)) ==
    device' = [b \in Blocks |-> IF b \in blocks THEN Data(b) ELSE device[b]]

This == wr.out[idx]

StartUpdate ==
    /\ pc = "written"
    /\ pc' = "updating"
    /\ idx' = 1
    /\ UNCHANGED <<planState, wr, deviceVars>>

(* The next command of the list is op.                                     *)
Executing(op) ==
    /\ pc = "updating"
    /\ idx \in DOMAIN wr.out
    /\ This.op = op
    /\ idx' = idx + 1
    /\ UNCHANGED <<pc, planState, wr>>

ExecStash ==
    /\ Executing("stash")
    /\ store' = [k \in DOMAIN store \cup {This.key} |->
                   IF k = This.key THEN Contents(This.src) ELSE store[k]]
    /\ UNCHANGED <<device, sound>>

ExecFree ==
    /\ Executing("free")
    /\ store' = [k \in DOMAIN store \ {This.key} |-> store[k]]
    /\ UNCHANGED <<device, sound>>

ExecMove ==
    /\ Executing("move")
    /\ Write(This.tgt, LAMBDA b : Assembled(This)[PlaceOf(b, This.tgt)])
    /\ UNCHANGED <<store, sound>>

ExecPatch ==
    /\ Executing("bsdiff")
    /\ Write(This.tgt, LAMBDA b : NewData[b])
    /\ sound' = (sound /\ Assembled(This) = HashBlocks(This.src))
    /\ UNCHANGED store

ExecNew ==
    /\ Executing("new")
    /\ Write(This.tgt, LAMBDA b : NewData[b])
    /\ UNCHANGED <<store, sound>>

ExecZero ==
    /\ Executing("zero")
    /\ Write(This.tgt, LAMBDA b : Zeros)
    /\ UNCHANGED <<store, sound>>

ExecErase ==
    /\ Executing("erase")
    /\ Write(This.tgt, LAMBDA b : Erased)
    /\ UNCHANGED <<store, sound>>

UpdateDone ==
    /\ pc = "updating"
    /\ idx \notin DOMAIN wr.out
    /\ pc' = "updated"
    /\ UNCHANGED <<idx, planState, wr, deviceVars>>

UpdateStep ==
    \/ ListStep /\ UNCHANGED deviceVars
    \/ StartUpdate
    \/ ExecStash \/ ExecFree \/ ExecMove \/ ExecPatch
    \/ ExecNew \/ ExecZero \/ ExecErase
    \/ UpdateDone

UpdateReturned ==
    pc \in {"updated", "oversize", "aborted"} /\ UNCHANGED updateVars

UpdateNext == UpdateStep \/ UpdateReturned

UpdateSpec == UpdateInit /\ [][UpdateNext]_updateVars /\ WF_updateVars(UpdateStep)

-----------------------------------------------------------------------------

Operations == {"stash", "free", "move", "bsdiff", "new", "zero", "erase"}

(* Types; and each command is one the updater knows, with blocks to act on *)
(* (to_string_raw asserts that a RangeSet it writes is not empty).         *)
UpdateTypeOK ==
    /\ pc \in Phases \cup {"revise", "check", "planned", "write", "written", "oversize",
                          "updating", "updated"}
    /\ ListTypeOK
    /\ pc = "updating" /\ idx \in DOMAIN wr.out =>
         /\ This.op \in Operations
         /\ This.op # "free" => This.src \cup This.tgt # {}
    /\ DOMAIN device = Blocks
    /\ \A k \in DOMAIN store : store[k] \in Seq({SourceData[b] : b \in Blocks}
                                   \cup {NewData[b] : b \in Blocks} \cup {Zeros, Erased})
    /\ sound \in BOOLEAN

(* What block b of transfer t holds in the target image.                   *)
Wanted(t, b) ==
    CASE style[t] = "zero" -> Zeros
      [] style[t] = "move" -> HashBlocks(src[t])[PlaceOf(b, Tgt[t])]
      [] OTHER -> NewData[b]

(* The transfer list is right: every patch is applied to exactly the data  *)
(* it was computed from, and at the end every block the new image cares    *)
(* about holds what the new image holds there, whatever was stashed,       *)
(* shared or reordered on the way, unless the first command erases a block *)
(* that is read (EraseFirstUnread).                                        *)
ImageCorrect ==
    pc \in {"updating", "updated"} /\ ErasesUnread =>
    /\ sound
    /\ pc = "updated" =>
          /\ \A t \in Transfers : \A b \in Tgt[t] : device[b] = Wanted(t, b)
          /\ \A b \in Extended : device[b] = Zeros

(* The stashes a command is told to read are in the store, however many    *)
(* stashes share a file or a slot, and no file is left there at the end.   *)
StashThere ==
    /\ pc = "updating" /\ idx \in DOMAIN wr.out =>
          \A r \in This.refs : r.key \in DOMAIN store
    /\ pc = "updated" => DOMAIN store = {}

(* Whatever a command reads is there when it runs: its stashes, and the    *)
(* blocks that are erased first are not among those read in place.         *)
ReadsServed == StashThere /\ TouchedNotErased

CacheUsed == MapThenSumSet(LAMBDA k : Len(store[k]), DOMAIN store)

Overlapping(command) ==
    version >= 3 /\ command.op \in {"move", "bsdiff"} /\ command.src \cap command.tgt # {}

(* The "maximum size needed (in blocks)" the header announces is enough    *)
(* for the stashes and for the automatic stash of overlapping commands.    *)
PeakAnnounced ==
    /\ pc \in {"updating", "updated"} => CacheUsed <= wr.peak
    /\ pc = "updating" /\ idx \in DOMAIN wr.out /\ Overlapping(This) =>
          CacheUsed + Cardinality(This.src) <= wr.peak

(* The program ends and so does the update: no loop over the digraph, the  *)
(* sequence or the list goes on for ever, and no assertion stops it but    *)
(* the one on the size of the stashes.                                     *)
UpdateEnds == <>(pc \in {"updated", "oversize"})
=============================================================================
