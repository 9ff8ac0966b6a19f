------------------------------- MODULE RangeLib -------------------------------
(***************************************************************************)
(* rangelib.py: sets of integers as sorted boundaries.  A RangeSet is the  *)
(* sequence s1, e1, s2, e2, ... of the half-open ranges [s1, e1), ...; the *)
(* operations sweep over the boundaries of both operands.                  *)
(***************************************************************************)
EXTENDS Integers, Sequences, FiniteSets

CONSTANTS
    Limit,     \* bound of the model: the integers are 0..Limit-1
    MaxItems   \* bound of the model: items of a text that is parsed

ASSUME LimitAssumption == Limit \in Nat \ {0} /\ MaxItems \in Nat

VARIABLES
    self,    \* the receiver: its data and its monotonic attribute
    other,   \* the argument
    answer,  \* what size() or overlaps() returned, 0 for the others
    called,  \* the last operation, with its argument n
    text     \* the items self was parsed from, until the first operation

vars == <<self, other, answer, called, text>>

-----------------------------------------------------------------------------

Ranges(data) == {<<data[2 * k - 1], data[2 * k]>> : k \in 1..(Len(data) \div 2)}

AsSet(data) == UNION {r[1]..(r[2] - 1) : r \in Ranges(data)}

None == -1

(* A plausible slip: consecutive duplicates are kept.                      *)
PairsKept(source) == source

(* The loop of _remove_pairs after the first i boundaries: what it has     *)
(* yielded, and last, the boundary held back, None after a pair.           *)
Reduced(source) ==
    LET Run[i \in 0..Len(source)] ==
          IF i = 0 THEN [last |-> None, out |-> <<>>]
          ELSE LET r == Run[i - 1] IN
               IF source[i] = r.last THEN [last |-> None, out |-> r.out]
               ELSE [last |-> source[i],
                     out  |-> IF r.last = None THEN r.out ELSE Append(r.out, r.last)]
    IN  Run

Released(r) == IF r.last = None THEN r.out ELSE Append(r.out, r.last)

RemovePairs(source) == Released(Reduced(source)[Len(source)])

(* RangeSet(data=...)                                                      *)
FromData(data) ==
    LET kept == RemovePairs(data)
    IN  [data |-> kept,
         monotonic |-> data # <<>> /\ \A i \in 1..(Len(kept) - 1) : kept[i] < kept[i + 1]]

(* zip(data, cycle((up, down))), and heapq.merge of two such lists: by     *)
(* position, and the smaller step first where the positions are equal.     *)
Events(data, up, down) ==
    [i \in DOMAIN data |-> <<data[i], IF i % 2 = 1 THEN up ELSE down>>]

BeforeByPosition(e, f) == e[1] < f[1]   \* a slip: ties left as they come
Before(e, f) == e[1] < f[1] \/ (e[1] = f[1] /\ e[2] < f[2])

(* The first i events, k of them from es: the smaller of the two heads is  *)
(* next, the one of es if they are equal.                                  *)
Merging(es, fs) ==
    LET Run[i \in 0..(Len(es) + Len(fs))] ==
          IF i = 0 THEN [k |-> 0, out |-> <<>>]
          ELSE LET r == Run[i - 1] IN
               IF /\ r.k < Len(es)
                  /\ i - r.k > Len(fs) \/ ~Before(fs[i - r.k], es[r.k + 1])
               THEN [k |-> r.k + 1, out |-> Append(r.out, es[r.k + 1])]
               ELSE [k |-> r.k, out |-> Append(r.out, fs[i - r.k])]
    IN  Run

Merge(es, fs) == Merging(es, fs)[Len(es) + Len(fs)].out

(* The sweep after the first i events: its depth z, and the positions of   *)
(* the events at which it crossed, from a depth by a step that are a pair  *)
(* of cross.                                                               *)
Sweep(events, cross) ==
    LET Run[i \in 0..Len(events)] ==
          IF i = 0 THEN [z |-> 0, out |-> <<>>]
          ELSE LET r == Run[i - 1]
                   p == events[i][1]
                   d == events[i][2]
               IN  [z   |-> r.z + d,
                    out |-> IF <<r.z, d>> \in cross THEN Append(r.out, p) ELSE r.out]
    IN  Run

Crossings(events, cross) == Sweep(events, cross)[Len(events)].out

InOne  == {<<0, 1>>, <<1, -1>>}
InBoth == {<<1, 1>>, <<2, -1>>}

Union(a, b) ==
    FromData(Crossings(Merge(Events(a.data, 1, -1), Events(b.data, 1, -1)), InOne))

Intersect(a, b) ==
    FromData(Crossings(Merge(Events(a.data, 1, -1), Events(b.data, 1, -1)), InBoth))

Subtract(a, b) ==
    FromData(Crossings(Merge(Events(a.data, 1, -1), Events(b.data, -1, 1)), InOne))

Overlaps(a, b) ==
    Crossings(Merge(Events(a.data, 1, -1), Events(b.data, 1, -1)), InBoth) # <<>>

(* The boundaries, with alternating signs, add up to the size.             *)
Total(data) ==
    LET Run[i \in 0..Len(data)] ==
          IF i = 0 THEN 0
          ELSE IF i % 2 = 0 THEN Run[i - 1] + data[i] ELSE Run[i - 1] - data[i]
    IN  Run

Size(a) == Total(a.data)[Len(a.data)]

(* offset: the numbers of self in the ranges left behind; start: where the *)
(* range being crossed begins.                                             *)
Squeeze(events) ==
    LET Run[i \in 0..Len(events)] ==
          IF i = 0 THEN [offset |-> 0, start |-> None, out |-> <<>>]
          ELSE LET r == Run[i - 1]
                   p == events[i][1]
               IN  CASE events[i][2] = -5 -> [r EXCEPT !.start = p]
                     [] events[i][2] = 5  -> [r EXCEPT !.offset = @ + p - r.start,
                                                       !.start = None]
                     [] OTHER -> [r EXCEPT !.out = Append(@, r.offset + p - r.start)]
    IN  Run

MapWithin(a, b) ==
    LET events == Merge(Events(a.data, -5, 5), Events(b.data, -1, 1))
    IN  FromData(Squeeze(events)[Len(events)].out)

(* An item <<s, e>> stands for the text "s-e", or "s" if the two are equal.*)
(* What is remembered of an item in order.                                *)
LastOf(last, s, e) == IF s = e THEN s + 1 ELSE e

Seen(items) ==
    LET Run[i \in 0..Len(items)] ==
          IF i = 0 THEN [last |-> -1, ok |-> TRUE]
          ELSE LET r == Run[i - 1] IN
               IF r.last <= items[i][1]
               THEN [r EXCEPT !.last = LastOf(@, items[i][1], items[i][2])]
               ELSE [r EXCEPT !.ok = FALSE]
    IN  Run

Bounds(items) ==
    [i \in 1..(2 * Len(items)) |->
       IF i % 2 = 1 THEN items[(i + 1) \div 2][1] ELSE items[i \div 2][2] + 1]

(* data.sort(): the first i numbers, each put behind those not above it.   *)
Insert(s, x) ==
    LET k == Cardinality({i \in DOMAIN s : s[i] <= x})
    IN  SubSeq(s, 1, k) \o <<x>> \o SubSeq(s, k + 1, Len(s))

Sorting(s) ==
    LET Run[i \in 0..Len(s)] == IF i = 0 THEN <<>> ELSE Insert(Run[i - 1], s[i])
    IN  Run

(* _parse_internal                                                         *)
Parse(items) ==
    [data |-> RemovePairs(Sorting(Bounds(items))[2 * Len(items)]),
     monotonic |-> Seen(items)[Len(items)].ok]

(* to_string, as the items it writes.                                     *)
ToItems(a) ==
    [k \in 1..(Len(a.data) \div 2) |-> <<a.data[2 * k - 1], a.data[2 * k] - 1>>]

(* Each range grows by n at both ends, but not below zero.                 *)
Widened(a, n) ==
    LET Out[k \in 0..(Len(a.data) \div 2)] ==
          IF k = 0 THEN a
          ELSE LET s == a.data[2 * k - 1] - n
               IN  Union(Out[k - 1], Parse(<< <<IF s > 0 THEN s ELSE 0,
                                               a.data[2 * k] + n - 1>> >>))
    IN  Out

Extend(a, n) == Widened(a, n)[Len(a.data) \div 2]

(* Whole ranges as long as they fit, then a part of the next one.          *)
Leading(a, n) ==
    LET Out[k \in 0..(Len(a.data) \div 2)] ==
          IF k = 0 THEN [out |-> <<>>, left |-> n, broke |-> FALSE]
          ELSE LET r == Out[k - 1]
                   s == a.data[2 * k - 1]
                   e == a.data[2 * k]
               IN  IF r.broke THEN r
                   ELSE IF e - s >= r.left
                        THEN [r EXCEPT !.out = @ \o <<s, s + r.left>>, !.broke = TRUE]
                   ELSE [r EXCEPT !.out = @ \o <<s, e>>, !.left = @ - (e - s)]
    IN  Out

First(a, n) ==
    IF Size(a) <= n THEN a ELSE FromData(Leading(a, n)[Len(a.data) \div 2].out)

-----------------------------------------------------------------------------

Items == {i \in (0..(Limit - 1)) \X (0..(Limit - 1)) : i[1] <= i[2]}

(* Texts without repeated blocks, the ones the build writes and reads.     *)
Texts ==
    {t \in UNION {[1..n -> Items] : n \in 0..MaxItems} :
        \A i, j \in DOMAIN t : i < j => t[i][2] < t[j][1] \/ t[j][2] < t[i][1]}

Parsed == {Parse(t) : t \in Texts}

Init ==
    /\ text \in Texts
    /\ self = Parse(text)
    /\ other \in Parsed
    /\ answer = 0
    /\ called = <<"parse", 0>>

Called(name, n) == called' = <<name, n>> /\ text' = <<>>

(* self is replaced by the RangeSet returned, if that is within Limit.     *)
Becomes(a, name, n) ==
    /\ AsSet(a.data) \subseteq 0..(Limit - 1)
    /\ self' = a
    /\ answer' = 0
    /\ Called(name, n)
    /\ UNCHANGED other

Exchange ==
    /\ self' = other /\ other' = self /\ answer' = 0
    /\ Called("swap", 0)

UnionOp     == Becomes(Union(self, other), "union", 0)
IntersectOp == Becomes(Intersect(self, other), "intersect", 0)
SubtractOp  == Becomes(Subtract(self, other), "subtract", 0)
ExtendOp    == \E n \in 0..Limit : Becomes(Extend(self, n), "extend", n)
FirstOp     == \E n \in 0..Limit : Becomes(First(self, n), "first", n)

(* "'other' should be a subset of 'self'"                                  *)
MapWithinOp ==
    /\ AsSet(other.data) \subseteq AsSet(self.data)
    /\ Becomes(MapWithin(self, other), "map_within", 0)

SizeOp ==
    /\ answer' = Size(self)
    /\ Called("size", 0)
    /\ UNCHANGED <<self, other>>

OverlapsOp ==
    /\ answer' = IF Overlaps(self, other) THEN 1 ELSE 0
    /\ Called("overlaps", 0)
    /\ UNCHANGED <<self, other>>

Next ==
    \/ Exchange \/ UnionOp \/ IntersectOp \/ SubtractOp
    \/ ExtendOp \/ FirstOp \/ MapWithinOp \/ SizeOp \/ OverlapsOp

Spec == Init /\ [][Next]_vars

-----------------------------------------------------------------------------

Canonical(data) ==
    /\ Len(data) % 2 = 0
    /\ \A i \in 1..(Len(data) - 1) : data[i] < data[i + 1]

(* Ranges never touch or overlap: two RangeSets of the same blocks have    *)
(* the same data, which is all that == compares.                           *)
CanonicalForm == Canonical(self.data) /\ Canonical(other.data)

(* The monotonic attribute of a parsed RangeSet says whether the text had  *)
(* its blocks in increasing order, on which the choice of imgdiff rests.   *)
MonotonicExact ==
    called[1] = "parse" => self.monotonic =
        \A i, j \in DOMAIN text : i < j => text[i][2] < text[j][1]

(* Writing a RangeSet out and parsing it again gives the same RangeSet.    *)
RoundTrip == Parse(ToItems(self)) = [self EXCEPT !.monotonic = TRUE]

(* A RangeSet is a function of its blocks, in memory and written out, and  *)
(* remembers of the text it was parsed from only what it says it does.     *)
FormExact == CanonicalForm /\ RoundTrip /\ MonotonicExact

(* Every operation does on the boundaries what it means on the sets.       *)
Sets == INSTANCE BlockSets WITH self <- AsSet(self.data), other <- AsSet(other.data)

ImplementsSets == Sets!Spec
=============================================================================
