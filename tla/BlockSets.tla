------------------------------- MODULE BlockSets -------------------------------
(***************************************************************************)
(* What rangelib.py promises: a RangeSet behaves like a set of integers.   *)
(* Two sets are held at a time, the receiver of the next operation and its *)
(* argument.                                                               *)
(***************************************************************************)
EXTENDS Integers, FiniteSets

CONSTANT Limit   \* bound of the model: the integers are 0..Limit-1

VARIABLES self, other, answer, called

vars == <<self, other, answer, called>>

Numbers == 0..(Limit - 1)

Init ==
    /\ self \in SUBSET Numbers /\ other \in SUBSET Numbers
    /\ answer = 0
    /\ called = <<"parse", 0>>

(* The receiver is replaced by the result, if that is within the bound.    *)
Becomes(s, name, n) ==
    /\ s \subseteq Numbers
    /\ self' = s /\ answer' = 0 /\ called' = <<name, n>> /\ UNCHANGED other

Answers(a, name) ==
    answer' = a /\ called' = <<name, 0>> /\ UNCHANGED <<self, other>>

Swap ==
    /\ self' = other /\ other' = self /\ answer' = 0
    /\ called' = <<"swap", 0>>

Union     == Becomes(self \cup other, "union", 0)
Intersect == Becomes(self \cap other, "intersect", 0)
Subtract  == Becomes(self \ other, "subtract", 0)
Size      == Answers(Cardinality(self), "size")
Overlaps  == Answers(IF self \cap other # {} THEN 1 ELSE 0, "overlaps")

(* Where other goes when self is squeezed to start at zero without gaps.   *)
MapWithin ==
    /\ other \subseteq self
    /\ Becomes({Cardinality({y \in self : y < x}) : x \in other}, "map_within", 0)

(* All numbers at a distance of at most n.                                 *)
Extend(n) ==
    Becomes({x \in 0..(Limit + n) : \E y \in self : x - n <= y /\ y <= x + n},
            "extend", n)

(* The n smallest.                                                         *)
First(n) ==
    Becomes({x \in self : Cardinality({y \in self : y < x}) < n}, "first", n)

Next ==
    \/ Swap \/ Union \/ Intersect \/ Subtract \/ Size \/ Overlaps \/ MapWithin
    \/ \E n \in 0..Limit : Extend(n) \/ First(n)

Spec == Init /\ [][Next]_vars
=============================================================================
