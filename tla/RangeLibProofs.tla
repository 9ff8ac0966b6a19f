---------------------------- MODULE RangeLibProofs ----------------------------
(***************************************************************************)
(* The operations of rangelib.py do on the boundaries what they mean on    *)
(* sets of integers, and keep the boundaries in their one form, for every  *)
(* bound on the integers and every text.                                   *)
(*                                                                         *)
(* A number lies in a cell of a sorted list of boundaries: the boundaries  *)
(* up to the k-th are not above it, the others are.  It belongs to the set *)
(* if k is odd.  Every operation is a loop over a sorted list, and what it *)
(* has done when it passes a number decides in which cell of the result    *)
(* that number lies.                                                       *)
(***************************************************************************)
EXTENDS RangeLib, DataProofs

-----------------------------------------------------------------------------
(* Induction and loops.                                                    *)

LEMMA LeastNat ==
    ASSUME NEW S \in SUBSET Nat, S # {}
    PROVE  \E m \in S : \A k \in S : m <= k
<1>1. PICK m \in S : \A k \in S : ~(<<k, m>> \in OpToRel(<, Nat))
  BY WFMin, NatLessThanWellFounded
<1>2. \A k \in S : k \in Nat /\ m \in Nat /\ ~(k < m)
  BY <1>1 DEF OpToRel
<1>3. \A k \in S : m <= k
  BY <1>2
<1> QED
  BY <1>1, <1>3

(* What holds at the start of a loop and is kept by every round.           *)
LEMMA StaysIn ==
    ASSUME NEW n \in Nat, NEW R, NEW f, f[0] \in R,
           \A i \in 1..n : f[i-1] \in R => f[i] \in R
    PROVE  \A i \in 0..n : f[i] \in R
<1> DEFINE B == {i \in 0..n : f[i] \in R}
<1>1. 0 \in B /\ B \in SUBSET (0..n)
  OBVIOUS
<1>2. \A i \in 1..n : i - 1 \in B => i \in B
  OBVIOUS
<1>3. B = 0..n
  <2> HIDE DEF B
  <2> QED
    BY <1>1, <1>2, UpTo
<1> QED
  BY <1>3

(* From the i-th round on.                                                 *)
LEMMA FromOn ==
    ASSUME NEW n \in Nat, NEW m \in 0..n, NEW B \in SUBSET (0..n), m \in B,
           \A i \in (m+1)..n : i - 1 \in B => i \in B
    PROVE  \A i \in m..n : i \in B
<1> DEFINE C == {i \in 0..n : i < m \/ i \in B}
<1>1. 0 \in C /\ C \in SUBSET (0..n)
  OBVIOUS
<1>2. \A i \in 1..n : i - 1 \in C => i \in C
  <2> TAKE i \in 1..n
  <2> HAVE i - 1 \in C
  <2>1. CASE i < m
    BY <2>1
  <2>2. CASE i = m
    BY <2>2
  <2>3. CASE i > m
    BY <2>3
  <2> QED
    BY <2>1, <2>2, <2>3
<1>3. C = 0..n
  <2> HIDE DEF C
  <2> QED
    BY <1>1, <1>2, UpTo
<1> QED
  BY <1>3

(* A loop whose rounds follow the rule h.                                  *)
Loops(f, n, R, base, h) ==
    /\ f \in [0..n -> R]
    /\ \A i \in 0..n : f[i] = IF i = 0 THEN base ELSE h[i][f[i-1]]

LEMMA LoopExists ==
    ASSUME NEW n \in Nat, NEW R, NEW base \in R, NEW h \in Rules(n, R)
    PROVE  \E f : Loops(f, n, R, base, h)
<1>1. PICK f : Follows(f, n, R, base, h)
  BY RecursionExists
<1>2. \A i \in 0..n : f[i] = IF i = 0 THEN base ELSE h[i][f[i-1]]
  <2> TAKE i \in 0..n
  <2>1. i = 0 \/ i \in 1..n
    OBVIOUS
  <2> QED
    BY <1>1, <2>1 DEF Follows
<1> QED
  BY <1>1, <1>2 DEF Follows, Loops

(* A counter that starts at zero and grows by one or not at all: it is     *)
(* monotonic and takes every value up to its last.                         *)
Counts(c, n) ==
    /\ c \in [0..n -> Nat] /\ c[0] = 0
    /\ \A i \in 1..n : c[i] = c[i-1] \/ c[i] = c[i-1] + 1

LEMMA CountsGrow ==
    ASSUME NEW n \in Nat, NEW c, Counts(c, n), NEW i \in 0..n, NEW j \in i..n
    PROVE  c[i] <= c[j]
<1> DEFINE B == {k \in 0..n : c[i] <= c[k]}
<1>1. i \in B /\ B \in SUBSET (0..n) /\ i \in 0..n
  BY DEF Counts
<1>2. \A k \in (i+1)..n : k - 1 \in B => k \in B
  BY DEF Counts
<1>3. \A k \in i..n : k \in B
  <2> HIDE DEF B
  <2> QED
    BY <1>1, <1>2, FromOn
<1> QED
  BY <1>3

LEMMA CountsAll ==
    ASSUME NEW n \in Nat, NEW c, Counts(c, n), NEW v \in 1..c[n]
    PROVE  \E i \in 1..n : c[i] = v /\ c[i-1] = v - 1
<1> DEFINE S == {i \in 0..n : c[i] >= v}
<1>1. n \in S /\ S \in SUBSET Nat
  BY DEF Counts
<1>2. PICK i \in S : \A k \in S : i <= k
  <2> HIDE DEF S
  <2> QED
    BY <1>1, LeastNat
<1>3. i \in 1..n
  BY <1>2 DEF Counts
<1>4. i - 1 \in 0..n /\ ~(i - 1 \in S)
  BY <1>2, <1>3
<1> QED
  BY <1>2, <1>3, <1>4 DEF Counts

LEMMA Parity ==
    ASSUME NEW n \in Nat
    PROVE  n % 2 \in {0, 1} /\ (n + 1) % 2 = 1 - (n % 2)
OBVIOUS

LEMMA Appended ==
    ASSUME NEW S, NEW s \in Seq(S), NEW v \in S
    PROVE  /\ Append(s, v) \in Seq(S) /\ Len(s) \in Nat
           /\ Len(Append(s, v)) = Len(s) + 1 /\ Append(s, v)[Len(s) + 1] = v
           /\ \A j \in 1..Len(s) : Append(s, v)[j] = s[j] /\ s[j] \in S
OBVIOUS

LEMMA EntryOf ==
    ASSUME NEW s \in Seq(Nat), NEW i \in 1..Len(s)
    PROVE  i \in Nat /\ s[i] \in Nat /\ Len(s) \in Nat
OBVIOUS

-----------------------------------------------------------------------------
(* Cells.                                                                  *)

Sorted(s) == \A i, j \in 1..Len(s) : i < j => s[i] <= s[j]
Rising(s) == \A i, j \in 1..Len(s) : i < j => s[i] < s[j]

Cell(s, k, x) ==
    /\ k \in 0..Len(s)
    /\ \A i \in 1..k : s[i] <= x
    /\ \A i \in (k+1)..Len(s) : x < s[i]

LEMMA CellUnique ==
    ASSUME NEW s \in Seq(Nat), NEW x \in Nat, NEW j, NEW k, Cell(s, j, x), Cell(s, k, x)
    PROVE  j = k
<1>1. ASSUME NEW a \in 0..Len(s), NEW b \in 0..Len(s), a < b, Cell(s, a, x), Cell(s, b, x)
      PROVE  FALSE
  <2>1. b \in 1..b /\ b \in (a+1)..Len(s) /\ s[b] \in Nat
    BY <1>1
  <2> QED
    BY <1>1, <2>1 DEF Cell
<1>2. j \in 0..Len(s) /\ k \in 0..Len(s)
  BY DEF Cell
<1> QED
  BY <1>1, <1>2

LEMMA CellExists ==
    ASSUME NEW s \in Seq(Nat), Sorted(s), NEW x \in Nat
    PROVE  \E k : Cell(s, k, x)
<1> DEFINE S == {i \in 1..Len(s) : x < s[i]}
<1>0. Len(s) \in Nat /\ \A i \in 1..Len(s) : s[i] \in Nat
  OBVIOUS
<1>1. CASE S = {}
  <2>1. Cell(s, Len(s), x)
    BY <1>0, <1>1 DEF Cell
  <2> QED
    BY <2>1
<1>2. CASE S # {}
  <2>1. PICK m \in S : \A k \in S : m <= k
    <3>1. S \in SUBSET Nat
      BY <1>0
    <3> HIDE DEF S
    <3> QED
      BY <1>2, <3>1, LeastNat
  <2>2. Cell(s, m - 1, x)
    <3>1. \A i \in 1..(m-1) : s[i] <= x
      BY <1>0, <2>1
    <3>2. \A i \in m..Len(s) : x < s[i]
      BY <1>0, <2>1 DEF Sorted
    <3> QED
      BY <1>0, <2>1, <3>1, <3>2 DEF Cell
  <2> QED
    BY <2>2
<1> QED
  BY <1>1, <1>2

LEMMA RisingIsSorted ==
    ASSUME NEW s \in Seq(Nat), Rising(s) PROVE Sorted(s)
BY DEF Rising, Sorted

LEMMA CanonicalRises ==
    ASSUME NEW s \in Seq(Nat), Canonical(s)
    PROVE  Rising(s)
<1>1. SUFFICES ASSUME NEW i \in 1..Len(s), NEW j \in 1..Len(s), i < j
              PROVE  s[i] < s[j]
  BY DEF Rising
<1> DEFINE n == Len(s)
           B == {k \in 0..n : k = i \/ (k > i /\ s[i] < s[k])}
<1>0. n \in Nat /\ \A k \in 1..n : s[k] \in Nat
  OBVIOUS
<1>2. i \in 0..n /\ i \in B /\ B \in SUBSET (0..n)
  BY <1>0
<1>3. \A k \in (i+1)..n : k - 1 \in B => k \in B
  <2> TAKE k \in (i+1)..n
  <2> HAVE k - 1 \in B
  <2>0. k - 1 \in 1..(n - 1) /\ (k-1)+1 = k
    BY <1>0
  <2>1. s[k-1] < s[k]
    BY <2>0 DEF Canonical
  <2>2. s[k] \in Nat /\ s[k-1] \in Nat /\ s[i] \in Nat
    BY <1>0, <2>0
  <2> QED
    BY <2>1, <2>2
<1>4. \A k \in i..n : k \in B
  <2> HIDE DEF B, n
  <2> QED
    BY <1>0, <1>2, <1>3, FromOn
<1> QED
  BY <1>0, <1>1, <1>4

LEMMA RisingIsCanonical ==
    ASSUME NEW s \in Seq(Nat), Rising(s), Len(s) % 2 = 0
    PROVE  Canonical(s)
BY DEF Rising, Canonical

(* The two boundaries at its ends make a cell.                             *)
LEMMA CellAt ==
    ASSUME NEW s \in Seq(Nat), Sorted(s), NEW x \in Nat, NEW k \in 0..Len(s),
           k >= 1 => s[k] <= x, k + 1 <= Len(s) => x < s[k+1]
    PROVE  Cell(s, k, x)
<1>0. PICK n : n = Len(s) /\ n \in Nat /\ \A i \in 1..n : s[i] \in Nat
  OBVIOUS
<1>1. \A i \in 1..k : s[i] <= x
  <2> TAKE i \in 1..k
  <2>1. i \in 1..n /\ k \in 1..n /\ s[i] \in Nat /\ s[k] \in Nat
    BY <1>0
  <2>2. i = k \/ s[i] <= s[k]
    BY <1>0, <2>1 DEF Sorted
  <2> QED
    BY <2>1, <2>2
<1>2. \A i \in (k+1)..n : x < s[i]
  <2> TAKE i \in (k+1)..n
  <2>1. i \in 1..n /\ k + 1 \in 1..n /\ s[i] \in Nat /\ s[k+1] \in Nat /\ k+1 <= n
    BY <1>0
  <2>2. i = k + 1 \/ s[k+1] <= s[i]
    BY <1>0, <2>1 DEF Sorted
  <2> QED
    BY <1>0, <2>1, <2>2
<1> QED
  BY <1>0, <1>1, <1>2 DEF Cell

LEMMA HalfOfEven ==
    ASSUME NEW k \in Nat, k % 2 = 1, NEW n \in Nat, k + 1 <= n
    PROVE  \E m \in 1..(n \div 2) : 2 * m = k + 1
<1>1. PICK q, r : q = (k + 1) \div 2 /\ r = (k + 1) % 2 /\ q \in Nat /\ r \in 0..1
                  /\ k + 1 = 2 * q + r
  OBVIOUS
<1>2. PICK q2 : q2 = k \div 2 /\ q2 \in Nat /\ k = 2 * q2 + 1
  OBVIOUS
<1>3. r = 0 /\ q >= 1
  BY <1>1, <1>2
<1>4. PICK p, t : p = n \div 2 /\ t = n % 2 /\ p \in Nat /\ t \in 0..1 /\ n = 2 * p + t
  OBVIOUS
<1> QED
  BY <1>1, <1>3, <1>4

(* A number of the set is one in an odd cell.                              *)
LEMMA InOddCell ==
    ASSUME NEW s \in Seq(Nat), Rising(s), Len(s) % 2 = 0, NEW x
    PROVE  x \in AsSet(s) <=> x \in Nat /\ \E k : Cell(s, k, x) /\ k % 2 = 1
<1>0. Len(s) \in Nat /\ \A i \in 1..Len(s) : s[i] \in Nat
  OBVIOUS
<1>1. x \in AsSet(s) <=> \E m \in 1..(Len(s) \div 2) : x \in s[2*m-1]..(s[2*m]-1)
  <2>1. x \in AsSet(s) <=> \E r \in Ranges(s) : x \in r[1]..(r[2]-1)
    BY Zenon DEF AsSet
  <2>2. ASSUME NEW r \in Ranges(s), x \in r[1]..(r[2]-1)
        PROVE  \E m \in 1..(Len(s) \div 2) : x \in s[2*m-1]..(s[2*m]-1)
    <3>1. PICK m \in 1..(Len(s) \div 2) : r = <<s[2*m-1], s[2*m]>>
      BY Zenon, <2>2 DEF Ranges
    <3>2. r[1] = s[2*m-1] /\ r[2] = s[2*m]
      BY <3>1
    <3> QED
      BY <2>2, <3>2
  <2>3. ASSUME NEW m \in 1..(Len(s) \div 2), x \in s[2*m-1]..(s[2*m]-1)
        PROVE  \E r \in Ranges(s) : x \in r[1]..(r[2]-1)
    <3>1. PICK r : r = <<s[2*m-1], s[2*m]>>
      OBVIOUS
    <3>2. r \in Ranges(s)
      BY Zenon, <2>3, <3>1 DEF Ranges
    <3>3. r[1] = s[2*m-1] /\ r[2] = s[2*m]
      BY <3>1
    <3> QED
      BY <2>3, <3>2, <3>3
  <2> QED
    BY <2>1, <2>2, <2>3
<1>2. ASSUME NEW m \in 1..(Len(s) \div 2), x \in s[2*m-1]..(s[2*m]-1)
      PROVE  x \in Nat /\ \E k : Cell(s, k, x) /\ k % 2 = 1
  <2>1. PICK k \in 1..Len(s) : k = 2*m-1 /\ k + 1 \in 1..Len(s) /\ k % 2 = 1 /\ 2*m = k+1
    BY <1>0
  <2>2. s[k] \in Nat /\ s[k+1] \in Nat /\ x \in s[k]..(s[k+1]-1)
    BY <1>0, <1>2, <2>1
  <2>3. Sorted(s)
    BY RisingIsSorted
  <2>4. k \in 0..Len(s) /\ x \in Nat /\ s[k] <= x /\ x < s[k+1]
    BY <1>0, <2>1, <2>2
  <2>5. Cell(s, k, x)
    BY <2>3, <2>4, CellAt
  <2> QED
    BY <2>1, <2>2, <2>5
<1>3. ASSUME x \in Nat, NEW k, Cell(s, k, x), k % 2 = 1
      PROVE  \E m \in 1..(Len(s) \div 2) : x \in s[2*m-1]..(s[2*m]-1)
  <2>1. k \in 1..Len(s) /\ k + 1 \in 1..Len(s)
    BY <1>0, <1>3 DEF Cell
  <2>2. PICK m : m \in 1..(Len(s) \div 2) /\ 2*m-1 = k /\ 2*m = k+1
    <3>1. k \in Nat /\ k + 1 <= Len(s)
      BY <1>0, <2>1
    <3>2. PICK m \in 1..(Len(s) \div 2) : 2 * m = k + 1
      BY <1>0, <1>3, <3>1, HalfOfEven
    <3> QED
      BY <2>1, <3>2
  <2>3. s[k] \in Nat /\ s[k+1] \in Nat /\ s[k] <= x /\ x < s[k+1]
    BY <1>0, <1>3, <2>1 DEF Cell
  <2>4. x \in s[2*m-1]..(s[2*m]-1)
    BY <1>3, <2>2, <2>3
  <2> QED
    BY <2>2, <2>4
<1> QED
  BY <1>1, <1>2, <1>3

LEMMA CellDecides ==
    ASSUME NEW s \in Seq(Nat), Rising(s), Len(s) % 2 = 0, NEW x \in Nat, NEW k, Cell(s, k, x)
    PROVE  x \in AsSet(s) <=> k % 2 = 1
BY InOddCell, CellUnique

-----------------------------------------------------------------------------
(* _remove_pairs.                                                          *)

Held == [last : Nat \cup {None}, out : Seq(Nat)]

NextHeld(r, v) ==
    IF v = r.last THEN [last |-> None, out |-> r.out]
    ELSE [last |-> v, out |-> IF r.last = None THEN r.out ELSE Append(r.out, r.last)]

ReducedRule(f, s) ==
    f = [i \in 0..Len(s) |-> IF i = 0 THEN [last |-> None, out |-> <<>>]
                             ELSE NextHeld(f[i-1], s[i])]

LEMMA ReducedRuns ==
    ASSUME NEW s \in Seq(Nat)
    PROVE  /\ Reduced(s)[0] = [last |-> None, out |-> <<>>]
           /\ \A i \in 1..Len(s) : Reduced(s)[i] = NextHeld(Reduced(s)[i-1], s[i])
           /\ \A i \in 0..Len(s) : Reduced(s)[i] \in Held
<1>p. PICK n, base : n = Len(s) /\ base = [last |-> None, out |-> <<>>]
  OBVIOUS
<1>0. n = Len(s) /\ n \in Nat /\ base = [last |-> None, out |-> <<>>] /\ base \in Held
  BY <1>p DEF Held
<1>1. \A r \in Held, v \in Nat : NextHeld(r, v) \in Held
  BY DEF Held, NextHeld
<1>2. PICK h : h = [i \in 1..n |-> [r \in Held |-> NextHeld(r, s[i])]]
  OBVIOUS
<1>3. h \in Rules(n, Held)
  BY <1>0, <1>1, <1>2 DEF Rules
<1>l. PICK f : Loops(f, n, Held, base, h)
  BY <1>0, <1>3, LoopExists
<1>4. f \in [0..n -> Held] /\ \A i \in 0..n : f[i] = IF i = 0 THEN base ELSE h[i][f[i-1]]
  BY <1>l DEF Loops
<1>5. \A i \in 0..n : f[i] = IF i = 0 THEN base ELSE NextHeld(f[i-1], s[i])
  <2> TAKE i \in 0..n
  <2>1. CASE i = 0
    BY <1>4, <2>1
  <2>2. CASE i # 0
    <3>a. i \in 1..n /\ i - 1 \in 0..n
      BY <1>0, <2>2
    <3>1. i \in 1..n /\ f[i-1] \in Held
      BY <1>4, <3>a
    <3> QED
      BY <1>2, <1>4, <2>2, <3>1
  <2> QED
    BY <2>1, <2>2
<1>6. ReducedRule(f, s)
  BY <1>0, <1>4, <1>5 DEF ReducedRule
<1>7. ReducedRule(Reduced(s), s)
  BY Zenon, <1>6 DEF Reduced, ReducedRule, NextHeld
<1>8. PICK g : g = Reduced(s)
  OBVIOUS
<1>9. \A i \in 0..n : g[i] = IF i = 0 THEN base ELSE NextHeld(g[i-1], s[i])
  BY <1>0, <1>7, <1>8 DEF ReducedRule
<1>10. g[0] = base /\ \A i \in 1..n : g[i] = NextHeld(g[i-1], s[i])
  BY <1>0, <1>9
<1>11. \A i \in 0..n : g[i] \in Held
  <2>1. \A i \in 1..n : g[i-1] \in Held => g[i] \in Held
    BY <1>0, <1>1, <1>10
  <2>2. g[0] \in Held
    BY <1>0, <1>10
  <2> QED
    BY <1>0, <2>1, <2>2, StaysIn
<1> QED
  BY <1>0, <1>8, <1>10, <1>11

(* After i boundaries of a sorted list: what is yielded and what is held   *)
(* back rises, ends below the next boundary and has the parity of i.       *)
HeldRight(r, s, i) ==
    /\ Rising(r.out)
    /\ \A j \in 1..Len(r.out) : i >= 1 /\ r.out[j] < s[i]
    /\ r.last # None => i >= 1 /\ r.last = s[i]
    /\ Len(Released(r)) % 2 = i % 2

LEMMA RisingAppend ==
    ASSUME NEW s \in Seq(Nat), Rising(s), NEW v \in Nat, \A j \in 1..Len(s) : s[j] < v
    PROVE  Rising(Append(s, v))
<1>p. PICK n, t : n = Len(s) /\ t = Append(s, v)
  OBVIOUS
<1>1. n = Len(s) /\ n \in Nat /\ t = Append(s, v) /\ t \in Seq(Nat) /\ Len(t) = n + 1
      /\ (\A j \in 1..n : t[j] = s[j]) /\ t[n+1] = v
  BY <1>p, Appended
<1>2. ASSUME NEW i \in 1..Len(t), NEW j \in 1..Len(t), i < j
      PROVE  t[i] < t[j]
  <2>1. i \in 1..n
    BY <1>1, <1>2
  <2>2. CASE j = n + 1
    BY <1>1, <2>1, <2>2
  <2>3. CASE j # n + 1
    <3>1. j \in 1..n
      BY <1>1, <2>3
    <3> QED
      BY <1>1, <1>2, <2>1, <3>1 DEF Rising
  <2> QED
    BY <2>2, <2>3
<1> QED
  BY <1>1, <1>2 DEF Rising

LEMMA ReleasedRight ==
    ASSUME NEW s \in Seq(Nat), NEW i \in 0..Len(s), NEW r \in Held, HeldRight(r, s, i)
    PROVE  /\ Released(r) \in Seq(Nat) /\ Rising(Released(r))
           /\ \A j \in 1..Len(Released(r)) : i >= 1 /\ Released(r)[j] <= s[i]
<1>1. r.out \in Seq(Nat) /\ (r.last = None \/ r.last \in Nat)
  BY DEF Held
<1>2. CASE r.last = None
  <2>1. Released(r) = r.out
    BY <1>2 DEF Released
  <2>2. \A j \in 1..Len(r.out) : r.out[j] \in Nat
    BY <1>1
  <2>3. i >= 1 => s[i] \in Nat
    OBVIOUS
  <2> QED
    BY <1>1, <2>1, <2>2, <2>3 DEF HeldRight
<1>3. CASE r.last # None
  <2>1. Released(r) = Append(r.out, r.last) /\ r.last \in Nat /\ i >= 1 /\ r.last = s[i]
    BY <1>1, <1>3 DEF Released, HeldRight
  <2>2. Rising(Released(r))
    BY <1>1, <2>1, RisingAppend DEF HeldRight
  <2>p. PICK t, n : t = Append(r.out, r.last) /\ n = Len(r.out)
    OBVIOUS
  <2>3. t = Append(r.out, r.last) /\ n = Len(r.out) /\ n \in Nat /\ Len(t) = n + 1
        /\ t \in Seq(Nat) /\ t[n+1] = r.last /\ \A j \in 1..n : t[j] = r.out[j] /\ t[j] \in Nat
    BY <1>1, <2>1, <2>p, Appended
  <2>4. \A j \in 1..Len(t) : t[j] <= s[i]
    <3> TAKE j \in 1..Len(t)
    <3>1. CASE j = n + 1
      BY <2>1, <2>3, <3>1
    <3>2. CASE j \in 1..n
      <4>1. r.out[j] < s[i] /\ t[j] = r.out[j] /\ t[j] \in Nat /\ s[i] \in Nat
        BY <2>1, <2>3, <3>2 DEF HeldRight
      <4> QED
        BY <4>1
    <3> QED
      BY <2>3, <3>1, <3>2
  <2> QED
    BY <2>1, <2>2, <2>3, <2>4
<1> QED
  BY <1>2, <1>3

LEMMA HeldStaysRight ==
    ASSUME NEW s \in Seq(Nat), Sorted(s), NEW i \in 1..Len(s),
           NEW r \in Held, HeldRight(r, s, i - 1)
    PROVE  HeldRight(NextHeld(r, s[i]), s, i)
<1>1. r.out \in Seq(Nat) /\ (r.last = None \/ r.last \in Nat) /\ s[i] \in Nat /\ s[i] # None
  BY DEF Held, None
<1>2. PICK q : q = NextHeld(r, s[i])
  OBVIOUS
<1>3. i - 1 >= 1 => i - 1 \in 1..Len(s) /\ s[i-1] \in Nat /\ s[i-1] <= s[i]
  BY DEF Sorted
<1>4. \A j \in 1..Len(r.out) : r.out[j] < s[i] /\ r.out[j] \in Nat
  <2> TAKE j \in 1..Len(r.out)
  <2>1. r.out[j] \in Nat /\ i - 1 >= 1 /\ r.out[j] < s[i-1]
    BY <1>1 DEF HeldRight
  <2> QED
    BY <1>1, <1>3, <2>1
<1>p. PICK n : n = Len(r.out)
  OBVIOUS
<1>5. n = Len(r.out) /\ n \in Nat
  BY <1>1, <1>p
<1>par. /\ n % 2 \in {0, 1} /\ (n + 1) % 2 = 1 - (n % 2) /\ ((n + 1) + 1) % 2 = 1 - ((n + 1) % 2)
        /\ (i - 1) % 2 \in {0, 1} /\ i % 2 = 1 - ((i - 1) % 2)
  <2>1. n + 1 \in Nat /\ i - 1 \in Nat /\ (i - 1) + 1 = i
    BY <1>5
  <2> QED
    BY <1>5, <2>1, Parity
<1>6. CASE s[i] = r.last
  <2>1. q.last = None /\ q.out = r.out
    BY <1>2, <1>6 DEF NextHeld
  <2>2. Released(r) = Append(r.out, r.last) /\ Released(q) = r.out
    BY <1>1, <1>6, <2>1 DEF Released
  <2>3. Len(Released(r)) = n + 1 /\ Len(Released(q)) = n
    BY <1>1, <1>5, <2>2
  <2>4. (n + 1) % 2 = (i - 1) % 2
    BY <2>3 DEF HeldRight
  <2>5. n % 2 = i % 2
    BY <1>par, <2>4
  <2> QED
    BY <1>2, <1>4, <2>1, <2>3, <2>5 DEF HeldRight
<1>7. CASE s[i] # r.last /\ r.last = None
  <2>1. q.last = s[i] /\ q.out = r.out
    BY <1>2, <1>7 DEF NextHeld
  <2>2. Released(r) = r.out /\ Released(q) = Append(r.out, s[i])
    BY <1>1, <1>7, <2>1 DEF Released
  <2>3. Len(Released(r)) = n /\ Len(Released(q)) = n + 1
    BY <1>1, <1>5, <2>2
  <2>4. n % 2 = (i - 1) % 2
    BY <2>3 DEF HeldRight
  <2>5. (n + 1) % 2 = i % 2
    BY <1>par, <2>4
  <2> QED
    BY <1>2, <1>4, <2>1, <2>3, <2>5 DEF HeldRight
<1>8. CASE s[i] # r.last /\ r.last # None
  <2>1. q.last = s[i] /\ q.out = Append(r.out, r.last) /\ r.last \in Nat
    BY <1>1, <1>2, <1>8 DEF NextHeld
  <2>2. i - 1 >= 1 /\ r.last = s[i-1] /\ s[i-1] < s[i]
    BY <1>1, <1>3, <1>8 DEF HeldRight
  <2>3. Released(r) = q.out /\ Released(q) = Append(q.out, s[i])
    BY <1>1, <1>8, <2>1 DEF Released
  <2>p. PICK t : t = q.out
    OBVIOUS
  <2>4. t = q.out /\ t \in Seq(Nat) /\ Len(t) = n + 1 /\ t[n+1] = r.last
        /\ \A j \in 1..n : t[j] = r.out[j]
    BY <1>1, <1>5, <2>1, <2>p, Appended
  <2>5. Len(Released(r)) = n + 1 /\ Len(Released(q)) = n + 2
    <3>1. Len(Append(t, s[i])) = (n + 1) + 1
      BY <1>1, <2>4, Appended
    <3> QED
      BY <1>5, <2>3, <2>4, <3>1
  <2>6. (n + 1) % 2 = (i - 1) % 2
    BY <2>5 DEF HeldRight
  <2>7. (n + 2) % 2 = i % 2
    <3>1. n + 2 = (n + 1) + 1
      BY <1>5
    <3> QED
      BY <1>par, <2>6, <3>1
  <2>8. \A j \in 1..Len(t) : t[j] < s[i]
    <3> TAKE j \in 1..Len(t)
    <3>1. j = n + 1 \/ j \in 1..n
      BY <1>5, <2>4
    <3> QED
      BY <1>4, <1>5, <2>2, <2>4, <3>1
  <2>9. Rising(t)
    <3>1. \A j \in 1..Len(r.out) : r.out[j] < r.last
      BY <2>2 DEF HeldRight
    <3> QED
      BY <1>1, <2>1, <2>4, <3>1, RisingAppend DEF HeldRight
  <2>10. q.last # None => i >= 1 /\ q.last = s[i]
    BY <2>1
  <2> QED
    BY <1>2, <2>4, <2>5, <2>7, <2>8, <2>9, <2>10 DEF HeldRight
<1> QED
  BY <1>6, <1>7, <1>8

(* Where the loop has passed all boundaries up to x, x lies at the end of  *)
(* what it has, and what comes later leaves that part as it is.            *)
LEMMA PairsRemoved ==
    ASSUME NEW s \in Seq(Nat), Sorted(s)
    PROVE  /\ RemovePairs(s) \in Seq(Nat) /\ Rising(RemovePairs(s))
           /\ Len(RemovePairs(s)) % 2 = Len(s) % 2
           /\ \A x \in Nat : \A k : Cell(s, k, x) =>
                 \E j : Cell(RemovePairs(s), j, x) /\ j % 2 = k % 2
<1>0. PICK n, g : n = Len(s) /\ n \in Nat /\ g = Reduced(s)
  OBVIOUS
<1>1. /\ g[0] = [last |-> None, out |-> <<>>]
      /\ \A i \in 1..n : g[i] = NextHeld(g[i-1], s[i])
      /\ \A i \in 0..n : g[i] \in Held
  BY <1>0, ReducedRuns
<1>2. RemovePairs(s) = Released(g[n])
  BY <1>0 DEF RemovePairs
<1>3. \A i \in 0..n : HeldRight(g[i], s, i)
  <2> DEFINE B == {i \in 0..n : HeldRight(g[i], s, i)}
  <2>1. 0 \in B
    <3>1. g[0].last = None /\ g[0].out = <<>>
      BY <1>1
    <3>2. Released(g[0]) = <<>>
      BY <3>1 DEF Released
    <3>3. HeldRight(g[0], s, 0)
      BY <3>1, <3>2 DEF HeldRight, Rising
    <3> QED
      BY <1>0, <3>3
  <2>2. \A i \in 1..n : i - 1 \in B => i \in B
    <3> TAKE i \in 1..n
    <3> HAVE i - 1 \in B
    <3>1. g[i-1] \in Held /\ g[i] = NextHeld(g[i-1], s[i]) /\ i \in 0..n /\ i \in 1..Len(s)
      BY <1>0, <1>1
    <3> QED
      BY <3>1, HeldStaysRight
  <2>3. B = 0..n
    <3>1. B \in SUBSET (0..n)
      OBVIOUS
    <3> HIDE DEF B
    <3> QED
      BY <1>0, <2>1, <2>2, <3>1, UpTo
  <2> QED
    BY <2>3
<1>4. \A i \in 0..n : /\ Released(g[i]) \in Seq(Nat) /\ Rising(Released(g[i]))
                      /\ Len(Released(g[i])) % 2 = i % 2
                      /\ \A j \in 1..Len(Released(g[i])) : i >= 1 /\ Released(g[i])[j] <= s[i]
  <2> TAKE i \in 0..n
  <2>1. i \in 0..Len(s) /\ g[i] \in Held /\ HeldRight(g[i], s, i)
    BY <1>0, <1>1, <1>3
  <2>2. Len(Released(g[i])) % 2 = i % 2
    BY <2>1 DEF HeldRight
  <2> QED
    BY <2>1, <2>2, ReleasedRight
<1>5. ASSUME NEW x \in Nat, NEW k, Cell(s, k, x)
      PROVE  \E j : Cell(RemovePairs(s), j, x) /\ j % 2 = k % 2
  <2>0. k \in 0..n /\ (k >= 1 => s[k] <= x /\ s[k] \in Nat) /\ \A i \in (k+1)..n : x < s[i]
    BY <1>0, <1>5 DEF Cell
  <2>p. PICK j : j = Len(Released(g[k]))
    OBVIOUS
  <2>1. j = Len(Released(g[k])) /\ j \in Nat /\ j % 2 = k % 2
    <3>1. Released(g[k]) \in Seq(Nat)
      BY <1>4, <2>0
    <3> QED
      BY <1>4, <2>0, <2>p, <3>1
  <2> DEFINE B == {i \in 0..n : Cell(Released(g[i]), j, x)}
  <2>2. k \in B
    <3>p. PICK t : t = Released(g[k])
      OBVIOUS
    <3>q. t = Released(g[k]) /\ t \in Seq(Nat) /\ Len(t) = j
          /\ \A i \in 1..j : k >= 1 /\ t[i] <= s[k]
      BY <1>4, <2>0, <2>1, <3>p
    <3>1. t = Released(g[k]) /\ t \in Seq(Nat) /\ Len(t) = j
          /\ \A i \in 1..j : k >= 1 /\ t[i] <= s[k] /\ t[i] \in Nat
      BY <3>q
    <3>2. \A i \in 1..j : t[i] <= x
      BY <2>0, <3>1
    <3>3. Cell(t, j, x)
      BY <2>1, <3>1, <3>2 DEF Cell
    <3> QED
      BY <2>0, <3>1, <3>3
  <2>3. ASSUME NEW i \in (k+1)..n, i - 1 \in B
        PROVE  i \in B
    <3>0. i \in 1..n /\ i - 1 \in 0..n /\ i \in 0..n /\ x < s[i] /\ s[i] \in Nat
      BY <1>0, <2>0
    <3>1. PICK r, q : r = g[i-1] /\ q = g[i] /\ q = NextHeld(r, s[i]) /\ r \in Held /\ q \in Held
                      /\ HeldRight(r, s, i - 1)
      BY <1>1, <1>3, <3>0
    <3>2. r.out \in Seq(Nat) /\ (r.last = None \/ r.last \in Nat) /\ s[i] # None /\ q.last # -2
      BY <3>0, <3>1 DEF Held, None
    <3>p. PICK m : m = Len(r.out)
      OBVIOUS
    <3>3. m = Len(r.out) /\ m \in Nat
      BY <3>2, <3>p
    <3>4. Cell(Released(r), j, x)
      BY <2>3, <3>1
    <3>5. CASE s[i] = r.last
      <4>1. Released(r) = Append(r.out, r.last) /\ Released(q) = r.out
        BY <3>1, <3>2, <3>5 DEF Released, NextHeld
      <4>p. PICK t : t = Append(r.out, r.last)
        OBVIOUS
      <4>2. t = Append(r.out, r.last) /\ Len(t) = m + 1 /\ t[m+1] = s[i]
            /\ \A l \in 1..m : t[l] = r.out[l]
        BY <3>0, <3>2, <3>3, <3>5, <4>p, Appended
      <4>3. j \in 0..(m+1) /\ (\A l \in 1..j : t[l] <= x) /\ \A l \in (j+1)..(m+1) : x < t[l]
        BY <3>4, <4>1, <4>2 DEF Cell
      <4>4. j # m + 1
        BY <3>0, <3>3, <4>2, <4>3
      <4>5. Cell(r.out, j, x)
        BY <3>3, <4>2, <4>3, <4>4 DEF Cell
      <4> QED
        BY <3>0, <3>1, <4>1, <4>5
    <3>6. CASE s[i] # r.last
      <4>p. PICK t, u : t = Released(r) /\ u = Released(q)
        OBVIOUS
      <4>1. t = Released(r) /\ u = Released(q) /\ u = Append(t, s[i]) /\ t \in Seq(Nat)
        <5>1. Released(r) \in Seq(Nat)
          BY <1>4, <3>0, <3>1
        <5>2. Released(q) = Append(Released(r), s[i])
          BY <3>1, <3>2, <3>6 DEF Released, NextHeld
        <5> QED
          BY <4>p, <5>1, <5>2
      <4>q. PICK l : l = Len(t)
        OBVIOUS
      <4>2. l = Len(t) /\ l \in Nat /\ Len(u) = l + 1 /\ u[l+1] = s[i]
            /\ \A p \in 1..l : u[p] = t[p]
        BY <3>0, <4>1, <4>q, Appended
      <4>3. j \in 0..l /\ (\A p \in 1..j : t[p] <= x) /\ \A p \in (j+1)..l : x < t[p]
        BY <3>4, <4>1, <4>2 DEF Cell
      <4>4. Cell(u, j, x)
        <5>1. \A p \in 1..j : u[p] <= x
          BY <4>2, <4>3
        <5>2. \A p \in (j+1)..(l+1) : x < u[p]
          <6> TAKE p \in (j+1)..(l+1)
          <6>1. p = l + 1 \/ p \in (j+1)..l
            BY <4>2, <4>3
          <6> QED
            BY <3>0, <4>2, <4>3, <6>1
        <5> QED
          BY <4>2, <4>3, <5>1, <5>2 DEF Cell
      <4> QED
        BY <3>0, <3>1, <4>1, <4>4
    <3> QED
      BY <3>5, <3>6
  <2>4. \A i \in k..n : i \in B
    <3>1. B \in SUBSET (0..n)
      OBVIOUS
    <3> HIDE DEF B
    <3> QED
      BY <1>0, <2>0, <2>2, <2>3, <3>1, FromOn
  <2>5. n \in B
    BY <1>0, <2>0, <2>4
  <2> QED
    BY <1>2, <2>1, <2>5
<1>6. n \in 0..n /\ n % 2 = Len(s) % 2
  BY <1>0
<1>7. RemovePairs(s) \in Seq(Nat) /\ Rising(RemovePairs(s)) /\ Len(RemovePairs(s)) % 2 = Len(s) % 2
  BY <1>2, <1>4, <1>6
<1> QED
  BY <1>5, <1>7

-----------------------------------------------------------------------------
(* heapq.merge.                                                            *)

Step == Nat \X Int

Leq(e, f) == e[1] < f[1] \/ (e[1] = f[1] /\ e[2] <= f[2])

InOrder(q) == \A i, j \in 1..Len(q) : i < j => Leq(q[i], q[j])

LEMMA BeforeIsLess ==
    ASSUME NEW e \in Step, NEW f \in Step
    PROVE  Before(e, f) <=> ~Leq(f, e)
<1>1. e[1] \in Nat /\ e[2] \in Int /\ f[1] \in Nat /\ f[2] \in Int
  BY DEF Step
<1> QED
  BY <1>1 DEF Before, Leq

LEMMA LeqTransitive ==
    ASSUME NEW e \in Step, NEW f \in Step, NEW g \in Step, Leq(e, f), Leq(f, g)
    PROVE  Leq(e, g)
<1>1. e[1] \in Nat /\ e[2] \in Int /\ f[1] \in Nat /\ f[2] \in Int /\ g[1] \in Nat /\ g[2] \in Int
  BY DEF Step
<1> QED
  BY <1>1 DEF Leq

LEMMA NotBefore ==
    ASSUME NEW e \in Step, NEW f \in Step
    PROVE  (Before(e, f) => Leq(e, f)) /\ (~Before(e, f) => Leq(f, e))
<1>1. e[1] \in Nat /\ e[2] \in Int /\ f[1] \in Nat /\ f[2] \in Int
  BY DEF Step
<1> QED
  BY <1>1 DEF Before, Leq

NextMerged(r, i, es, fs) ==
    IF r.k < Len(es) /\ (i - r.k > Len(fs) \/ ~Before(fs[i - r.k], es[r.k + 1]))
    THEN [k |-> r.k + 1, out |-> Append(r.out, es[r.k + 1])]
    ELSE [k |-> r.k, out |-> Append(r.out, fs[i - r.k])]

MergingRule(f, es, fs) ==
    f = [i \in 0..(Len(es) + Len(fs)) |->
           IF i = 0 THEN [k |-> 0, out |-> <<>>] ELSE NextMerged(f[i-1], i, es, fs)]

LEMMA MergingRuns ==
    ASSUME NEW es \in Seq(Step), NEW fs \in Seq(Step)
    PROVE  /\ Merging(es, fs)[0] = [k |-> 0, out |-> <<>>]
           /\ \A i \in 1..(Len(es) + Len(fs)) :
                Merging(es, fs)[i] = NextMerged(Merging(es, fs)[i-1], i, es, fs)
<1>v. PICK V : V = {es[j] : j \in Int} \cup {fs[j] : j \in Int}
  OBVIOUS
<1>r. PICK R : R = [k : Nat, out : Seq(V)]
  OBVIOUS
<1>p. PICK n, base : n = Len(es) + Len(fs) /\ base = [k |-> 0, out |-> <<>>]
  OBVIOUS
<1>0. n = Len(es) + Len(fs) /\ n \in Nat /\ base = [k |-> 0, out |-> <<>>] /\ base \in R
  BY <1>p, <1>r
<1>1. ASSUME NEW r \in R, NEW i \in 1..n PROVE NextMerged(r, i, es, fs) \in R
  <2>1. r.k \in Nat /\ r.out \in Seq(V) /\ r.k + 1 \in Int /\ i - r.k \in Int /\ r.k + 1 \in Nat
    BY <1>0, <1>r
  <2>2. es[r.k + 1] \in V /\ fs[i - r.k] \in V
    BY <1>v, <2>1
  <2>3. Append(r.out, es[r.k + 1]) \in Seq(V) /\ Append(r.out, fs[i - r.k]) \in Seq(V)
    BY <2>1, <2>2, Appended
  <2> QED
    BY <1>r, <2>1, <2>3 DEF NextMerged
<1>2. PICK h : h = [i \in 1..n |-> [r \in R |-> NextMerged(r, i, es, fs)]]
  OBVIOUS
<1>3. h \in Rules(n, R)
  BY <1>0, <1>1, <1>2 DEF Rules
<1>l. PICK f : Loops(f, n, R, base, h)
  BY <1>0, <1>3, LoopExists
<1>4. f \in [0..n -> R] /\ \A i \in 0..n : f[i] = IF i = 0 THEN base ELSE h[i][f[i-1]]
  BY <1>l DEF Loops
<1>5. \A i \in 0..n : f[i] = IF i = 0 THEN base ELSE NextMerged(f[i-1], i, es, fs)
  <2> TAKE i \in 0..n
  <2>1. CASE i = 0
    BY <1>4, <2>1
  <2>2. CASE i # 0
    <3>a. i \in 1..n /\ i - 1 \in 0..n
      BY <1>0, <2>2
    <3>1. i \in 1..n /\ f[i-1] \in R
      BY <1>4, <3>a
    <3> QED
      BY <1>2, <1>4, <2>2, <3>1
  <2> QED
    BY <2>1, <2>2
<1>6. MergingRule(f, es, fs)
  BY <1>0, <1>4, <1>5 DEF MergingRule
<1>7. MergingRule(Merging(es, fs), es, fs)
  BY Zenon, <1>6 DEF Merging, MergingRule, NextMerged
<1>8. PICK g : g = Merging(es, fs)
  OBVIOUS
<1>9. \A i \in 0..n : g[i] = IF i = 0 THEN base ELSE NextMerged(g[i-1], i, es, fs)
  BY <1>0, <1>7, <1>8 DEF MergingRule
<1>10. g[0] = base /\ \A i \in 1..n : g[i] = NextMerged(g[i-1], i, es, fs)
  BY <1>0, <1>9
<1> QED
  BY <1>0, <1>8, <1>10

(* A loop that appends a value in every round.                             *)
Appends(q, v, n, S) ==
    q[0] = <<>> /\ \A i \in 1..n : v[i] \in S /\ q[i] = Append(q[i-1], v[i])

ListOf(s, v, n, S) == s \in Seq(S) /\ Len(s) = n /\ \A i \in 1..n : s[i] = v[i]

LEMMA AppendLoop ==
    ASSUME NEW S, NEW n \in Nat, NEW q, NEW v, Appends(q, v, n, S)
    PROVE  ListOf(q[n], v, n, S)
<1> USE DEF Appends
<1> DEFINE B == {i \in 0..n : q[i] \in Seq(S) /\ Len(q[i]) = i /\ \A j \in 1..i : q[i][j] = v[j]}
<1>1. 0 \in B
  <2>1. q[0] \in Seq(S) /\ Len(q[0]) = 0
    OBVIOUS
  <2>2. \A j \in 1..0 : q[0][j] = v[j]
    OBVIOUS
  <2>3. 0 \in 0..n
    OBVIOUS
  <2> QED
    BY <2>1, <2>2, <2>3
<1>2. ASSUME NEW i \in 1..n, i - 1 \in B PROVE i \in B
  <2>1. PICK s, t : s = q[i-1] /\ t = q[i]
    OBVIOUS
  <2>2. s \in Seq(S) /\ Len(s) = i - 1 /\ (\A j \in 1..(i-1) : s[j] = v[j]) /\ t = Append(s, v[i])
        /\ v[i] \in S
    BY <1>2, <2>1
  <2>3. t \in Seq(S) /\ Len(t) = (i - 1) + 1 /\ t[(i - 1) + 1] = v[i] /\ \A j \in 1..(i-1) : t[j] = s[j]
    BY <2>2, Appended
  <2>4. (i - 1) + 1 = i /\ \A j \in 1..i : j = i \/ j \in 1..(i-1)
    OBVIOUS
  <2>5. \A j \in 1..i : t[j] = v[j]
    BY <2>2, <2>3, <2>4
  <2> QED
    BY <2>1, <2>3, <2>4, <2>5
<1>3. B = 0..n
  <2>1. B \in SUBSET (0..n)
    OBVIOUS
  <2> HIDE DEF B
  <2> QED
    BY <1>1, <1>2, <2>1, UpTo
<1>4. n \in B
  BY <1>3
<1> QED
  BY <1>4 DEF ListOf

(* c[i] of the first i events of E are of es; the next is a head that is   *)
(* not above the other.                                                    *)
Merges(c, E, es, fs) ==
    /\ Counts(c, Len(es) + Len(fs)) /\ c[Len(es) + Len(fs)] = Len(es)
    /\ E \in Seq(Step) /\ Len(E) = Len(es) + Len(fs)
    /\ \A i \in 1..(Len(es) + Len(fs)) :
          \/ /\ c[i] = c[i-1] + 1 /\ c[i] \in 1..Len(es) /\ E[i] = es[c[i]]
             /\ i - c[i-1] <= Len(fs) => Leq(E[i], fs[i - c[i-1]])
          \/ /\ c[i] = c[i-1] /\ i - c[i] \in 1..Len(fs) /\ E[i] = fs[i - c[i]]
             /\ c[i] < Len(es) => Leq(E[i], es[c[i] + 1])

LEMMA MergeMerges ==
    ASSUME NEW es \in Seq(Step), NEW fs \in Seq(Step)
    PROVE  \E c : Merges(c, Merge(es, fs), es, fs)
<1>p. PICK n, g : n = Len(es) + Len(fs) /\ g = Merging(es, fs)
  OBVIOUS
<1>0. /\ n = Len(es) + Len(fs) /\ n \in Nat /\ Len(es) \in Nat /\ Len(fs) \in Nat
      /\ g[0] = [k |-> 0, out |-> <<>>]
      /\ \A i \in 1..n : g[i] = NextMerged(g[i-1], i, es, fs)
  BY <1>p, MergingRuns
<1> DEFINE B == {i \in 0..n : g[i].k \in Nat /\ g[i].k <= Len(es) /\ i - g[i].k \in 0..Len(fs)}
           FromEs(i) == g[i-1].k < Len(es) /\ (i - g[i-1].k > Len(fs)
                                               \/ ~Before(fs[i - g[i-1].k], es[g[i-1].k + 1]))
           v == [i \in 1..n |-> IF FromEs(i) THEN es[g[i-1].k + 1] ELSE fs[i - g[i-1].k]]
<1>1. 0 \in B
  BY <1>0
<1>2. ASSUME NEW i \in 1..n PROVE /\ g[i].k = IF FromEs(i) THEN g[i-1].k + 1 ELSE g[i-1].k
                                  /\ g[i].out = Append(g[i-1].out, v[i])
  <2>1. g[i] = NextMerged(g[i-1], i, es, fs)
    BY <1>0
  <2> QED
    BY <2>1 DEF NextMerged
<1>3. ASSUME NEW i \in 1..n, i - 1 \in B PROVE i \in B /\ (~FromEs(i) => i - g[i-1].k \in 1..Len(fs))
  <2>1. PICK k : k = g[i-1].k
    OBVIOUS
  <2>2. k \in Nat /\ k <= Len(es) /\ i - 1 - k \in 0..Len(fs) /\ i <= Len(es) + Len(fs) /\ i \in 1..n
    BY <1>0, <1>3, <2>1
  <2>3. CASE FromEs(i)
    <3>1. g[i].k = k + 1 /\ k < Len(es)
      BY <1>2, <2>1, <2>3
    <3>2. k + 1 <= Len(es) /\ i - (k + 1) \in 0..Len(fs) /\ i \in 0..n
      BY <1>0, <2>2, <3>1
    <3> QED
      BY <1>0, <2>3, <2>2, <3>1, <3>2
  <2>4. CASE ~FromEs(i)
    <3>1. g[i].k = k
      BY <1>2, <2>1, <2>4
    <3>2. k = Len(es) \/ i - k <= Len(fs)
      BY <1>0, <2>1, <2>2, <2>4
    <3>3. i - k \in 1..Len(fs)
      BY <1>0, <2>2, <3>2
    <3> QED
      BY <1>0, <2>1, <2>2, <3>1, <3>3
  <2> QED
    BY <2>3, <2>4
<1>4. \A i \in 0..n : i \in B
  <2>1. B = 0..n
    <3>1. B \in SUBSET (0..n) /\ \A i \in 1..n : i - 1 \in B => i \in B
      BY <1>3
    <3> HIDE DEF B
    <3> QED
      BY <1>0, <1>1, <3>1, UpTo
  <2> QED
    BY <2>1
<1> DEFINE c == [i \in 0..n |-> g[i].k]
<1>5. \A i \in 1..n : /\ i - 1 \in B /\ c[i-1] = g[i-1].k /\ c[i] = g[i].k /\ c[i] \in Nat /\ c[i-1] \in Nat
                      /\ i - 1 \in 0..n /\ i \in 0..n
  <2> TAKE i \in 1..n
  <2>1. i - 1 \in 0..n /\ i \in 0..n
    BY <1>0
  <2> QED
    BY <1>4, <2>1
<1>6. ASSUME NEW i \in 1..n
      PROVE  /\ v[i] \in Step
             /\ FromEs(i) => /\ c[i] = c[i-1] + 1 /\ c[i] \in 1..Len(es) /\ v[i] = es[c[i]]
                             /\ i - c[i-1] <= Len(fs) => Leq(v[i], fs[i - c[i-1]])
             /\ ~FromEs(i) => /\ c[i] = c[i-1] /\ i - c[i] \in 1..Len(fs) /\ v[i] = fs[i - c[i]]
                              /\ c[i] < Len(es) => Leq(v[i], es[c[i] + 1])
  <2>1. i - 1 \in B
    BY <1>5
  <2>2. PICK k : k = c[i-1]
    OBVIOUS
  <2>3. k = g[i-1].k /\ k \in Nat /\ k <= Len(es) /\ i - 1 - k \in 0..Len(fs)
    BY <1>5, <2>1, <2>2
  <2>4. CASE FromEs(i)
    <3>1. c[i] = k + 1 /\ k < Len(es) /\ v[i] = es[k + 1]
      BY <1>2, <1>5, <2>3, <2>4
    <3>2. c[i] \in 1..Len(es) /\ es[k+1] \in Step
      BY <1>0, <2>3, <3>1
    <3>3. ASSUME i - k <= Len(fs) PROVE Leq(es[k+1], fs[i - k])
      <4>1. i - k \in 1..Len(fs)
        BY <1>0, <2>3, <3>3
      <4>2. fs[i - k] \in Step /\ ~Before(fs[i - k], es[k + 1])
        <5>1. ~(i - k > Len(fs))
          BY <1>0, <4>1
        <5> QED
          BY <2>3, <2>4, <4>1, <5>1
      <4> QED
        BY <3>2, <4>2, NotBefore
    <3> QED
      BY <2>2, <2>4, <3>1, <3>2, <3>3
  <2>5. CASE ~FromEs(i)
    <3>1. c[i] = k /\ v[i] = fs[i - k]
      BY <1>2, <1>5, <2>3, <2>5
    <3>2. i - k \in 1..Len(fs)
      BY <1>3, <2>1, <2>3, <2>5
    <3>3. fs[i - k] \in Step
      BY <3>2
    <3>4. ASSUME k < Len(es) PROVE Leq(fs[i - k], es[k + 1])
      <4>1. es[k+1] \in Step
        BY <1>0, <2>3, <3>4
      <4>2. Before(fs[i - k], es[k + 1])
        BY <2>3, <2>5, <3>4
      <4> QED
        BY <3>3, <4>1, <4>2, NotBefore
    <3> QED
      BY <2>2, <2>5, <3>1, <3>2, <3>3, <3>4
  <2> QED
    BY <2>4, <2>5
<1>7. Merge(es, fs) \in Seq(Step) /\ Len(Merge(es, fs)) = n /\ \A i \in 1..n : Merge(es, fs)[i] = v[i]
  <2>p. PICK q : q = [i \in 0..n |-> g[i].out]
    OBVIOUS
  <2>v. PICK w : w = v
    OBVIOUS
  <2>1. q[0] = <<>> /\ \A i \in 1..n : w[i] \in Step /\ q[i] = Append(q[i-1], w[i])
    <3>1. q[0] = <<>>
      BY <1>0, <2>p
    <3>2. \A i \in 1..n : q[i] = g[i].out /\ q[i-1] = g[i-1].out
      BY <1>5, <2>p
    <3> HIDE DEF v
    <3> QED
      BY <1>2, <1>6, <2>v, <3>1, <3>2
  <2>2. q[n] = Merge(es, fs)
    BY <1>0, <1>p, <2>p DEF Merge
  <2> HIDE DEF v
  <2>3. n \in Nat
    BY <1>0
  <2>5. Appends(q, w, n, Step)
    BY <2>1 DEF Appends
  <2>6. ListOf(q[n], w, n, Step)
    BY <2>3, <2>5, AppendLoop
  <2>4. q[n] \in Seq(Step) /\ Len(q[n]) = n /\ \A i \in 1..n : q[n][i] = w[i]
    BY <2>6 DEF ListOf
  <2> QED
    BY <2>2, <2>4, <2>v
<1>8. Counts(c, n) /\ c[n] = Len(es)
  <2>1. c[0] = 0 /\ c \in [0..n -> Nat]
    BY <1>0, <1>4
  <2>2. \A i \in 1..n : c[i] = c[i-1] \/ c[i] = c[i-1] + 1
    BY <1>6
  <2>3. n \in B /\ c[n] = g[n].k
    BY <1>0, <1>4
  <2>4. c[n] = Len(es)
    BY <1>0, <2>3
  <2> HIDE DEF c
  <2> QED
    BY <2>1, <2>2, <2>4 DEF Counts
<1>9. Merges(c, Merge(es, fs), es, fs)
  <2> HIDE DEF c, v, FromEs
  <2> QED
    BY <1>0, <1>6, <1>7, <1>8 DEF Merges
<1> QED
  BY <1>9

LEMMA CountsRest ==
    ASSUME NEW n \in Nat, NEW c, Counts(c, n)
    PROVE  \A i \in 0..n : c[i] <= i /\ c[i] \in Nat /\ i - c[i] \in Nat
<1> DEFINE B == {i \in 0..n : c[i] <= i}
<1>1. 0 \in B /\ B \in SUBSET (0..n)
  BY DEF Counts
<1>2. \A i \in 1..n : i - 1 \in B => i \in B
  BY DEF Counts
<1>3. B = 0..n
  <2> HIDE DEF B
  <2> QED
    BY <1>1, <1>2, UpTo
<1>4. \A i \in 0..n : c[i] \in Nat
  BY DEF Counts
<1> QED
  BY <1>3, <1>4

(* The events that are not of es are counted too.                          *)
LEMMA RestCounts ==
    ASSUME NEW n \in Nat, NEW c, Counts(c, n), NEW d, d = [i \in 0..n |-> i - c[i]]
    PROVE  Counts(d, n)
<1>0. \A i \in 0..n : i - c[i] \in Nat
  BY CountsRest
<1>1. d \in [0..n -> Nat] /\ d[0] = 0
  <2>1. 0 \in 0..n /\ c[0] = 0
    BY DEF Counts
  <2> QED
    BY <1>0, <2>1
<1>2. \A i \in 1..n : d[i] = d[i-1] \/ d[i] = d[i-1] + 1
  <2> TAKE i \in 1..n
  <2>1. i \in 0..n /\ i - 1 \in 0..n
    OBVIOUS
  <2>2. c[i] \in Nat /\ c[i-1] \in Nat /\ d[i] = i - c[i] /\ d[i-1] = (i - 1) - c[i-1]
        /\ (c[i] = c[i-1] \/ c[i] = c[i-1] + 1)
    BY <2>1 DEF Counts
  <2> QED
    BY <2>2
<1> QED
  BY <1>1, <1>2 DEF Counts

LEMMA MergeOrdered ==
    ASSUME NEW es \in Seq(Step), NEW fs \in Seq(Step), InOrder(es), InOrder(fs),
           NEW c, NEW E, Merges(c, E, es, fs)
    PROVE  InOrder(E)
<1>p. PICK n, a, b : n = Len(es) + Len(fs) /\ a = Len(es) /\ b = Len(fs)
  OBVIOUS
<1>0. /\ n = a + b /\ a \in Nat /\ b \in Nat /\ n \in Nat /\ Len(E) = n /\ E \in Seq(Step)
      /\ Counts(c, n) /\ a = Len(es) /\ b = Len(fs)
  BY <1>p DEF Merges
<1>1. \A i \in 1..n :
          \/ /\ c[i] = c[i-1] + 1 /\ c[i] \in 1..a /\ E[i] = es[c[i]]
             /\ i - c[i-1] <= b => Leq(E[i], fs[i - c[i-1]])
          \/ /\ c[i] = c[i-1] /\ i - c[i] \in 1..b /\ E[i] = fs[i - c[i]]
             /\ c[i] < a => Leq(E[i], es[c[i] + 1])
  BY <1>p DEF Merges
<1>2. \A i \in 1..a : es[i] \in Step
  BY <1>0
<1>3. \A i \in 1..b : fs[i] \in Step
  BY <1>0
<1>4. \A i \in 1..n : E[i] \in Step
  BY <1>0
<1>5. \A i, j \in 1..a : i < j => Leq(es[i], es[j])
  BY <1>0 DEF InOrder
<1>6. \A i, j \in 1..b : i < j => Leq(fs[i], fs[j])
  BY <1>0 DEF InOrder
<1>d. PICK d : d = [i \in 0..n |-> i - c[i]]
  OBVIOUS
<1>7. Counts(d, n)
  BY <1>0, <1>d, RestCounts
<1>8. \A i \in 0..n : c[i] \in Nat /\ d[i] = i - c[i] /\ d[i] \in Nat
  BY <1>0, <1>d, CountsRest
<1>9. ASSUME NEW i \in 1..n
      PROVE  /\ \A p \in (c[i]+1)..a : Leq(E[i], es[p])
             /\ \A p \in (d[i]+1)..b : Leq(E[i], fs[p])
  <2>d. i \in 0..n /\ i - 1 \in 0..n
    BY <1>0
  <2>0. c[i] \in Nat /\ c[i-1] \in Nat /\ d[i] = i - c[i]
        /\ d[i-1] = (i-1) - c[i-1] /\ d[i] \in Nat
    BY <1>8, <2>d
  <2>1. CASE c[i] = c[i-1] + 1 /\ c[i] \in 1..a /\ E[i] = es[c[i]]
                 /\ (i - c[i-1] <= b => Leq(E[i], fs[i - c[i-1]]))
    <3>1. \A p \in (c[i]+1)..a : Leq(E[i], es[p])
      <4> TAKE p \in (c[i]+1)..a
      <4>1. p \in 1..a /\ c[i] < p
        BY <1>0, <2>0
      <4> QED
        BY <1>5, <2>1, <4>1
    <3>2. \A p \in (d[i]+1)..b : Leq(E[i], fs[p])
      <4> TAKE p \in (d[i]+1)..b
      <4>1. PICK m : m = i - c[i-1]
        OBVIOUS
      <4>2. m = d[i] + 1 /\ m \in 1..b /\ p \in 1..b /\ (m = p \/ m < p)
        BY <1>0, <2>0, <2>1, <4>1
      <4>3. Leq(E[i], fs[m])
        BY <1>0, <2>1, <4>1, <4>2
      <4>4. fs[m] \in Step /\ fs[p] \in Step /\ E[i] \in Step /\ (m = p \/ Leq(fs[m], fs[p]))
        BY <1>3, <1>4, <1>6, <4>2
      <4> QED
        BY <4>3, <4>4, LeqTransitive
    <3> QED
      BY <3>1, <3>2
  <2>2. CASE c[i] = c[i-1] /\ i - c[i] \in 1..b /\ E[i] = fs[i - c[i]]
                 /\ (c[i] < a => Leq(E[i], es[c[i] + 1]))
    <3>1. \A p \in (d[i]+1)..b : Leq(E[i], fs[p])
      <4> TAKE p \in (d[i]+1)..b
      <4>1. p \in 1..b /\ d[i] \in 1..b /\ d[i] < p /\ E[i] = fs[d[i]]
        BY <1>0, <2>0, <2>2
      <4> QED
        BY <1>6, <4>1
    <3>2. \A p \in (c[i]+1)..a : Leq(E[i], es[p])
      <4> TAKE p \in (c[i]+1)..a
      <4>1. PICK m : m = c[i] + 1
        OBVIOUS
      <4>2. m \in 1..a /\ p \in 1..a /\ (m = p \/ m < p) /\ c[i] < a
        BY <1>0, <2>0, <4>1
      <4>3. Leq(E[i], es[m])
        BY <2>2, <4>1, <4>2
      <4>4. es[m] \in Step /\ es[p] \in Step /\ E[i] \in Step /\ (m = p \/ Leq(es[m], es[p]))
        BY <1>2, <1>4, <1>5, <4>2
      <4> QED
        BY <4>3, <4>4, LeqTransitive
    <3> QED
      BY <3>1, <3>2
  <2> QED
    BY <1>1, <2>1, <2>2
<1>10. ASSUME NEW i \in 1..n, NEW j \in 1..n, i < j
       PROVE  Leq(E[i], E[j])
  <2>1. i \in 0..n /\ j - 1 \in i..n /\ j \in 0..n /\ j - 1 \in 0..n
    BY <1>0, <1>10
  <2>2. c[i] <= c[j-1] /\ d[i] <= d[j-1]
    BY <1>0, <1>7, <2>1, CountsGrow
  <2>3. c[i] \in Nat /\ c[j-1] \in Nat /\ c[j] \in Nat /\ d[i] \in Nat /\ d[j-1] \in Nat
        /\ d[j] = j - c[j] /\ d[j-1] = (j-1) - c[j-1] /\ d[j] \in Nat
    BY <1>8, <2>1
  <2>4. CASE c[j] = c[j-1] + 1 /\ c[j] \in 1..a /\ E[j] = es[c[j]]
    <3>1. c[j] \in (c[i]+1)..a
      BY <1>0, <2>2, <2>3, <2>4
    <3> QED
      BY <1>9, <2>4, <3>1
  <2>5. CASE c[j] = c[j-1] /\ j - c[j] \in 1..b /\ E[j] = fs[j - c[j]]
    <3>1. d[j] \in (d[i]+1)..b /\ E[j] = fs[d[j]]
      BY <1>0, <2>2, <2>3, <2>5
    <3> QED
      BY <1>9, <3>1
  <2> QED
    BY <1>1, <2>4, <2>5
<1> QED
  BY <1>0, <1>10 DEF InOrder

(* Every event of both lists is in the merged list, before or after its    *)
(* i-th place as it is among the first c[i] of es or i - c[i] of fs.       *)
SplitAt(c, E, es, fs, i) ==
    /\ \A p \in 1..Len(es) : \E j \in 1..Len(E) : E[j] = es[p] /\ (j <= i <=> p <= c[i])
    /\ \A p \in 1..Len(fs) : \E j \in 1..Len(E) : E[j] = fs[p] /\ (j <= i <=> p <= i - c[i])

LEMMA MergeSplits ==
    ASSUME NEW es \in Seq(Step), NEW fs \in Seq(Step), NEW c, NEW E, Merges(c, E, es, fs),
           NEW i \in 0..Len(E)
    PROVE  SplitAt(c, E, es, fs, i)
<1>p. PICK n, a, b : n = Len(es) + Len(fs) /\ a = Len(es) /\ b = Len(fs)
  OBVIOUS
<1>0. /\ n = a + b /\ a \in Nat /\ b \in Nat /\ n \in Nat /\ Len(E) = n /\ E \in Seq(Step)
      /\ Counts(c, n) /\ c[n] = a /\ i \in 0..n
  BY <1>p DEF Merges
<1>1. \A j \in 1..n :
          \/ c[j] = c[j-1] + 1 /\ c[j] \in 1..a /\ E[j] = es[c[j]]
          \/ c[j] = c[j-1] /\ j - c[j] \in 1..b /\ E[j] = fs[j - c[j]]
  BY <1>p DEF Merges
<1>d. PICK d : d = [j \in 0..n |-> j - c[j]]
  OBVIOUS
<1>7. Counts(d, n)
  BY <1>0, <1>d, RestCounts
<1>8. \A j \in 0..n : c[j] \in Nat /\ d[j] = j - c[j] /\ d[j] \in Nat
  BY <1>0, <1>d, CountsRest
<1>9. d[n] = b
  BY <1>0, <1>8
<1>10. ASSUME NEW e, Counts(e, n), NEW j \in 1..n, NEW p \in Nat, e[j] = p, e[j-1] = p - 1
       PROVE  j <= i <=> p <= e[i]
  <2>1. j \in 0..n /\ j - 1 \in 0..n
    BY <1>0
  <2>2. e[i] \in Nat
    BY <1>0, <1>10 DEF Counts
  <2>3. CASE j <= i
    <3>1. i \in j..n
      BY <1>0, <2>3
    <3>2. e[j] <= e[i]
      BY <1>0, <1>10, <2>1, <3>1, CountsGrow
    <3> QED
      BY <1>10, <2>3, <3>2
  <2>4. CASE ~(j <= i)
    <3>1. j - 1 \in i..n
      BY <1>0, <2>4
    <3>2. e[i] <= e[j-1]
      BY <1>0, <1>10, <3>1, CountsGrow
    <3> QED
      BY <1>10, <2>2, <2>4, <3>2
  <2> QED
    BY <2>3, <2>4
<1>11. ASSUME NEW p \in 1..a PROVE \E j \in 1..n : E[j] = es[p] /\ (j <= i <=> p <= c[i])
  <2>0. p \in 1..c[n] /\ n \in Nat /\ Counts(c, n)
    BY <1>0
  <2>1. PICK j \in 1..n : c[j] = p /\ c[j-1] = p - 1
    BY <2>0, CountsAll
  <2>2. E[j] = es[p]
    BY <1>1, <2>1
  <2>3. j <= i <=> p <= c[i]
    BY <1>0, <1>10, <2>1
  <2> QED
    BY <2>2, <2>3
<1>12. ASSUME NEW p \in 1..b PROVE \E j \in 1..n : E[j] = fs[p] /\ (j <= i <=> p <= i - c[i])
  <2>0. p \in 1..d[n]
    BY <1>9
  <2>1. PICK j \in 1..n : d[j] = p /\ d[j-1] = p - 1
    BY <1>0, <1>7, <2>0, CountsAll
  <2>2. j \in 0..n /\ j - 1 \in 0..n
    BY <1>0
  <2>3. E[j] = fs[p]
    <3>1. c[j] \in Nat /\ c[j-1] \in Nat /\ d[j] = j - c[j] /\ d[j-1] = (j-1) - c[j-1]
      BY <1>8, <2>2
    <3>2. c[j] = c[j-1] /\ j - c[j] = p
      BY <2>1, <3>1
    <3>3. ~(c[j] = c[j-1] + 1)
      BY <3>1, <3>2
    <3> QED
      BY <1>1, <3>2, <3>3
  <2>4. j <= i <=> p <= d[i]
    BY <1>7, <1>10, <2>1
  <2>5. d[i] = i - c[i]
    BY <1>0, <1>8
  <2> QED
    BY <2>3, <2>4, <2>5
<1> QED
  BY <1>0, <1>p, <1>11, <1>12 DEF SplitAt

LEMMA EventsAre ==
    ASSUME NEW s \in Seq(Nat), NEW u \in Int, NEW w \in Int
    PROVE  /\ Events(s, u, w) \in Seq(Step) /\ Len(Events(s, u, w)) = Len(s)
           /\ \A i \in 1..Len(s) : Events(s, u, w)[i] = <<s[i], IF i % 2 = 1 THEN u ELSE w>>
           /\ Rising(s) => InOrder(Events(s, u, w))
<1>p. PICK n, q : n = Len(s) /\ q = Events(s, u, w)
  OBVIOUS
<1>1. n \in Nat /\ DOMAIN s = 1..n /\ \A i \in 1..n : s[i] \in Nat
  BY <1>p
<1>2. q = [i \in 1..n |-> <<s[i], IF i % 2 = 1 THEN u ELSE w>>]
  BY <1>1, <1>p DEF Events
<1>3. \A i \in 1..n : <<s[i], IF i % 2 = 1 THEN u ELSE w>> \in Step
  BY <1>1 DEF Step
<1>4. q \in Seq(Step) /\ Len(q) = n
  BY <1>1, <1>2, <1>3
<1>5. \A i \in 1..n : q[i] = <<s[i], IF i % 2 = 1 THEN u ELSE w>> /\ q[i][1] = s[i]
  BY <1>2
<1>6. ASSUME Rising(s) PROVE InOrder(q)
  <2>1. ASSUME NEW i \in 1..n, NEW j \in 1..n, i < j PROVE Leq(q[i], q[j])
    <3>1. s[i] < s[j] /\ q[i][1] = s[i] /\ q[j][1] = s[j]
      BY <1>5, <1>6, <1>p, <2>1 DEF Rising
    <3> QED
      BY <3>1 DEF Leq
  <2> QED
    BY <1>4, <2>1 DEF InOrder
<1> QED
  BY <1>p, <1>4, <1>5, <1>6

(* Where the sweep is when it has passed x.                                *)
Passes(E, i, x) ==
    /\ i \in 0..Len(E)
    /\ \A j \in 1..i : E[j][1] <= x
    /\ \A j \in (i+1)..Len(E) : x < E[j][1]

LEMMA PassesSomewhere ==
    ASSUME NEW E \in Seq(Step), InOrder(E), NEW x \in Nat
    PROVE  \E i : Passes(E, i, x)
<1>p. PICK n, s : n = Len(E) /\ s = [i \in 1..n |-> E[i][1]]
  OBVIOUS
<1>1. n \in Nat /\ \A i \in 1..n : E[i] \in Step /\ E[i][1] \in Nat /\ s[i] = E[i][1]
  BY <1>p DEF Step
<1>2. s \in Seq(Nat) /\ Len(s) = n
  BY <1>1, <1>p
<1>3. Sorted(s)
  <2>1. ASSUME NEW i \in 1..n, NEW j \in 1..n, i < j PROVE s[i] <= s[j]
    <3>1. Leq(E[i], E[j]) /\ s[i] \in Nat /\ s[j] \in Nat
      BY <1>1, <1>p, <2>1 DEF InOrder
    <3> QED
      BY <1>1, <3>1 DEF Leq
  <2> QED
    BY <1>2, <2>1 DEF Sorted
<1>4. PICK k : Cell(s, k, x)
  BY <1>2, <1>3, CellExists
<1>5. k \in 0..n /\ (\A i \in 1..k : s[i] <= x) /\ (\A i \in (k+1)..n : x < s[i])
  BY <1>2, <1>4 DEF Cell
<1>6. \A i \in 1..k : E[i][1] <= x
  <2> TAKE i \in 1..k
  <2>1. i \in 1..n
    BY <1>1, <1>5
  <2> QED
    BY <1>1, <1>5, <2>1
<1>7. \A i \in (k+1)..n : x < E[i][1]
  <2> TAKE i \in (k+1)..n
  <2>1. i \in 1..n
    BY <1>1, <1>5
  <2> QED
    BY <1>1, <1>5, <2>1
<1> QED
  BY <1>p, <1>5, <1>6, <1>7 DEF Passes

StepsAt(es, s) == Len(es) = Len(s) /\ \A i \in 1..Len(s) : es[i][1] = s[i]

(* There x lies in the corresponding cells of both lists.                  *)
LEMMA PassesCells ==
    ASSUME NEW s \in Seq(Nat), NEW t \in Seq(Nat), NEW es \in Seq(Step), NEW fs \in Seq(Step),
           StepsAt(es, s), StepsAt(fs, t),
           NEW c, NEW E, Merges(c, E, es, fs), NEW i, NEW x \in Nat, Passes(E, i, x)
    PROVE  Cell(s, c[i], x) /\ Cell(t, i - c[i], x)
<1>p. PICK n, a, b : n = Len(es) + Len(fs) /\ a = Len(es) /\ b = Len(fs)
  OBVIOUS
<1>s. /\ Len(s) = a /\ Len(t) = b
      /\ (\A p \in 1..a : es[p][1] = s[p]) /\ \A p \in 1..b : fs[p][1] = t[p]
  BY <1>p DEF StepsAt
<1>0. /\ n = a + b /\ a \in Nat /\ b \in Nat /\ n \in Nat /\ Len(E) = n
      /\ Counts(c, n) /\ c[n] = a /\ i \in 0..n
  BY <1>p DEF Merges, Passes
<1>1. SplitAt(c, E, es, fs, i)
  BY <1>0, MergeSplits
<1>d. PICK d : d = [j \in 0..n |-> j - c[j]]
  OBVIOUS
<1>2. Counts(d, n)
  BY <1>0, <1>d, RestCounts
<1>3. c[i] \in Nat /\ d[i] = i - c[i] /\ d[i] \in Nat /\ d[n] = n - c[n]
  BY <1>0, <1>d, CountsRest
<1>4. c[i] <= a /\ d[i] <= b
  <2>1. n \in i..n
    BY <1>0
  <2>2. c[i] <= c[n] /\ d[i] <= d[n]
    BY <1>0, <1>2, <2>1, CountsGrow
  <2> QED
    BY <1>0, <1>3, <2>2
<1>5. \A j \in 1..n : (j <= i => E[j][1] <= x) /\ (~(j <= i) => x < E[j][1])
  BY <1>0 DEF Passes
<1>6. \A p \in 1..a : (p <= c[i] => s[p] <= x) /\ (~(p <= c[i]) => x < s[p])
  <2> TAKE p \in 1..a
  <2>1. PICK j \in 1..n : E[j] = es[p] /\ (j <= i <=> p <= c[i])
    BY <1>0, <1>1, <1>p DEF SplitAt
  <2>2. es[p][1] = s[p]
    BY <1>s
  <2> QED
    BY <1>5, <2>1, <2>2
<1>7. \A p \in 1..b : (p <= d[i] => t[p] <= x) /\ (~(p <= d[i]) => x < t[p])
  <2> TAKE p \in 1..b
  <2>1. PICK j \in 1..n : E[j] = fs[p] /\ (j <= i <=> p <= d[i])
    BY <1>0, <1>1, <1>3, <1>p DEF SplitAt
  <2>2. fs[p][1] = t[p]
    BY <1>s
  <2> QED
    BY <1>5, <2>1, <2>2
<1>8. Cell(s, c[i], x)
  BY <1>0, <1>3, <1>4, <1>6, <1>s DEF Cell
<1>9. Cell(t, d[i], x)
  BY <1>0, <1>3, <1>4, <1>7, <1>s DEF Cell
<1> QED
  BY <1>3, <1>8, <1>9


-----------------------------------------------------------------------------
(* The sweep.                                                              *)

Swept == [z : Int, out : Seq(Nat)]

NextSwept(r, e, cross) ==
    [z |-> r.z + e[2], out |-> IF <<r.z, e[2]>> \in cross THEN Append(r.out, e[1]) ELSE r.out]

SweepRule(f, E, cross) ==
    f = [i \in 0..Len(E) |-> IF i = 0 THEN [z |-> 0, out |-> <<>>]
                             ELSE NextSwept(f[i-1], E[i], cross)]

LEMMA SweepRuns ==
    ASSUME NEW E \in Seq(Step), NEW cross
    PROVE  /\ Sweep(E, cross)[0] = [z |-> 0, out |-> <<>>]
           /\ \A i \in 1..Len(E) : Sweep(E, cross)[i] = NextSwept(Sweep(E, cross)[i-1], E[i], cross)
           /\ \A i \in 0..Len(E) : Sweep(E, cross)[i] \in Swept
<1>p. PICK n, base : n = Len(E) /\ base = [z |-> 0, out |-> <<>>]
  OBVIOUS
<1>0. n = Len(E) /\ n \in Nat /\ base = [z |-> 0, out |-> <<>>] /\ base \in Swept
  BY <1>p DEF Swept
<1>1. ASSUME NEW i \in 1..n, NEW r \in Swept PROVE NextSwept(r, E[i], cross) \in Swept
  <2>1. E[i] \in Step
    BY <1>0
  <2>2. E[i][1] \in Nat /\ E[i][2] \in Int
    BY <2>1 DEF Step
  <2>3. r.z \in Int /\ r.out \in Seq(Nat)
    BY DEF Swept
  <2>4. Append(r.out, E[i][1]) \in Seq(Nat)
    BY <2>2, <2>3
  <2> QED
    BY <2>2, <2>3, <2>4 DEF NextSwept, Swept
<1>2. PICK h : h = [i \in 1..n |-> [r \in Swept |-> NextSwept(r, E[i], cross)]]
  OBVIOUS
<1>3. h \in Rules(n, Swept)
  BY <1>0, <1>1, <1>2 DEF Rules
<1>l. PICK f : Loops(f, n, Swept, base, h)
  BY <1>0, <1>3, LoopExists
<1>4. f \in [0..n -> Swept] /\ \A i \in 0..n : f[i] = IF i = 0 THEN base ELSE h[i][f[i-1]]
  BY <1>l DEF Loops
<1>5. \A i \in 0..n : f[i] = IF i = 0 THEN base ELSE NextSwept(f[i-1], E[i], cross)
  <2> TAKE i \in 0..n
  <2>1. CASE i = 0
    BY <1>4, <2>1
  <2>2. CASE i # 0
    <3>a. i \in 1..n /\ i - 1 \in 0..n
      BY <1>0, <2>2
    <3>1. i \in 1..n /\ f[i-1] \in Swept
      BY <1>4, <3>a
    <3> QED
      BY <1>2, <1>4, <2>2, <3>1
  <2> QED
    BY <2>1, <2>2
<1>6. SweepRule(f, E, cross)
  BY <1>0, <1>4, <1>5 DEF SweepRule
<1>7. SweepRule(Sweep(E, cross), E, cross)
  BY Zenon, <1>6 DEF Sweep, SweepRule, NextSwept
<1>8. PICK g : g = Sweep(E, cross)
  OBVIOUS
<1>9. \A i \in 0..n : g[i] = IF i = 0 THEN base ELSE NextSwept(g[i-1], E[i], cross)
  BY <1>0, <1>7, <1>8 DEF SweepRule
<1>10. g[0] = base /\ \A i \in 1..n : g[i] = NextSwept(g[i-1], E[i], cross)
  BY <1>0, <1>9
<1>11. \A i \in 0..n : g[i] \in Swept
  <2>1. \A i \in 1..n : g[i-1] \in Swept => g[i] \in Swept
    BY <1>0, <1>1, <1>10
  <2>2. g[0] \in Swept
    BY <1>0, <1>10
  <2> QED
    BY <1>0, <2>1, <2>2, StaysIn
<1> QED
  BY <1>0, <1>8, <1>10, <1>11

(* The crossings of the depth T, up and down.                              *)
Crosses(T) == {<<T - 1, 1>>, <<T, -1>>}

UpDown(E) == \A i \in 1..Len(E) : E[i][2] \in {1, -1}

SweptRight(r, E, i, T) ==
    /\ Sorted(r.out)
    /\ \A j \in 1..Len(r.out) : i >= 1 /\ r.out[j] <= E[i][1]
    /\ Len(r.out) % 2 = 1 <=> r.z >= T

LEMMA SortedAppend ==
    ASSUME NEW s \in Seq(Nat), Sorted(s), NEW v \in Nat, \A j \in 1..Len(s) : s[j] <= v
    PROVE  Sorted(Append(s, v))
<1>p. PICK n, t : n = Len(s) /\ t = Append(s, v)
  OBVIOUS
<1>1. /\ n = Len(s) /\ n \in Nat /\ t = Append(s, v) /\ Len(t) = n + 1
      /\ (\A j \in 1..n : t[j] = s[j]) /\ t[n+1] = v
  BY <1>p, Appended
<1>2. ASSUME NEW i \in 1..(n+1), NEW j \in 1..(n+1), i < j
      PROVE  t[i] <= t[j]
  <2>1. i \in 1..n
    BY <1>1, <1>2
  <2>2. j = n + 1 \/ j \in 1..n
    BY <1>1
  <2> QED
    BY <1>1, <1>2, <2>1, <2>2 DEF Sorted
<1> QED
  BY <1>1, <1>2 DEF Sorted

LEMMA SweepStaysRight ==
    ASSUME NEW E \in Seq(Step), InOrder(E), UpDown(E), NEW T \in Nat \ {0},
           NEW i \in 1..Len(E), NEW r \in Swept, SweptRight(r, E, i - 1, T)
    PROVE  SweptRight(NextSwept(r, E[i], Crosses(T)), E, i, T)
<1>p. PICK n, p, d, q, m : n = Len(E) /\ p = E[i][1] /\ d = E[i][2] /\ q = NextSwept(r, E[i], Crosses(T))
                        /\ m = Len(r.out)
  OBVIOUS
<1>0. E[i] \in Step /\ n \in Nat
  BY <1>p
<1>1. p \in Nat /\ d \in {1, -1}
  BY <1>0, <1>p DEF Step, UpDown
<1>2. r.z \in Int /\ r.out \in Seq(Nat) /\ m \in Nat
  BY <1>p DEF Swept
<1>3. \A j \in 1..m : r.out[j] <= p /\ r.out[j] \in Nat
  <2> TAKE j \in 1..m
  <2>1. i - 1 >= 1 /\ r.out[j] <= E[i-1][1] /\ r.out[j] \in Nat
    BY <1>2, <1>p DEF SweptRight
  <2>2. i - 1 \in 1..n /\ i \in 1..n /\ i - 1 < i
    BY <1>0, <1>p, <2>1
  <2>3. Leq(E[i-1], E[i]) /\ E[i-1] \in Step
    BY <1>p, <2>2 DEF InOrder
  <2>4. E[i-1][1] \in Nat /\ E[i-1][1] <= p
    BY <1>1, <1>p, <2>3 DEF Leq, Step
  <2> QED
    BY <1>1, <2>1, <2>4
<1>4. q.z = r.z + d /\ q.out = IF <<r.z, d>> \in Crosses(T) THEN Append(r.out, p) ELSE r.out
  BY <1>p DEF NextSwept
<1>5. m % 2 \in {0, 1} /\ (m + 1) % 2 = 1 - (m % 2) /\ (m % 2 = 1 <=> r.z >= T)
  BY <1>2, <1>p, Parity DEF SweptRight
<1>6. CASE (r.z = T - 1 /\ d = 1) \/ (r.z = T /\ d = -1)
  <2>1. q.out = Append(r.out, p)
    BY <1>4, <1>6 DEF Crosses
  <2>2. Len(q.out) = m + 1 /\ (\A j \in 1..m : q.out[j] = r.out[j]) /\ q.out[m+1] = p
    BY <1>1, <1>2, <1>p, <2>1, Appended
  <2>3. Sorted(q.out)
    BY <1>1, <1>2, <1>3, <1>p, <2>1, SortedAppend DEF SweptRight
  <2>4. \A j \in 1..(m+1) : i >= 1 /\ q.out[j] <= p
    <3> TAKE j \in 1..(m+1)
    <3>1. j = m + 1 \/ j \in 1..m
      BY <1>2
    <3> QED
      BY <1>1, <1>3, <2>2, <3>1
  <2>5. (m + 1) % 2 = 1 <=> q.z >= T
    BY <1>1, <1>2, <1>4, <1>5, <1>6
  <2> QED
    BY <1>p, <2>2, <2>3, <2>4, <2>5 DEF SweptRight
<1>7. CASE ~((r.z = T - 1 /\ d = 1) \/ (r.z = T /\ d = -1))
  <2>1. q.out = r.out
    BY <1>4, <1>7 DEF Crosses
  <2>2. m % 2 = 1 <=> q.z >= T
    BY <1>1, <1>2, <1>4, <1>5, <1>7
  <2>3. Sorted(q.out) /\ Len(q.out) = m
    BY <1>p, <2>1 DEF SweptRight
  <2>4. \A j \in 1..m : i >= 1 /\ q.out[j] <= p
    BY <1>3, <2>1
  <2> QED
    BY <1>p, <2>2, <2>3, <2>4 DEF SweptRight
<1> QED
  BY <1>6, <1>7

SweepAlways(E, T) ==
    \A i \in 0..Len(E) : SweptRight(Sweep(E, Crosses(T))[i], E, i, T)

LEMMA SweptAlways ==
    ASSUME NEW E \in Seq(Step), InOrder(E), UpDown(E), NEW T \in Nat \ {0}
    PROVE  SweepAlways(E, T)
<1>p. PICK n, g : n = Len(E) /\ g = Sweep(E, Crosses(T))
  OBVIOUS
<1>0. n \in Nat /\ n \in 0..n
  BY <1>p
<1>1. /\ g[0] = [z |-> 0, out |-> <<>>]
      /\ \A i \in 1..n : g[i] = NextSwept(g[i-1], E[i], Crosses(T))
      /\ \A i \in 0..n : g[i] \in Swept
  BY <1>p, SweepRuns
<1> DEFINE B == {i \in 0..n : SweptRight(g[i], E, i, T)}
<1>2. SweptRight(g[0], E, 0, T)
  BY <1>1 DEF SweptRight, Sorted
<1>3. ASSUME NEW i \in 1..n, i - 1 \in B PROVE i \in B
  <2>1. i - 1 \in 0..n /\ i \in 0..n
    BY <1>0
  <2>2. g[i-1] \in Swept /\ SweptRight(g[i-1], E, i - 1, T) /\ g[i] = NextSwept(g[i-1], E[i], Crosses(T))
    BY <1>1, <1>3, <2>1
  <2>3. SweptRight(g[i], E, i, T)
    BY <1>p, <2>2, SweepStaysRight
  <2> QED
    BY <2>1, <2>3
<1>4. \A i \in 0..n : i \in B
  <2>1. B \in SUBSET (0..n) /\ 0 \in 0..n /\ 0 \in B
    BY <1>0, <1>2
  <2>2. \A i \in (0+1)..n : i - 1 \in B => i \in B
    BY <1>3
  <2> HIDE DEF B
  <2> QED
    BY <1>0, <2>1, <2>2, FromOn
<1> QED
  BY <1>4, <1>p DEF SweepAlways

(* A number passed when the sweep is at depth T or more, and no other, is  *)
(* in an odd cell of the crossings of T.                                   *)
LEMMA SweepCells ==
    ASSUME NEW E \in Seq(Step), InOrder(E), UpDown(E), NEW T \in Nat \ {0}
    PROVE  /\ Crossings(E, Crosses(T)) \in Seq(Nat) /\ Sorted(Crossings(E, Crosses(T)))
           /\ Len(Crossings(E, Crosses(T))) % 2 = 1 <=> Sweep(E, Crosses(T))[Len(E)].z >= T
           /\ \A x \in Nat : \A i : Passes(E, i, x) =>
                 \E k : /\ Cell(Crossings(E, Crosses(T)), k, x)
                        /\ k % 2 = 1 <=> Sweep(E, Crosses(T))[i].z >= T
<1>p. PICK n, g : n = Len(E) /\ g = Sweep(E, Crosses(T))
  OBVIOUS
<1>0. n \in Nat /\ n \in 0..n
  BY <1>p
<1>1. /\ g[0] = [z |-> 0, out |-> <<>>]
      /\ \A i \in 1..n : g[i] = NextSwept(g[i-1], E[i], Crosses(T))
      /\ \A i \in 0..n : g[i] \in Swept
  BY <1>p, SweepRuns
<1>2. g[n].out = Crossings(E, Crosses(T))
  BY <1>p DEF Crossings
<1>3. \A i \in 0..n : SweptRight(g[i], E, i, T)
  BY <1>p, SweptAlways DEF SweepAlways
<1>4. \A i \in 0..n : g[i].out \in Seq(Nat) /\ g[i].z \in Int
  BY <1>1 DEF Swept
<1>5. ASSUME NEW x \in Nat, NEW i, Passes(E, i, x)
      PROVE  \E k : Cell(g[n].out, k, x) /\ (k % 2 = 1 <=> g[i].z >= T)
  <2>0. i \in 0..n /\ (\A j \in 1..i : E[j][1] <= x) /\ (\A j \in (i+1)..n : x < E[j][1])
    BY <1>5, <1>p DEF Passes
  <2>k. PICK k, t : k = Len(g[i].out) /\ t = g[i].out
    OBVIOUS
  <2>1. k \in Nat /\ k = Len(t) /\ t \in Seq(Nat) /\ k \in 0..k
    BY <1>4, <2>0, <2>k
  <2>2. k % 2 = 1 <=> g[i].z >= T
    BY <1>3, <2>0, <2>k DEF SweptRight
  <2> DEFINE B == {j \in 0..n : j >= i /\ Cell(g[j].out, k, x)}
  <2>3. Cell(t, k, x)
    <3>1. \A j \in 1..k : t[j] <= x
      <4> TAKE j \in 1..k
      <4>a. SweptRight(g[i], E, i, T)
        BY <1>3, <2>0
      <4>b. i >= 1 /\ t[j] <= E[i][1]
        BY <2>k, <4>a DEF SweptRight
      <4>1. i >= 1 /\ t[j] <= E[i][1] /\ t[j] \in Nat
        BY <2>1, <4>b
      <4>2. i \in 1..i /\ i \in 1..n
        BY <1>0, <2>0, <4>1
      <4>3. E[i][1] <= x /\ E[i] \in Step
        BY <1>p, <2>0, <4>2
      <4> QED
        BY <4>1, <4>3 DEF Step
    <3> QED
      BY <2>1, <3>1 DEF Cell
  <2>4. ASSUME NEW j \in (i+1)..n, j - 1 \in B PROVE j \in B
    <3>0. j \in 1..n /\ j - 1 \in 0..n /\ j \in 0..n /\ x < E[j][1] /\ j >= i
      BY <1>0, <2>0
    <3>q. PICK u, v : u = g[j-1].out /\ v = g[j].out
      OBVIOUS
    <3>a. g[j] = NextSwept(g[j-1], E[j], Crosses(T))
      BY <1>1, <3>0
    <3>b. v = u \/ v = Append(u, E[j][1])
      BY <3>a, <3>q DEF NextSwept
    <3>1. u \in Seq(Nat) /\ Cell(u, k, x) /\ (v = u \/ v = Append(u, E[j][1]))
      BY <1>4, <2>4, <3>0, <3>b, <3>q
    <3>2. CASE v = u
      BY <3>0, <3>1, <3>2, <3>q
    <3>3. CASE v = Append(u, E[j][1])
      <4>1. E[j] \in Step
        BY <1>p, <3>0
      <4>2. E[j][1] \in Nat
        BY <4>1 DEF Step
      <4>q. PICK l : l = Len(u)
        OBVIOUS
      <4>3. l \in Nat /\ Len(v) = l + 1 /\ v[l+1] = E[j][1] /\ \A p \in 1..l : v[p] = u[p]
        BY <3>1, <3>3, <4>2, <4>q, Appended
      <4>4. k \in 0..l /\ (\A p \in 1..k : u[p] <= x) /\ \A p \in (k+1)..l : x < u[p]
        BY <3>1, <4>q DEF Cell
      <4>5. \A p \in 1..k : v[p] <= x
        BY <4>3, <4>4
      <4>6. \A p \in (k+1)..(l+1) : x < v[p]
        <5> TAKE p \in (k+1)..(l+1)
        <5>1. p = l + 1 \/ p \in (k+1)..l
          BY <4>3, <4>4
        <5> QED
          BY <3>0, <4>3, <4>4, <5>1
      <4>7. Cell(v, k, x)
        BY <4>3, <4>4, <4>5, <4>6 DEF Cell
      <4> QED
        BY <3>0, <3>q, <4>7
    <3> QED
      BY <3>1, <3>2, <3>3
  <2>5. \A j \in i..n : j \in B
    <3>1. B \in SUBSET (0..n) /\ i \in B
      BY <2>0, <2>3, <2>k
    <3> HIDE DEF B
    <3> QED
      BY <1>0, <2>0, <2>4, <3>1, FromOn
  <2>6. n \in i..n
    BY <1>0, <2>0
  <2> QED
    BY <2>2, <2>5, <2>6
<1> QED
  BY <1>0, <1>2, <1>3, <1>4, <1>5, <1>p DEF SweptRight

-----------------------------------------------------------------------------
(* Union, intersection and difference.                                     *)

Depth(c, i, u, w) == (IF c[i] % 2 = 1 THEN u ELSE 0) + (IF (i - c[i]) % 2 = 1 THEN w ELSE 0)

LEMMA DepthIs ==
    ASSUME NEW s \in Seq(Nat), NEW t \in Seq(Nat),
           NEW u \in {1, -1}, NEW v \in {1, -1}, u + v = 0,
           NEW w \in {1, -1}, NEW y \in {1, -1}, w + y = 0,
           NEW c, NEW E, Merges(c, E, Events(s, u, v), Events(t, w, y)), NEW cross
    PROVE  \A i \in 0..Len(E) : Sweep(E, cross)[i].z = Depth(c, i, u, w)
<1>p. PICK n, g, es, fs : n = Len(E) /\ g = Sweep(E, cross) /\ es = Events(s, u, v) /\ fs = Events(t, w, y)
  OBVIOUS
<1>u. u \in Int /\ v \in Int /\ w \in Int /\ y \in Int
  OBVIOUS
<1>e. /\ es \in Seq(Step) /\ Len(es) = Len(s)
      /\ \A i \in 1..Len(es) : es[i] = <<s[i], IF i % 2 = 1 THEN u ELSE v>>
  BY <1>p, <1>u, EventsAre
<1>f. /\ fs \in Seq(Step) /\ Len(fs) = Len(t)
      /\ \A i \in 1..Len(fs) : fs[i] = <<t[i], IF i % 2 = 1 THEN w ELSE y>>
  BY <1>p, <1>u, EventsAre
<1>m. Merges(c, E, es, fs)
  BY <1>p
<1>0. n \in Nat /\ E \in Seq(Step) /\ Counts(c, n) /\ n = Len(es) + Len(fs)
  BY <1>e, <1>f, <1>m, <1>p DEF Merges
<1>1. /\ g[0] = [z |-> 0, out |-> <<>>]
      /\ \A i \in 1..n : g[i] = NextSwept(g[i-1], E[i], cross)
  BY <1>0, <1>p, SweepRuns
<1>2. \A i \in 1..n : g[i].z = g[i-1].z + E[i][2]
  <2> TAKE i \in 1..n
  <2>1. g[i] = NextSwept(g[i-1], E[i], cross)
    BY <1>1
  <2> QED
    BY <2>1 DEF NextSwept
<1>3. \A i \in 1..n : \/ c[i] = c[i-1] + 1 /\ c[i] \in 1..Len(es) /\ E[i] = es[c[i]]
                      \/ c[i] = c[i-1] /\ i - c[i] \in 1..Len(fs) /\ E[i] = fs[i - c[i]]
  BY <1>0, <1>m DEF Merges
<1>4. \A i \in 0..n : c[i] \in Nat /\ i - c[i] \in Nat
  BY <1>0, CountsRest
<1> DEFINE B == {i \in 0..n : g[i].z = Depth(c, i, u, w)}
<1>5. g[0].z = Depth(c, 0, u, w)
  <2>1. c[0] = 0
    BY <1>0 DEF Counts
  <2> QED
    BY <1>1, <2>1 DEF Depth
<1>6. ASSUME NEW i \in 1..n, i - 1 \in B PROVE i \in B
  <2>0. i - 1 \in 0..n /\ i \in 0..n
    BY <1>0
  <2>1. c[i] \in Nat /\ i - c[i] \in Nat /\ c[i-1] \in Nat /\ (i-1) - c[i-1] \in Nat
    BY <1>4, <2>0
  <2>2. g[i-1].z = Depth(c, i - 1, u, w) /\ g[i].z = g[i-1].z + E[i][2]
    BY <1>2, <1>6
  <2>3. CASE c[i] = c[i-1] + 1 /\ c[i] \in 1..Len(es) /\ E[i] = es[c[i]]
    <3>1. E[i][2] = IF c[i] % 2 = 1 THEN u ELSE v
      BY <1>e, <2>3
    <3>2. i - c[i] = (i-1) - c[i-1]
      BY <2>1, <2>3
    <3>3. c[i-1] % 2 \in {0, 1} /\ c[i] % 2 = 1 - (c[i-1] % 2)
      BY <2>1, <2>3, Parity
    <3>4. g[i].z = Depth(c, i, u, w)
      <4>1. Depth(c, i, u, w) = Depth(c, i - 1, u, w) + IF c[i] % 2 = 1 THEN u ELSE v
        <5>1. PICK b : b = IF (i - c[i]) % 2 = 1 THEN w ELSE 0
          OBVIOUS
        <5>2. b \in Int
          BY <1>u, <5>1
        <5>3. Depth(c, i, u, w) = (IF c[i] % 2 = 1 THEN u ELSE 0) + b
          BY <5>1 DEF Depth
        <5>4. Depth(c, i - 1, u, w) = (IF c[i-1] % 2 = 1 THEN u ELSE 0) + b
          BY <3>2, <5>1 DEF Depth
        <5> QED
          BY <1>u, <3>3, <5>2, <5>3, <5>4
      <4> QED
        BY <2>2, <3>1, <4>1
    <3> QED
      BY <2>0, <3>4
  <2>4. CASE c[i] = c[i-1] /\ i - c[i] \in 1..Len(fs) /\ E[i] = fs[i - c[i]]
    <3>p. PICK k, l : k = i - c[i] /\ l = (i-1) - c[i-1]
      OBVIOUS
    <3>1. E[i][2] = IF k % 2 = 1 THEN w ELSE y
      BY <1>f, <2>4, <3>p
    <3>2. k \in Nat /\ l \in Nat /\ k = l + 1
      BY <2>1, <2>4, <3>p
    <3>3. l % 2 \in {0, 1} /\ k % 2 = 1 - (l % 2)
      BY <3>2, Parity
    <3>4. g[i].z = Depth(c, i, u, w)
      <4>1. Depth(c, i, u, w) = Depth(c, i - 1, u, w) + IF k % 2 = 1 THEN w ELSE y
        <5>1. PICK b : b = IF c[i] % 2 = 1 THEN u ELSE 0
          OBVIOUS
        <5>2. b \in Int
          BY <1>u, <5>1
        <5>3. Depth(c, i, u, w) = b + (IF k % 2 = 1 THEN w ELSE 0)
          BY <3>p, <5>1 DEF Depth
        <5>4. Depth(c, i - 1, u, w) = b + (IF l % 2 = 1 THEN w ELSE 0)
          BY <2>4, <3>p, <5>1 DEF Depth
        <5>5. CASE k % 2 = 1
          BY <1>u, <3>3, <5>2, <5>3, <5>4, <5>5
        <5>6. CASE k % 2 = 0
          <6>1. l % 2 = 1
            BY <3>3, <5>6
          <6> QED
            BY <1>u, <5>2, <5>3, <5>4, <5>6, <6>1
        <5> QED
          BY <3>3, <5>5, <5>6
      <4> QED
        BY <2>2, <3>1, <4>1
    <3> QED
      BY <2>0, <3>4
  <2> QED
    BY <1>3, <2>3, <2>4
<1>7. \A i \in 0..n : i \in B
  <2>1. B \in SUBSET (0..n) /\ 0 \in 0..n /\ 0 \in B
    BY <1>0, <1>5
  <2>2. \A i \in (0+1)..n : i - 1 \in B => i \in B
    BY <1>6
  <2> HIDE DEF B
  <2> QED
    BY <1>0, <2>1, <2>2, FromOn
<1> QED
  BY <1>7, <1>p

(* What a set whose marks are u and one whose marks are w weigh at x.      *)
Weight(A, B, x, u, w) == (IF x \in A THEN u ELSE 0) + (IF x \in B THEN w ELSE 0)

(* The list of crossings of T has x in an odd cell if the weight is T.     *)
Weighs(q, A, B, u, w, T) ==
    \A x \in Nat : \E k : Cell(q, k, x) /\ (k % 2 = 1 <=> Weight(A, B, x, u, w) >= T)

Swept2(s, u, v, t, w, y, T) ==
    Crossings(Merge(Events(s, u, v), Events(t, w, y)), Crosses(T))

CrossingsRight(q, A, B, u, w, T) ==
    q \in Seq(Nat) /\ Sorted(q) /\ Len(q) % 2 = 0 /\ Weighs(q, A, B, u, w, T)

LEMMA CrossingsWeigh ==
    ASSUME NEW s \in Seq(Nat), NEW t \in Seq(Nat),
           Rising(s), Len(s) % 2 = 0, Rising(t), Len(t) % 2 = 0,
           NEW u \in {1, -1}, NEW v \in {1, -1}, u + v = 0,
           NEW w \in {1, -1}, NEW y \in {1, -1}, w + y = 0, NEW T \in Nat \ {0}
    PROVE  CrossingsRight(Swept2(s, u, v, t, w, y, T), AsSet(s), AsSet(t), u, w, T)
<1>p. PICK E, es, fs : E = Merge(es, fs) /\ es = Events(s, u, v) /\ fs = Events(t, w, y)
  OBVIOUS
<1>a. PICK q : q = Swept2(s, u, v, t, w, y, T)
  OBVIOUS
<1>b. q = Crossings(E, Crosses(T))
  BY <1>a, <1>p DEF Swept2
<1>u. u \in Int /\ v \in Int /\ w \in Int /\ y \in Int
  OBVIOUS
<1>e. /\ es \in Seq(Step) /\ Len(es) = Len(s) /\ InOrder(es)
      /\ \A i \in 1..Len(s) : es[i] = <<s[i], IF i % 2 = 1 THEN u ELSE v>>
  BY <1>p, <1>u, EventsAre
<1>f. /\ fs \in Seq(Step) /\ Len(fs) = Len(t) /\ InOrder(fs)
      /\ \A i \in 1..Len(t) : fs[i] = <<t[i], IF i % 2 = 1 THEN w ELSE y>>
  BY <1>p, <1>u, EventsAre
<1>m. PICK c : Merges(c, E, es, fs)
  BY <1>e, <1>f, <1>p, MergeMerges
<1>q. PICK n, g : n = Len(E) /\ g = Sweep(E, Crosses(T))
  OBVIOUS
<1>0. /\ n \in Nat /\ E \in Seq(Step) /\ Counts(c, n) /\ n = Len(s) + Len(t) /\ c[n] = Len(s)
      /\ Len(s) \in Nat /\ Len(t) \in Nat /\ n \in 0..n
  BY <1>e, <1>f, <1>m, <1>q DEF Merges
<1>1. InOrder(E)
  BY <1>e, <1>f, <1>m, MergeOrdered
<1>2. UpDown(E)
  <2>1. ASSUME NEW i \in 1..n PROVE E[i][2] \in {1, -1}
    <3>1. \/ c[i] \in 1..Len(s) /\ E[i] = es[c[i]]
          \/ i - c[i] \in 1..Len(t) /\ E[i] = fs[i - c[i]]
      BY <1>0, <1>e, <1>f, <1>m DEF Merges
    <3> QED
      BY <1>e, <1>f, <3>1
  <2> QED
    BY <1>q, <2>1 DEF UpDown
<1>3. \A i \in 0..n : g[i].z = Depth(c, i, u, w)
  BY <1>m, <1>p, <1>q, DepthIs
<1>4. /\ q \in Seq(Nat) /\ Sorted(q)
      /\ Len(q) % 2 = 1 <=> g[n].z >= T
      /\ \A x \in Nat : \A i : Passes(E, i, x) => \E k : Cell(q, k, x) /\ (k % 2 = 1 <=> g[i].z >= T)
  BY <1>0, <1>1, <1>2, <1>b, <1>q, SweepCells
<1>5. Len(q) % 2 = 0
  <2>1. n - c[n] = Len(t)
    BY <1>0
  <2>a. ~(c[n] % 2 = 1) /\ ~((n - c[n]) % 2 = 1)
    BY <1>0, <2>1
  <2>2. Depth(c, n, u, w) = 0
    BY <2>a DEF Depth
  <2>b. g[n].z = 0
    BY <1>0, <1>3, <2>2
  <2>c. ~(g[n].z >= T)
    BY <2>b
  <2>3. ~(Len(q) % 2 = 1)
    BY <1>4, <2>c
  <2>4. Len(q) \in Nat
    BY <1>4
  <2> QED
    BY <2>3, <2>4, Parity
<1>6. ASSUME NEW x \in Nat
      PROVE  \E k : Cell(q, k, x) /\ (k % 2 = 1 <=> Weight(AsSet(s), AsSet(t), x, u, w) >= T)
  <2>1. PICK i : Passes(E, i, x)
    BY <1>0, <1>1, PassesSomewhere
  <2>2. i \in 0..n
    BY <1>q, <2>1 DEF Passes
  <2>3. PICK k : Cell(q, k, x) /\ (k % 2 = 1 <=> g[i].z >= T)
    BY <1>4, <2>1
  <2>4. Cell(s, c[i], x) /\ Cell(t, i - c[i], x)
    <3>1. StepsAt(es, s) /\ StepsAt(fs, t)
      BY <1>e, <1>f DEF StepsAt
    <3> QED
      BY <1>e, <1>f, <1>m, <2>1, <3>1, PassesCells
  <2>5. (x \in AsSet(s) <=> c[i] % 2 = 1) /\ (x \in AsSet(t) <=> (i - c[i]) % 2 = 1)
    BY <2>4, CellDecides
  <2>6. g[i].z = Weight(AsSet(s), AsSet(t), x, u, w)
    BY <1>3, <2>2, <2>5 DEF Weight, Depth
  <2> QED
    BY <2>3, <2>6
<1> QED
  BY <1>4, <1>5, <1>6, <1>a DEF Weighs, CrossingsRight

RangeSets == {a \in [data : Seq(Nat), monotonic : BOOLEAN] : Canonical(a.data)}

LEMMA RangeSetIs ==
    ASSUME NEW a \in RangeSets
    PROVE  /\ a.data \in Seq(Nat) /\ Canonical(a.data) /\ Rising(a.data) /\ Len(a.data) % 2 = 0
           /\ a.monotonic \in BOOLEAN /\ a = [data |-> a.data, monotonic |-> a.monotonic]
           /\ AsSet(a.data) \subseteq Nat /\ Len(a.data) \in Nat
<1>1. a.data \in Seq(Nat) /\ Canonical(a.data) /\ a.monotonic \in BOOLEAN
      /\ a = [data |-> a.data, monotonic |-> a.monotonic]
  BY DEF RangeSets
<1>2. Rising(a.data) /\ Len(a.data) % 2 = 0
  BY <1>1, CanonicalRises DEF Canonical
<1>3. \A x \in AsSet(a.data) : x \in Nat
  BY <1>1, <1>2, InOddCell
<1>4. Len(a.data) \in Nat
  BY <1>1
<1> QED
  BY <1>1, <1>2, <1>3, <1>4

LEMMA FromDataRight ==
    ASSUME NEW s \in Seq(Nat), Sorted(s), Len(s) % 2 = 0
    PROVE  /\ FromData(s) \in RangeSets
           /\ \A x \in Nat : \A k : Cell(s, k, x) => (x \in AsSet(FromData(s).data) <=> k % 2 = 1)
<1>p. PICK q : q = RemovePairs(s)
  OBVIOUS
<1>1. /\ q \in Seq(Nat) /\ Rising(q) /\ Len(q) % 2 = 0
      /\ \A x \in Nat : \A k : Cell(s, k, x) => \E j : Cell(q, j, x) /\ j % 2 = k % 2
  BY <1>p, PairsRemoved
<1>2. Canonical(q)
  BY <1>1, RisingIsCanonical
<1>3. FromData(s).data = q /\ FromData(s).monotonic \in BOOLEAN
      /\ FromData(s) = [data |-> q, monotonic |-> FromData(s).monotonic]
  BY <1>p DEF FromData
<1>4. FromData(s) \in RangeSets
  BY <1>1, <1>2, <1>3 DEF RangeSets
<1>5. ASSUME NEW x \in Nat, NEW k, Cell(s, k, x)
      PROVE  x \in AsSet(q) <=> k % 2 = 1
  <2>1. PICK j : Cell(q, j, x) /\ j % 2 = k % 2
    BY <1>1, <1>5
  <2>2. x \in AsSet(q) <=> j % 2 = 1
    BY <1>1, <2>1, CellDecides
  <2> QED
    BY <2>1, <2>2
<1> QED
  BY <1>3, <1>4, <1>5

ResultRight(r, A, B, u, w, T) ==
    /\ r \in RangeSets
    /\ \A x : x \in AsSet(r.data) <=> x \in Nat /\ Weight(A, B, x, u, w) >= T

LEMMA OperationRight ==
    ASSUME NEW a \in RangeSets, NEW b \in RangeSets,
           NEW u \in {1, -1}, NEW v \in {1, -1}, u + v = 0,
           NEW w \in {1, -1}, NEW y \in {1, -1}, w + y = 0, NEW T \in Nat \ {0}
    PROVE  ResultRight(FromData(Swept2(a.data, u, v, b.data, w, y, T)),
                       AsSet(a.data), AsSet(b.data), u, w, T)
<1>p. PICK s, t, q, r : s = a.data /\ t = b.data /\ q = Swept2(s, u, v, t, w, y, T) /\ r = FromData(q)
  OBVIOUS
<1>1. /\ s \in Seq(Nat) /\ Rising(s) /\ Len(s) % 2 = 0
      /\ t \in Seq(Nat) /\ Rising(t) /\ Len(t) % 2 = 0
  BY <1>p, RangeSetIs
<1>2. /\ q \in Seq(Nat) /\ Sorted(q) /\ Len(q) % 2 = 0
      /\ Weighs(q, AsSet(s), AsSet(t), u, w, T)
  <2>1. CrossingsRight(q, AsSet(s), AsSet(t), u, w, T)
    <3>1. CrossingsRight(Swept2(s, u, v, t, w, y, T), AsSet(s), AsSet(t), u, w, T)
      BY <1>1, CrossingsWeigh
    <3> QED
      BY <1>p, <3>1
  <2> QED
    BY <2>1 DEF CrossingsRight
<1>3. r = FromData(q)
  BY <1>p
<1>4. /\ r \in RangeSets
      /\ \A x \in Nat : \A k : Cell(q, k, x) => (x \in AsSet(r.data) <=> k % 2 = 1)
  BY <1>2, <1>3, FromDataRight
<1>5. AsSet(r.data) \subseteq Nat
  BY <1>4, RangeSetIs
<1>6. ASSUME NEW x \in Nat
      PROVE  x \in AsSet(r.data) <=> Weight(AsSet(s), AsSet(t), x, u, w) >= T
  <2>1. PICK k : Cell(q, k, x) /\ (k % 2 = 1 <=> Weight(AsSet(s), AsSet(t), x, u, w) >= T)
    BY <1>2 DEF Weighs
  <2> QED
    BY <1>4, <2>1
<1> QED
  BY <1>4, <1>5, <1>6, <1>p DEF ResultRight

LEMMA UnionRight ==
    ASSUME NEW a \in RangeSets, NEW b \in RangeSets
    PROVE  Union(a, b) \in RangeSets /\ AsSet(Union(a, b).data) = AsSet(a.data) \cup AsSet(b.data)
<1>0. InOne = Crosses(1) /\ 1 \in {1, -1} /\ -1 \in {1, -1} /\ 1 + (-1) = 0 /\ -1 + 1 = 0
      /\ 1 \in Nat \ {0}
  BY DEF InOne, Crosses
<1>1. PICK A, B, r : A = AsSet(a.data) /\ B = AsSet(b.data) /\ r = Union(a, b)
  OBVIOUS
<1>2. r = FromData(Swept2(a.data, 1, -1, b.data, 1, -1, 1))
  BY <1>0, <1>1 DEF Union, Swept2
<1>3. ResultRight(r, A, B, 1, 1, 1)
  BY <1>0, <1>1, <1>2, OperationRight
<1>4. A \subseteq Nat /\ B \subseteq Nat
  BY <1>1, RangeSetIs
<1>5. \A x : x \in AsSet(r.data) <=> x \in A \cup B
  <2> TAKE x
  <2>1. x \in AsSet(r.data) <=> x \in Nat /\ (IF x \in A THEN 1 ELSE 0) + (IF x \in B THEN 1 ELSE 0) >= 1
    BY <1>3 DEF ResultRight, Weight
  <2>2. CASE x \in A /\ x \in B
    BY <1>4, <2>1, <2>2
  <2>3. CASE x \in A /\ x \notin B
    BY <1>4, <2>1, <2>3
  <2>4. CASE x \notin A /\ x \in B
    BY <1>4, <2>1, <2>4
  <2>5. CASE x \notin A /\ x \notin B
    BY <1>4, <2>1, <2>5
  <2> QED
    BY <2>2, <2>3, <2>4, <2>5
<1> QED
  BY <1>1, <1>3, <1>5 DEF ResultRight

LEMMA IntersectRight ==
    ASSUME NEW a \in RangeSets, NEW b \in RangeSets
    PROVE  Intersect(a, b) \in RangeSets /\ AsSet(Intersect(a, b).data) = AsSet(a.data) \cap AsSet(b.data)
<1>0. InBoth = Crosses(2) /\ 1 \in {1, -1} /\ -1 \in {1, -1} /\ 1 + (-1) = 0 /\ -1 + 1 = 0
      /\ 2 \in Nat \ {0}
  BY DEF InBoth, Crosses
<1>1. PICK A, B, r : A = AsSet(a.data) /\ B = AsSet(b.data) /\ r = Intersect(a, b)
  OBVIOUS
<1>2. r = FromData(Swept2(a.data, 1, -1, b.data, 1, -1, 2))
  BY <1>0, <1>1 DEF Intersect, Swept2
<1>3. ResultRight(r, A, B, 1, 1, 2)
  BY <1>0, <1>1, <1>2, OperationRight
<1>4. A \subseteq Nat /\ B \subseteq Nat
  BY <1>1, RangeSetIs
<1>5. \A x : x \in AsSet(r.data) <=> x \in A \cap B
  <2> TAKE x
  <2>1. x \in AsSet(r.data) <=> x \in Nat /\ (IF x \in A THEN 1 ELSE 0) + (IF x \in B THEN 1 ELSE 0) >= 2
    BY <1>3 DEF ResultRight, Weight
  <2>2. CASE x \in A /\ x \in B
    BY <1>4, <2>1, <2>2
  <2>3. CASE x \in A /\ x \notin B
    BY <1>4, <2>1, <2>3
  <2>4. CASE x \notin A /\ x \in B
    BY <1>4, <2>1, <2>4
  <2>5. CASE x \notin A /\ x \notin B
    BY <1>4, <2>1, <2>5
  <2> QED
    BY <2>2, <2>3, <2>4, <2>5
<1> QED
  BY <1>1, <1>3, <1>5 DEF ResultRight

LEMMA SubtractRight ==
    ASSUME NEW a \in RangeSets, NEW b \in RangeSets
    PROVE  Subtract(a, b) \in RangeSets /\ AsSet(Subtract(a, b).data) = AsSet(a.data) \ AsSet(b.data)
<1>0. InOne = Crosses(1) /\ 1 \in {1, -1} /\ -1 \in {1, -1} /\ 1 + (-1) = 0 /\ -1 + 1 = 0
      /\ 1 \in Nat \ {0}
  BY DEF InOne, Crosses
<1>1. PICK A, B, r : A = AsSet(a.data) /\ B = AsSet(b.data) /\ r = Subtract(a, b)
  OBVIOUS
<1>2. r = FromData(Swept2(a.data, 1, -1, b.data, -1, 1, 1))
  BY <1>0, <1>1 DEF Subtract, Swept2
<1>3. ResultRight(r, A, B, 1, -1, 1)
  BY <1>0, <1>1, <1>2, OperationRight
<1>4. A \subseteq Nat /\ B \subseteq Nat
  BY <1>1, RangeSetIs
<1>5. \A x : x \in AsSet(r.data) <=> x \in A \ B
  <2> TAKE x
  <2>1. x \in AsSet(r.data) <=> x \in Nat /\ (IF x \in A THEN 1 ELSE 0) + (IF x \in B THEN -1 ELSE 0) >= 1
    BY <1>3 DEF ResultRight, Weight
  <2>2. CASE x \in A /\ x \in B
    BY <1>4, <2>1, <2>2
  <2>3. CASE x \in A /\ x \notin B
    BY <1>4, <2>1, <2>3
  <2>4. CASE x \notin A /\ x \in B
    BY <1>4, <2>1, <2>4
  <2>5. CASE x \notin A /\ x \notin B
    BY <1>4, <2>1, <2>5
  <2> QED
    BY <2>2, <2>3, <2>4, <2>5
<1> QED
  BY <1>1, <1>3, <1>5 DEF ResultRight

-----------------------------------------------------------------------------
(* Overlaps.                                                               *)

(* Where the sweep over two sets is when it passes x.                      *)
LEMMA DepthAtPass ==
    ASSUME NEW s \in Seq(Nat), NEW t \in Seq(Nat),
           Rising(s), Len(s) % 2 = 0, Rising(t), Len(t) % 2 = 0,
           NEW u \in Int, NEW v \in Int, NEW w \in Int, NEW y \in Int,
           NEW c, NEW E, Merges(c, E, Events(s, u, v), Events(t, w, y)),
           NEW x \in Nat, NEW i, Passes(E, i, x)
    PROVE  /\ x \in AsSet(s) <=> c[i] % 2 = 1
           /\ x \in AsSet(t) <=> (i - c[i]) % 2 = 1
<1>p. PICK es, fs : es = Events(s, u, v) /\ fs = Events(t, w, y)
  OBVIOUS
<1>e. /\ es \in Seq(Step) /\ Len(es) = Len(s)
      /\ \A j \in 1..Len(s) : es[j] = <<s[j], IF j % 2 = 1 THEN u ELSE v>>
  BY <1>p, EventsAre
<1>f. /\ fs \in Seq(Step) /\ Len(fs) = Len(t)
      /\ \A j \in 1..Len(t) : fs[j] = <<t[j], IF j % 2 = 1 THEN w ELSE y>>
  BY <1>p, EventsAre
<1>1. StepsAt(es, s) /\ StepsAt(fs, t)
  BY <1>e, <1>f DEF StepsAt
<1>2. Cell(s, c[i], x) /\ Cell(t, i - c[i], x)
  BY <1>e, <1>f, <1>p, <1>1, PassesCells
<1> QED
  BY <1>2, CellDecides

LEMMA OverlapsRight ==
    ASSUME NEW a \in RangeSets, NEW b \in RangeSets
    PROVE  Overlaps(a, b) <=> AsSet(a.data) \cap AsSet(b.data) # {}
<1>p. PICK s, t, es, fs, E : /\ s = a.data /\ t = b.data /\ es = Events(s, 1, -1)
                             /\ fs = Events(t, 1, -1) /\ E = Merge(es, fs)
  OBVIOUS
<1>u. 1 \in {1, -1} /\ -1 \in {1, -1} /\ 1 + (-1) = 0 /\ 1 \in Int /\ -1 \in Int /\ 2 \in Nat \ {0}
      /\ InBoth = Crosses(2)
  BY DEF InBoth, Crosses
<1>1. /\ s \in Seq(Nat) /\ Rising(s) /\ Len(s) % 2 = 0 /\ AsSet(s) \subseteq Nat
      /\ t \in Seq(Nat) /\ Rising(t) /\ Len(t) % 2 = 0
  BY <1>p, RangeSetIs
<1>e. /\ es \in Seq(Step) /\ Len(es) = Len(s) /\ InOrder(es)
      /\ \A i \in 1..Len(s) : es[i] = <<s[i], IF i % 2 = 1 THEN 1 ELSE -1>>
  BY <1>1, <1>p, <1>u, EventsAre
<1>f. /\ fs \in Seq(Step) /\ Len(fs) = Len(t) /\ InOrder(fs)
      /\ \A i \in 1..Len(t) : fs[i] = <<t[i], IF i % 2 = 1 THEN 1 ELSE -1>>
  BY <1>1, <1>p, <1>u, EventsAre
<1>m. PICK c : Merges(c, E, es, fs)
  BY <1>e, <1>f, <1>p, MergeMerges
<1>q. PICK n, g, q : n = Len(E) /\ g = Sweep(E, Crosses(2)) /\ q = Crossings(E, Crosses(2))
  OBVIOUS
<1>2. /\ n \in Nat /\ E \in Seq(Step) /\ Counts(c, n) /\ n = Len(s) + Len(t) /\ c[n] = Len(s)
      /\ Len(s) \in Nat /\ Len(t) \in Nat
  BY <1>e, <1>f, <1>m, <1>q DEF Merges
<1>3. InOrder(E)
  BY <1>e, <1>f, <1>m, MergeOrdered
<1>4. CrossingsRight(q, AsSet(s), AsSet(t), 1, 1, 2)
  <2>1. CrossingsRight(Swept2(s, 1, -1, t, 1, -1, 2), AsSet(s), AsSet(t), 1, 1, 2)
    BY <1>1, <1>u, CrossingsWeigh
  <2> QED
    BY <1>p, <1>q, <2>1 DEF Swept2
<1>5. q \in Seq(Nat) /\ Weighs(q, AsSet(s), AsSet(t), 1, 1, 2)
  BY <1>4 DEF CrossingsRight
<1>6. Overlaps(a, b) <=> q # <<>>
  BY <1>p, <1>q, <1>u DEF Overlaps
<1>7. ASSUME NEW x \in AsSet(s) \cap AsSet(t) PROVE q # <<>>
  <2>1. x \in Nat
    BY <1>1
  <2>2. PICK k : Cell(q, k, x) /\ (k % 2 = 1 <=> Weight(AsSet(s), AsSet(t), x, 1, 1) >= 2)
    BY <1>5, <2>1 DEF Weighs
  <2>3. k % 2 = 1
    BY <1>7, <2>2 DEF Weight
  <2>4. k \in 0..Len(q)
    BY <2>2 DEF Cell
  <2> QED
    BY <2>3, <2>4
<1>8. ASSUME q # <<>> PROVE AsSet(s) \cap AsSet(t) # {}
  <2>1. /\ g[0] = [z |-> 0, out |-> <<>>]
        /\ \A i \in 1..n : g[i] = NextSwept(g[i-1], E[i], Crosses(2))
    BY <1>2, <1>q, SweepRuns
  <2>d. \A i \in 0..n : g[i].z = Depth(c, i, 1, 1)
    BY <1>1, <1>m, <1>p, <1>q, <1>u, DepthIs
  <2>2. \A i \in 0..n : g[i].z \in {0, 1, 2}
    BY <2>d DEF Depth
  <2>3. g[n].z = 0
    <3>1. c[n] % 2 = 0 /\ (n - c[n]) % 2 = 0 /\ n \in 0..n
      BY <1>1, <1>2
    <3> QED
      BY <2>d, <3>1 DEF Depth
  <2> DEFINE S == {i \in 0..n : g[i].out # <<>>}
  <2>4. n \in S
    BY <1>2, <1>8, <1>q DEF Crossings
  <2>5. PICK i \in S : \A k \in S : i <= k
    <3>1. S \in SUBSET Nat /\ S # {}
      BY <1>2, <2>4
    <3> HIDE DEF S
    <3> QED
      BY <3>1, LeastNat
  <2>6. i \in 1..n /\ i - 1 \in 0..n /\ g[i].out # <<>> /\ i \in 0..n
    BY <1>2, <2>1, <2>5
  <2>7. g[i-1].out = <<>>
    BY <1>2, <2>5, <2>6
  <2>8. g[i] = NextSwept(g[i-1], E[i], Crosses(2))
    BY <2>1, <2>6
  <2>9. <<g[i-1].z, E[i][2]>> \in Crosses(2)
    BY <2>6, <2>7, <2>8 DEF NextSwept
  <2>10. g[i].z = g[i-1].z + E[i][2]
    BY <2>8 DEF NextSwept
  <2>11. E[i][2] = 1 /\ g[i].z = 2
    <3>1. CASE g[i-1].z = 1 /\ E[i][2] = 1
      BY <2>10, <3>1
    <3>2. CASE g[i-1].z = 2 /\ E[i][2] = -1
      <4>1. InOrder(E) /\ UpDown(E)
        <5>1. ASSUME NEW j \in 1..n PROVE E[j][2] \in {1, -1}
          <6>1. \/ c[j] \in 1..Len(s) /\ E[j] = es[c[j]]
                \/ j - c[j] \in 1..Len(t) /\ E[j] = fs[j - c[j]]
            BY <1>2, <1>e, <1>f, <1>m DEF Merges
          <6> QED
            BY <1>e, <1>f, <6>1
        <5> QED
          BY <1>3, <1>q, <5>1 DEF UpDown
      <4>2. SweptRight(g[i-1], E, i - 1, 2)
        BY <1>2, <1>q, <1>u, <2>6, <4>1, SweptAlways DEF SweepAlways
      <4>p. PICK l : l = Len(g[i-1].out)
        OBVIOUS
      <4>3. l = 0
        BY <2>7, <4>p
      <4>4. g[i-1].z >= 2
        BY <3>2
      <4>5. l % 2 = 1
        BY <4>2, <4>4, <4>p DEF SweptRight
      <4> QED
        BY <4>3, <4>5
    <3> QED
      BY <2>9, <3>1, <3>2 DEF Crosses
  <2>12. PICK x : x = E[i][1]
    OBVIOUS
  <2>13. x \in Nat /\ E[i] \in Step /\ E[i] = <<x, 1>>
    <3>1. E[i] \in Step
      BY <1>2, <1>q, <2>6
    <3> QED
      BY <2>11, <2>12, <3>1 DEF Step
  <2>14. i # n
    BY <2>3, <2>11
  <2>15. i + 1 \in 1..n /\ i + 1 \in 0..n /\ i < i + 1
    BY <1>2, <2>6, <2>14
  <2>16. Leq(E[i], E[i+1]) /\ E[i+1] \in Step
    BY <1>2, <1>3, <1>q, <2>6, <2>15 DEF InOrder
  <2>17. E[i+1][2] <= 0
    <3>1. g[i+1] = NextSwept(g[i], E[i+1], Crosses(2))
      <4>1. (i + 1) - 1 = i
        BY <2>6
      <4> QED
        BY <2>1, <2>15, <4>1
    <3>2. g[i+1].z = g[i].z + E[i+1][2]
      BY <3>1 DEF NextSwept
    <3>3. E[i+1][2] \in Int
      BY <2>16 DEF Step
    <3> QED
      BY <2>2, <2>11, <2>15, <3>2, <3>3
  <2>18. x < E[i+1][1]
    BY <2>11, <2>12, <2>16, <2>17 DEF Leq, Step
  <2>19. Passes(E, i, x)
    <3>1. \A j \in 1..i : E[j][1] <= x
      <4> TAKE j \in 1..i
      <4>1. j \in 1..n /\ (j = i \/ j < i)
        BY <1>2, <2>6
      <4>2. j = i \/ Leq(E[j], E[i])
        BY <1>3, <1>q, <2>6, <4>1 DEF InOrder
      <4>3. E[j] \in Step
        BY <1>2, <1>q, <4>1
      <4> QED
        BY <2>12, <2>13, <4>2, <4>3 DEF Leq, Step
    <3>2. \A j \in (i+1)..n : x < E[j][1]
      <4> TAKE j \in (i+1)..n
      <4>1. j \in 1..n /\ (j = i + 1 \/ i + 1 < j)
        BY <1>2, <2>6
      <4>2. j = i + 1 \/ Leq(E[i+1], E[j])
        BY <1>3, <1>q, <2>15, <4>1 DEF InOrder
      <4>3. E[j] \in Step
        BY <1>2, <1>q, <4>1
      <4> QED
        BY <2>13, <2>16, <2>18, <4>2, <4>3 DEF Leq, Step
    <3> QED
      BY <1>q, <2>6, <3>1, <3>2 DEF Passes
  <2>20. (x \in AsSet(s) <=> c[i] % 2 = 1) /\ (x \in AsSet(t) <=> (i - c[i]) % 2 = 1)
    <3>1. Merges(c, E, Events(s, 1, -1), Events(t, 1, -1))
      BY <1>m, <1>p
    <3> QED
      BY <1>1, <1>u, <2>13, <2>19, <3>1, DepthAtPass
  <2>21. g[i].z = Depth(c, i, 1, 1)
    BY <2>6, <2>d
  <2>22. c[i] % 2 = 1 /\ (i - c[i]) % 2 = 1
    BY <2>11, <2>21 DEF Depth
  <2> QED
    BY <2>20, <2>22
<1> QED
  BY <1>6, <1>7, <1>8, <1>p

-----------------------------------------------------------------------------
(* How many numbers of a set are below another number.                     *)

Below(A, p) == Cardinality({y \in A : y < p})
Gap(A, p, q) == \A y \in p..(q - 1) : y \notin A
Full(A, p, q) == \A y \in p..(q - 1) : y \in A

LEMMA BelowFinite ==
    ASSUME NEW A \in SUBSET Nat, NEW p \in Nat
    PROVE  IsFiniteSet({y \in A : y < p}) /\ Below(A, p) \in Nat
<1>0. \A y \in A : y \in Nat
  OBVIOUS
<1>1. {y \in A : y < p} \in SUBSET (0..p)
  <2>1. \A y \in A : y < p => y \in 0..p
    BY <1>0
  <2> QED
    BY <2>1
<1>2. IsFiniteSet({y \in A : y < p})
  <2>1. 0 \in Int /\ p \in Int
    OBVIOUS
  <2>2. IsFiniteSet(0..p)
    BY <2>1, FS_Interval
  <2> QED
    BY <1>1, <2>2, FS_Subset
<1> QED
  BY <1>2, FS_CardinalityType DEF Below

LEMMA BelowGrows ==
    ASSUME NEW A \in SUBSET Nat, NEW p \in Nat, NEW q \in Nat, p <= q
    PROVE  /\ Below(A, p) \in Nat /\ Below(A, q) \in Nat /\ Below(A, p) <= Below(A, q)
           /\ Gap(A, p, q) => Below(A, q) = Below(A, p)
           /\ Full(A, p, q) => Below(A, q) = Below(A, p) + (q - p)
<1>p. PICK S, T, W : S = {y \in A : y < p} /\ T = {y \in A : y < q} /\ W = p..(q-1)
  OBVIOUS
<1>1. IsFiniteSet(S) /\ IsFiniteSet(T) /\ Below(A, p) = Cardinality(S) /\ Below(A, q) = Cardinality(T)
      /\ Below(A, p) \in Nat /\ Below(A, q) \in Nat
  BY <1>p, BelowFinite DEF Below
<1>2. S \in SUBSET T
  <2>1. \A y \in A : y \in Nat
    OBVIOUS
  <2>2. \A y \in A : y < p => y < q
    BY <2>1
  <2> QED
    BY <1>p, <2>2
<1>3. Below(A, p) <= Below(A, q)
  BY <1>1, <1>2, FS_Subset
<1>4. ASSUME Gap(A, p, q) PROVE Below(A, q) = Below(A, p)
  <2>1. \A y \in A : y < q => y < p
    <3> TAKE y \in A
    <3>1. y \in Nat /\ (y \in p..(q-1) => y \notin A)
      BY <1>4 DEF Gap
    <3> QED
      BY <3>1
  <2>2. S = T
    BY <1>p, <1>2, <2>1
  <2> QED
    BY <1>1, <2>2
<1>5. ASSUME Full(A, p, q) PROVE Below(A, q) = Below(A, p) + (q - p)
  <2>1. T = S \cup W
    <3>1. \A y \in T : y \in S \cup W
      BY <1>p
    <3>2. \A y \in W : y \in T
      BY <1>5, <1>p DEF Full
    <3> QED
      BY <1>2, <3>1, <3>2
  <2>2. S \cap W = {}
    BY <1>p
  <2>3. IsFiniteSet(W) /\ Cardinality(W) = q - p
    <3>1. p \in Int /\ q - 1 \in Int
      OBVIOUS
    <3>2. IsFiniteSet(W) /\ Cardinality(W) = IF p > q - 1 THEN 0 ELSE (q - 1) - p + 1
      BY <1>p, <3>1, FS_Interval
    <3> QED
      BY <3>2
  <2>4. Cardinality(T) = Cardinality(S) + Cardinality(W) - Cardinality(S \cap W)
    BY <1>1, <2>1, <2>3, FS_Union
  <2>5. Cardinality(S \cap W) = 0
    BY <2>2, FS_EmptySet
  <2> QED
    BY <1>1, <2>3, <2>4, <2>5
<1> QED
  BY <1>1, <1>3, <1>4, <1>5

(* Between two boundaries a set is full or empty.                          *)
LEMMA BetweenBoundaries ==
    ASSUME NEW s \in Seq(Nat), Rising(s), Len(s) % 2 = 0, NEW i \in 1..Len(s)
    PROVE  /\ i % 2 = 1 => i + 1 \in 1..Len(s) /\ Full(AsSet(s), s[i], s[i+1])
           /\ i % 2 = 0 /\ i + 1 <= Len(s) => Gap(AsSet(s), s[i], s[i+1])
           /\ Gap(AsSet(s), 0, s[1])
           /\ \A y \in AsSet(s) : y < s[Len(s)]
<1>p. PICK n, A : n = Len(s) /\ A = AsSet(s)
  OBVIOUS
<1>0. n \in Nat /\ Sorted(s) /\ \A j \in 1..n : s[j] \in Nat
  BY <1>p, RisingIsSorted
<1>a. A \subseteq Nat
  BY <1>p, InOddCell
<1>1. ASSUME NEW k \in 0..n, NEW x \in Nat, k >= 1 => s[k] <= x, k + 1 <= n => x < s[k+1]
      PROVE  x \in A <=> k % 2 = 1
  <2>1. Cell(s, k, x)
    BY <1>0, <1>1, <1>p, CellAt
  <2> QED
    BY <1>p, <2>1, CellDecides
<1>2. ASSUME i % 2 = 1 PROVE i + 1 \in 1..n /\ Full(A, s[i], s[i+1])
  <2>1. i # n
    BY <1>2, <1>p
  <2>2. i + 1 \in 1..n /\ i \in 0..n /\ i \in 1..n
    BY <1>0, <1>p, <2>1
  <2>3. \A y \in s[i]..(s[i+1] - 1) : y \in A
    <3> TAKE y \in s[i]..(s[i+1] - 1)
    <3>1. y \in Nat /\ s[i] <= y /\ y < s[i+1]
      BY <1>0, <2>2
    <3> QED
      BY <1>1, <1>2, <2>2, <3>1
  <2> QED
    BY <2>2, <2>3 DEF Full
<1>3. ASSUME i % 2 = 0, i + 1 <= n PROVE Gap(A, s[i], s[i+1])
  <2>2. i + 1 \in 1..n /\ i \in 0..n /\ i \in 1..n
    BY <1>0, <1>3, <1>p
  <2>3. \A y \in s[i]..(s[i+1] - 1) : y \notin A
    <3> TAKE y \in s[i]..(s[i+1] - 1)
    <3>1. y \in Nat /\ s[i] <= y /\ y < s[i+1] /\ ~(i % 2 = 1)
      BY <1>0, <1>3, <2>2
    <3> QED
      BY <1>1, <2>2, <3>1
  <2> QED
    BY <2>3 DEF Gap
<1>4. Gap(A, 0, s[1])
  <2>1. \A y \in 0..(s[1] - 1) : y \notin A
    <3> TAKE y \in 0..(s[1] - 1)
    <3>1. y \in Nat /\ y < s[1] /\ 0 \in 0..n /\ ~(0 >= 1) /\ 0 + 1 = 1
      BY <1>0, <1>p
    <3>2. y \in A <=> 0 % 2 = 1
      BY <1>1, <3>1
    <3> QED
      BY <3>2
  <2> QED
    BY <2>1 DEF Gap
<1>5. \A y \in A : y < s[n]
  <2>1. ASSUME NEW y \in A, ~(y < s[n]) PROVE FALSE
    <3>1. y \in Nat /\ n \in 0..n /\ s[n] <= y /\ ~(n + 1 <= n)
      BY <1>0, <1>a, <1>p, <2>1
    <3>2. y \in A <=> n % 2 = 1
      BY <1>1, <3>1
    <3> QED
      BY <1>p, <2>1, <3>2
  <2> QED
    BY <2>1
<1> QED
  BY <1>2, <1>3, <1>4, <1>5, <1>p

(* How many numbers are below the i-th boundary.                           *)
BelowAt(s, i) == IF i = 0 THEN 0 ELSE Below(AsSet(s), s[i])

LEMMA BelowSteps ==
    ASSUME NEW s \in Seq(Nat), Rising(s), Len(s) % 2 = 0, NEW i \in 1..Len(s)
    PROVE  /\ s[i] \in Nat /\ BelowAt(s, i) = Below(AsSet(s), s[i])
           /\ BelowAt(s, i) \in Nat /\ BelowAt(s, i - 1) \in Nat
           /\ i % 2 = 1 => BelowAt(s, i) = BelowAt(s, i - 1)
           /\ i % 2 = 0 => i - 1 \in 1..Len(s) /\ s[i-1] \in Nat
                           /\ BelowAt(s, i) = BelowAt(s, i - 1) + (s[i] - s[i-1])
<1>p. PICK n, A : n = Len(s) /\ A = AsSet(s)
  OBVIOUS
<1>0. n \in Nat /\ i \in 1..n /\ \A j \in 1..n : s[j] \in Nat
  BY <1>p
<1>a. A \in SUBSET Nat
  BY <1>p, InOddCell
<1>1. \A j \in 1..n : BelowAt(s, j) = Below(A, s[j]) /\ BelowAt(s, j) \in Nat
  <2> TAKE j \in 1..n
  <2>1. s[j] \in Nat /\ j # 0
    BY <1>0
  <2>2. BelowAt(s, j) = Below(A, s[j])
    BY <1>p, <2>1 DEF BelowAt
  <2> QED
    BY <1>a, <2>1, <2>2, BelowFinite
<1>2. CASE i = 1
  <2>1. Gap(A, 0, s[1]) /\ 0 <= s[1] /\ s[1] \in Nat
    BY <1>0, <1>2, <1>p, BetweenBoundaries
  <2>2. Below(A, s[1]) = Below(A, 0)
    BY <1>a, <2>1, BelowGrows
  <2>3. Below(A, 0) = 0
    <3>0. \A y \in A : y \in Nat
      BY <1>a
    <3>1. {y \in A : y < 0} = {}
      BY <3>0
    <3> QED
      BY <3>1, FS_EmptySet DEF Below
  <2>4. BelowAt(s, i) = 0 /\ BelowAt(s, i - 1) = 0
    BY <1>0, <1>1, <1>2, <2>2, <2>3 DEF BelowAt
  <2> QED
    BY <1>0, <1>1, <1>2, <1>p, <2>4
<1>3. CASE i # 1
  <2>1. i - 1 \in 1..n /\ i - 1 + 1 = i
    BY <1>0, <1>3
  <2>2. s[i-1] \in Nat /\ s[i] \in Nat /\ s[i-1] <= s[i]
    BY <1>0, <1>p, <2>1 DEF Rising
  <2>3. i % 2 = 1 => (i-1) % 2 = 0
    BY <2>1, Parity
  <2>4. i % 2 = 0 => (i-1) % 2 = 1
    BY <2>1, Parity
  <2>5. i % 2 = 1 => Gap(A, s[i-1], s[i])
    BY <1>0, <1>p, <2>1, <2>3, BetweenBoundaries
  <2>6. i % 2 = 0 => Full(A, s[i-1], s[i])
    BY <1>0, <1>p, <2>1, <2>4, BetweenBoundaries
  <2>7. /\ Gap(A, s[i-1], s[i]) => Below(A, s[i]) = Below(A, s[i-1])
        /\ Full(A, s[i-1], s[i]) => Below(A, s[i]) = Below(A, s[i-1]) + (s[i] - s[i-1])
    BY <1>a, <2>2, BelowGrows
  <2> QED
    BY <1>0, <1>1, <1>p, <2>1, <2>2, <2>5, <2>6, <2>7
<1> QED
  BY <1>2, <1>3

LEMMA CountedAtLast ==
    ASSUME NEW s \in Seq(Nat), Rising(s), Len(s) % 2 = 0
    PROVE  /\ IsFiniteSet(AsSet(s)) /\ Cardinality(AsSet(s)) \in Nat
           /\ Cardinality(AsSet(s)) = BelowAt(s, Len(s))
<1>p. PICK n, A : n = Len(s) /\ A = AsSet(s)
  OBVIOUS
<1>0. n \in Nat /\ \A j \in 1..n : s[j] \in Nat
  BY <1>p
<1>a. A \in SUBSET Nat
  BY <1>p, InOddCell
<1>1. CASE n = 0
  <2>1. A = {}
    <3>1. ASSUME NEW x \in A PROVE FALSE
      <4>1. PICK k : Cell(s, k, x) /\ k % 2 = 1
        BY <1>p, <3>1, InOddCell
      <4> QED
        BY <1>1, <1>p, <4>1 DEF Cell
    <3> QED
      BY <3>1
  <2> QED
    BY <1>1, <1>p, <2>1, FS_EmptySet DEF BelowAt
<1>2. CASE n # 0
  <2>1. n \in 1..n /\ s[n] \in Nat
    BY <1>0, <1>2
  <2>2. \A y \in A : y < s[n]
    BY <1>p, <2>1, BetweenBoundaries
  <2>3. {y \in A : y < s[n]} = A
    BY <2>2
  <2>4. IsFiniteSet(A) /\ Below(A, s[n]) \in Nat /\ Below(A, s[n]) = Cardinality(A)
    BY <1>a, <2>1, <2>3, BelowFinite DEF Below
  <2> QED
    BY <1>2, <1>p, <2>4 DEF BelowAt
<1> QED
  BY <1>1, <1>2

-----------------------------------------------------------------------------
(* The size.                                                               *)

Sums == Int

NextTotal(r, i, s) == IF i % 2 = 0 THEN r + s[i] ELSE r - s[i]

TotalRule(f, s) ==
    f = [i \in 0..Len(s) |-> IF i = 0 THEN 0 ELSE NextTotal(f[i-1], i, s)]

LEMMA TotalRuns ==
    ASSUME NEW s \in Seq(Nat)
    PROVE  /\ Total(s)[0] = 0
           /\ \A i \in 1..Len(s) : Total(s)[i] = NextTotal(Total(s)[i-1], i, s)
           /\ \A i \in 0..Len(s) : Total(s)[i] \in Sums
<1>p. PICK n, base : n = Len(s) /\ base = 0
  OBVIOUS
<1>0. n = Len(s) /\ n \in Nat /\ base = 0 /\ base \in Sums
  BY <1>p DEF Sums
<1>1. ASSUME NEW i \in 1..n, NEW r \in Sums PROVE NextTotal(r, i, s) \in Sums
  <2>1. s[i] \in Nat /\ r \in Int
    BY <1>0 DEF Sums
  <2> QED
    BY <2>1 DEF NextTotal, Sums
<1>2. PICK h : h = [i \in 1..n |-> [r \in Sums |-> NextTotal(r, i, s)]]
  OBVIOUS
<1>3. h \in Rules(n, Sums)
  BY <1>0, <1>1, <1>2 DEF Rules
<1>l. PICK f : Loops(f, n, Sums, base, h)
  BY <1>0, <1>3, LoopExists
<1>4. f \in [0..n -> Sums] /\ \A i \in 0..n : f[i] = IF i = 0 THEN base ELSE h[i][f[i-1]]
  BY <1>l DEF Loops
<1>5. \A i \in 0..n : f[i] = IF i = 0 THEN base ELSE NextTotal(f[i-1], i, s)
  <2> TAKE i \in 0..n
  <2>1. CASE i = 0
    BY <1>4, <2>1
  <2>2. CASE i # 0
    <3>a. i \in 1..n /\ i - 1 \in 0..n
      BY <1>0, <2>2
    <3>1. i \in 1..n /\ f[i-1] \in Sums
      BY <1>4, <3>a
    <3> QED
      BY <1>2, <1>4, <2>2, <3>1
  <2> QED
    BY <2>1, <2>2
<1>6. TotalRule(f, s)
  BY <1>0, <1>4, <1>5 DEF TotalRule
<1>7. TotalRule(Total(s), s)
  BY Zenon, <1>6 DEF Total, TotalRule, NextTotal
<1>8. PICK g : g = Total(s)
  OBVIOUS
<1>9. \A i \in 0..n : g[i] = IF i = 0 THEN base ELSE NextTotal(g[i-1], i, s)
  BY <1>0, <1>7, <1>8 DEF TotalRule
<1>10. g[0] = base /\ \A i \in 1..n : g[i] = NextTotal(g[i-1], i, s)
  BY <1>0, <1>9
<1>11. \A i \in 0..n : g[i] \in Sums
  <2>1. \A i \in 1..n : g[i-1] \in Sums => g[i] \in Sums
    BY <1>0, <1>1, <1>10
  <2>2. g[0] \in Sums
    BY <1>0, <1>10
  <2> QED
    BY <1>0, <2>1, <2>2, StaysIn
<1> QED
  BY <1>0, <1>8, <1>10, <1>11

LEMMA SizeRight ==
    ASSUME NEW a \in RangeSets
    PROVE  /\ Size(a) = Cardinality(AsSet(a.data)) /\ Size(a) \in Nat
           /\ IsFiniteSet(AsSet(a.data))
<1>p. PICK s, n, g : s = a.data /\ n = Len(s) /\ g = Total(s)
  OBVIOUS
<1>s. s \in Seq(Nat) /\ Rising(s) /\ Len(s) % 2 = 0 /\ Len(s) \in Nat
  BY <1>p, RangeSetIs
<1>0. s \in Seq(Nat) /\ Rising(s) /\ n % 2 = 0 /\ n \in Nat
  BY <1>p, <1>s
<1>1. g[0] = 0 /\ (\A i \in 1..n : g[i] = NextTotal(g[i-1], i, s)) /\ \A i \in 0..n : g[i] \in Int
  BY <1>0, <1>p, TotalRuns DEF Sums
<1> DEFINE B == {i \in 0..n : /\ i % 2 = 0 => g[i] = BelowAt(s, i)
                              /\ i % 2 = 1 => g[i] = BelowAt(s, i) - s[i]}
<1>2. 0 \in B
  <2>1. 0 \in 0..n /\ 0 % 2 = 0 /\ ~(0 % 2 = 1)
    BY <1>0
  <2> QED
    BY <1>1, <2>1 DEF BelowAt
<1>3. ASSUME NEW i \in 1..n, i - 1 \in B PROVE i \in B
  <2>0. i \in 0..n /\ i - 1 \in Nat /\ (i - 1) + 1 = i
    BY <1>0
  <2>1. (i-1) % 2 \in {0, 1} /\ i % 2 = 1 - ((i-1) % 2)
    BY <2>0, Parity
  <2>2. /\ s[i] \in Nat /\ BelowAt(s, i) \in Nat /\ BelowAt(s, i - 1) \in Nat
        /\ i % 2 = 1 => BelowAt(s, i) = BelowAt(s, i - 1)
        /\ i % 2 = 0 => i - 1 \in 1..n /\ s[i-1] \in Nat
                        /\ BelowAt(s, i) = BelowAt(s, i - 1) + (s[i] - s[i-1])
    BY <1>0, <1>p, BelowSteps
  <2>3. g[i] = NextTotal(g[i-1], i, s)
    BY <1>1
  <2>4. CASE i % 2 = 1
    <3>1. g[i] = g[i-1] - s[i] /\ (i-1) % 2 = 0
      BY <2>1, <2>3, <2>4 DEF NextTotal
    <3>2. g[i-1] = BelowAt(s, i - 1)
      BY <1>3, <3>1
    <3> QED
      BY <2>0, <2>2, <2>4, <3>1, <3>2
  <2>5. CASE i % 2 = 0
    <3>1. g[i] = g[i-1] + s[i] /\ (i-1) % 2 = 1
      BY <2>1, <2>3, <2>5 DEF NextTotal
    <3>2. g[i-1] = BelowAt(s, i - 1) - s[i-1]
      BY <1>3, <3>1
    <3> QED
      BY <2>0, <2>2, <2>5, <3>1, <3>2
  <2> QED
    BY <2>1, <2>4, <2>5
<1>4. \A i \in 0..n : i \in B
  <2>1. B \in SUBSET (0..n) /\ 0 \in 0..n
    BY <1>0
  <2>2. \A i \in (0+1)..n : i - 1 \in B => i \in B
    BY <1>3
  <2> HIDE DEF B
  <2> QED
    BY <1>0, <1>2, <2>1, <2>2, FromOn
<1>5. g[n] = BelowAt(s, n)
  BY <1>0, <1>4
<1>6. Size(a) = BelowAt(s, n)
  BY <1>5, <1>p DEF Size
<1> QED
  BY <1>0, <1>6, <1>p, CountedAtLast

-----------------------------------------------------------------------------
(* map_within.                                                             *)

Outer(k) == IF k % 2 = 1 THEN -5 ELSE 5
Inner(m) == IF m % 2 = 1 THEN -1 ELSE 1

(* The m-th boundary of t comes between the k-th and the next of s.        *)
Comes(s, k, t, m) ==
    /\ k >= 1 => Leq(<<s[k], Outer(k)>>, <<t[m], Inner(m)>>)
    /\ k + 1 <= Len(s) => Leq(<<t[m], Inner(m)>>, <<s[k+1], Outer(k+1)>>)

(* It is then met inside a range of s, or at its end.                      *)
Inside(s, k, t, m) ==
    /\ k \in 1..Len(s) /\ k % 2 = 1 /\ s[k] \in Nat /\ t[m] \in Nat
    /\ s[k] <= t[m] /\ Full(AsSet(s), s[k], t[m])

(* The boundary, or the number before it if it ends a range, is in the set.*)
LEMMA BesideBoundary ==
    ASSUME NEW t \in Seq(Nat), Rising(t), Len(t) % 2 = 0, NEW m \in 1..Len(t)
    PROVE  \E z \in Nat : z \in AsSet(t) /\ z = IF m % 2 = 1 THEN t[m] ELSE t[m] - 1
<1>1. m \in Nat /\ t[m] \in Nat /\ Len(t) \in Nat /\ m % 2 \in {0, 1}
  BY Parity
<1>2. CASE m % 2 = 1
  <2>1. m + 1 \in 1..Len(t) /\ Full(AsSet(t), t[m], t[m+1])
    BY <1>2, BetweenBoundaries
  <2>2. t[m] < t[m+1] /\ t[m+1] \in Nat
    BY <1>1, <2>1 DEF Rising
  <2>3. t[m] \in t[m]..(t[m+1] - 1)
    BY <1>1, <2>2
  <2>4. t[m] \in AsSet(t)
    BY <2>1, <2>3 DEF Full
  <2> QED
    BY <1>1, <1>2, <2>4
<1>3. CASE m % 2 = 0
  <2>1. m # 1
    BY <1>3
  <2>2. PICK h : h = m - 1
    OBVIOUS
  <2>3. h \in Nat /\ m = h + 1 /\ h \in 1..Len(t)
    BY <1>1, <2>1, <2>2
  <2>4. h % 2 = 1
    BY <1>3, <2>3, Parity
  <2>5. Full(AsSet(t), t[h], t[h+1])
    BY <2>3, <2>4, BetweenBoundaries
  <2>6. t[h] < t[m] /\ t[h] \in Nat
    BY <1>1, <2>3 DEF Rising
  <2>z. PICK z : z = t[m] - 1
    OBVIOUS
  <2>7. z \in t[h]..(t[m] - 1) /\ z \in Nat
    BY <1>1, <2>6, <2>z
  <2>8. z \in AsSet(t)
    BY <2>3, <2>5, <2>7 DEF Full
  <2>9. ~(m % 2 = 1)
    BY <1>3
  <2> QED
    BY <2>7, <2>8, <2>9, <2>z
<1> QED
  BY <1>1, <1>2, <1>3

(* The odd cell of a number and the boundaries at its ends.                *)
LEMMA OddCellEnds ==
    ASSUME NEW s \in Seq(Nat), Len(s) % 2 = 0, NEW K, NEW z \in Nat, Cell(s, K, z), K % 2 = 1
    PROVE  /\ K \in 1..Len(s) /\ K + 1 \in 1..Len(s)
           /\ s[K] \in Nat /\ s[K+1] \in Nat /\ s[K] <= z /\ z < s[K+1]
<1>a. PICK a : a = Len(s)
  OBVIOUS
<1>1. a \in Nat /\ a % 2 = 0 /\ \A j \in 1..a : s[j] \in Nat
  BY <1>a
<1>2. K \in 0..a /\ (\A j \in 1..K : s[j] <= z) /\ \A j \in (K+1)..a : z < s[j]
  BY <1>a DEF Cell
<1>3. K # 0 /\ K # a
  BY <1>1
<1>4. K \in 1..a /\ K + 1 \in 1..a /\ K \in 1..K /\ K + 1 \in (K+1)..a
  BY <1>1, <1>2, <1>3
<1> QED
  BY <1>1, <1>2, <1>4, <1>a

LEMMA MetInside ==
    ASSUME NEW s \in Seq(Nat), NEW t \in Seq(Nat),
           Rising(s), Len(s) % 2 = 0, Rising(t), Len(t) % 2 = 0, AsSet(t) \subseteq AsSet(s),
           NEW m \in 1..Len(t), NEW k \in 0..Len(s), Comes(s, k, t, m)
    PROVE  Inside(s, k, t, m)
<1>a. PICK a, p : a = Len(s) /\ p = t[m]
  OBVIOUS
<1>1. a \in Nat /\ p \in Nat /\ k \in Nat /\ k <= a /\ m \in Nat /\ m % 2 \in {0, 1}
      /\ (\A j \in 1..a : s[j] \in Nat)
  <2>1. m \in Nat /\ t[m] \in Nat
    BY EntryOf
  <2>2. m % 2 \in {0, 1}
    BY <2>1, Parity
  <2>3. Len(s) \in Nat /\ \A j \in 1..Len(s) : s[j] \in Nat
    OBVIOUS
  <2> QED
    BY <1>a, <2>1, <2>2, <2>3
<1>2. PICK z \in Nat : z \in AsSet(t) /\ z = IF m % 2 = 1 THEN p ELSE p - 1
  BY <1>a, BesideBoundary
<1>3. PICK K : Cell(s, K, z) /\ K % 2 = 1
  BY <1>2, InOddCell
<1>4. /\ K \in 1..a /\ K + 1 \in 1..a
      /\ s[K] \in Nat /\ s[K+1] \in Nat /\ s[K] <= z /\ z < s[K+1]
  BY <1>3, <1>a, OddCellEnds
<1>5. \A g, h \in 1..a : g < h => s[g] < s[h]
  BY <1>a DEF Rising
<1>6. (m % 2 = 1 /\ z = p) \/ (m % 2 = 0 /\ p = z + 1)
  BY <1>1, <1>2
<1>7. ~(k < K)
  <2> SUFFICES ASSUME k < K PROVE FALSE
    OBVIOUS
  <2>l. PICK l : l = k + 1
    OBVIOUS
  <2>1. l \in 1..a /\ (l = K \/ l < K) /\ k + 1 <= a
    BY <1>1, <1>4, <2>l
  <2>2. s[l] \in Nat /\ (l = K \/ s[l] < s[K])
    BY <1>1, <1>4, <1>5, <2>1
  <2>3. Leq(<<p, Inner(m)>>, <<s[l], Outer(l)>>)
    BY <1>a, <2>1, <2>l DEF Comes
  <2>4. p < s[l] \/ (p = s[l] /\ Inner(m) <= Outer(l))
    BY <2>3 DEF Leq
  <2>5. s[l] <= s[K] /\ s[K] <= p
    BY <1>1, <1>4, <1>6, <2>2
  <2>6. p = s[l] /\ p = s[K] /\ z = p
    BY <1>1, <1>4, <1>6, <2>2, <2>4, <2>5
  <2>7. l = K
    BY <1>1, <2>2, <2>6
  <2>8. m % 2 = 1
    BY <1>6, <2>6
  <2>9. Inner(m) = -1 /\ Outer(l) = -5
    BY <1>3, <2>7, <2>8 DEF Inner, Outer
  <2> QED
    BY <1>1, <2>4, <2>6, <2>9
<1>8. ~(K < k)
  <2> SUFFICES ASSUME K < k PROVE FALSE
    OBVIOUS
  <2>1. k \in 1..a /\ (k = K + 1 \/ K + 1 < k) /\ k >= 1
    BY <1>1, <1>4
  <2>2. s[k] \in Nat /\ (k = K + 1 \/ s[K+1] < s[k])
    BY <1>1, <1>4, <1>5, <2>1
  <2>3. Leq(<<s[k], Outer(k)>>, <<p, Inner(m)>>)
    BY <1>a, <2>1 DEF Comes
  <2>4. s[k] < p \/ (s[k] = p /\ Outer(k) <= Inner(m))
    BY <2>3 DEF Leq
  <2>5. s[K+1] <= s[k] /\ p <= z + 1 /\ z + 1 <= s[K+1]
    BY <1>1, <1>4, <1>6, <2>2
  <2>6. s[k] = p /\ s[k] = s[K+1] /\ p = z + 1
    BY <1>1, <1>4, <2>2, <2>4, <2>5
  <2>a. k = K + 1
    BY <2>2, <2>6
  <2>b. ~(z = p)
    BY <1>2, <2>6
  <2>7. k = K + 1 /\ m % 2 = 0
    BY <1>6, <2>a, <2>b
  <2>8. K \in Nat
    BY <1>4
  <2>9. k % 2 = 0
    BY <1>3, <2>7, <2>8, Parity
  <2>10. Inner(m) = 1 /\ Outer(k) = 5
    BY <2>7, <2>9 DEF Inner, Outer
  <2> QED
    BY <1>1, <2>4, <2>6, <2>10
<1>9. k = K
  BY <1>1, <1>4, <1>7, <1>8
<1>10. Full(AsSet(s), s[k], p)
  <2>1. Full(AsSet(s), s[K], s[K+1])
    BY <1>3, <1>4, <1>a, BetweenBoundaries
  <2>2. \A y \in s[K]..(p - 1) : y \in s[K]..(s[K+1] - 1)
    BY <1>1, <1>4, <1>6
  <2> QED
    BY <1>9, <2>1, <2>2 DEF Full
<1>11. s[k] <= p
  BY <1>1, <1>4, <1>6, <1>9
<1> QED
  BY <1>1, <1>3, <1>4, <1>9, <1>10, <1>11, <1>a DEF Inside

(* A boundary of the second list of events comes between two of the first. *)
LEMMA MergeComes ==
    ASSUME NEW s \in Seq(Nat), NEW t \in Seq(Nat), Rising(s), Rising(t),
           NEW c, NEW E, Merges(c, E, Events(s, -5, 5), Events(t, -1, 1)),
           NEW i \in 1..Len(E), c[i] = c[i-1]
    PROVE  /\ c[i] \in 0..Len(s) /\ i - c[i] \in 1..Len(t) /\ Comes(s, c[i], t, i - c[i])
           /\ E[i] = <<t[i - c[i]], Inner(i - c[i])>>
<1>p. PICK es, fs : es = Events(s, -5, 5) /\ fs = Events(t, -1, 1)
  OBVIOUS
<1>u. -5 \in Int /\ 5 \in Int /\ -1 \in Int /\ 1 \in Int
  OBVIOUS
<1>e. /\ es \in Seq(Step) /\ Len(es) = Len(s) /\ InOrder(es)
      /\ \A j \in 1..Len(s) : es[j] = <<s[j], Outer(j)>>
  BY <1>p, <1>u, EventsAre DEF Outer
<1>f. /\ fs \in Seq(Step) /\ Len(fs) = Len(t) /\ InOrder(fs)
      /\ \A j \in 1..Len(t) : fs[j] = <<t[j], Inner(j)>>
  BY <1>p, <1>u, EventsAre DEF Inner
<1>m. Merges(c, E, es, fs)
  BY <1>p
<1>l. PICK n, a, b, k, m : n = Len(E) /\ a = Len(s) /\ b = Len(t) /\ k = c[i] /\ m = i - c[i]
  OBVIOUS
<1>0. /\ n \in Nat /\ E \in Seq(Step) /\ Counts(c, n) /\ n = a + b /\ c[n] = a /\ i \in 1..n
      /\ a \in Nat /\ b \in Nat
  BY <1>e, <1>f, <1>m, <1>l DEF Merges
<1>1. InOrder(E)
  BY <1>e, <1>f, <1>m, MergeOrdered
<1>2. i - 1 \in 0..n /\ i \in 0..n /\ n \in i..n
  BY <1>0
<1>3. k \in Nat /\ k <= a /\ c[i-1] \in Nat
  <2>1. c[i] <= c[n]
    BY <1>0, <1>2, CountsGrow
  <2> QED
    BY <1>0, <1>2, <1>l, <2>1, CountsRest
<1>4. m \in 1..b /\ E[i] = fs[m] /\ (k < a => Leq(E[i], es[k+1]))
  <2>1. \/ c[i] = c[i-1] + 1
        \/ i - c[i] \in 1..b /\ E[i] = fs[i - c[i]] /\ (c[i] < a => Leq(E[i], es[c[i] + 1]))
    BY <1>0, <1>e, <1>f, <1>l, <1>m DEF Merges
  <2> QED
    BY <1>3, <1>l, <2>1
<1>5. E[i] = <<t[m], Inner(m)>>
  BY <1>4, <1>f, <1>l
<1>6. k + 1 <= a => Leq(<<t[m], Inner(m)>>, <<s[k+1], Outer(k+1)>>)
  <2>1. HAVE k + 1 <= a
  <2>2. k + 1 \in 1..a /\ k < a
    BY <1>0, <1>3, <2>1
  <2> QED
    BY <1>4, <1>5, <1>e, <1>l, <2>2
<1>7. k >= 1 => Leq(<<s[k], Outer(k)>>, <<t[m], Inner(m)>>)
  <2>1. HAVE k >= 1
  <2>2. k \in 1..a /\ i \in 0..Len(E)
    BY <1>2, <1>3, <1>0, <1>l, <2>1
  <2>3. SplitAt(c, E, es, fs, i)
    BY <1>e, <1>f, <1>m, <2>2, MergeSplits
  <2>4. PICK j \in 1..n : E[j] = es[k] /\ (j <= i <=> k <= c[i])
    BY <1>e, <1>l, <2>2, <2>3 DEF SplitAt
  <2>5. j <= i
    BY <1>3, <1>l, <2>4
  <2>6. j = i \/ Leq(E[j], E[i])
    BY <1>0, <1>1, <1>l, <2>5 DEF InOrder
  <2>7. E[i] \in Step
    BY <1>0, <1>l
  <2>8. Leq(E[j], E[i])
    BY <2>6, <2>7 DEF Leq, Step
  <2> QED
    BY <1>5, <1>e, <1>l, <2>2, <2>4, <2>8
<1>8. Comes(s, k, t, m)
  BY <1>6, <1>7, <1>l DEF Comes
<1> QED
  BY <1>0, <1>3, <1>4, <1>5, <1>8, <1>l

Squeezed == [offset : Int, start : Int, out : Seq(Int)]

NextSqueezed(r, e) ==
    CASE e[2] = -5 -> [r EXCEPT !.start = e[1]]
      [] e[2] = 5  -> [r EXCEPT !.offset = @ + e[1] - r.start, !.start = None]
      [] OTHER -> [r EXCEPT !.out = Append(@, r.offset + e[1] - r.start)]

SqueezeRule(f, E) ==
    f = [i \in 0..Len(E) |-> IF i = 0 THEN [offset |-> 0, start |-> None, out |-> <<>>]
                             ELSE NextSqueezed(f[i-1], E[i])]

LEMMA SqueezedIs ==
    ASSUME NEW r \in Squeezed, NEW e \in Step
    PROVE  LET q == NextSqueezed(r, e) IN
           /\ q \in Squeezed
           /\ e[2] = -5 => q.offset = r.offset /\ q.start = e[1] /\ q.out = r.out
           /\ e[2] = 5 => q.offset = r.offset + e[1] - r.start /\ q.start = None /\ q.out = r.out
           /\ e[2] \notin {-5, 5} => /\ q.offset = r.offset /\ q.start = r.start
                                     /\ q.out = Append(r.out, r.offset + e[1] - r.start)
<1>1. e[1] \in Nat /\ e[2] \in Int
  BY DEF Step
<1>2. /\ r.offset \in Int /\ r.start \in Int /\ r.out \in Seq(Int)
      /\ r = [offset |-> r.offset, start |-> r.start, out |-> r.out]
  BY DEF Squeezed
<1>q. PICK q : q = NextSqueezed(r, e)
  OBVIOUS
<1>3. CASE e[2] = -5
  <2>1. q = [r EXCEPT !.start = e[1]]
    BY <1>3, <1>q DEF NextSqueezed
  <2>2. q = [offset |-> r.offset, start |-> e[1], out |-> r.out]
    BY <1>2, <2>1
  <2>3. q \in Squeezed
    BY <1>1, <1>2, <2>2 DEF Squeezed
  <2> QED
    BY <1>3, <1>q, <2>2, <2>3
<1>4. CASE e[2] = 5
  <2>1. q = [r EXCEPT !.offset = @ + e[1] - r.start, !.start = None]
    BY <1>4, <1>q DEF NextSqueezed
  <2>2. q = [offset |-> r.offset + e[1] - r.start, start |-> None, out |-> r.out]
    BY <1>2, <2>1
  <2>3. r.offset + e[1] - r.start \in Int /\ None \in Int
    BY <1>1, <1>2 DEF None
  <2>4. q \in Squeezed
    BY <1>2, <2>2, <2>3 DEF Squeezed
  <2> QED
    BY <1>4, <1>q, <2>2, <2>4
<1>5. CASE e[2] \notin {-5, 5}
  <2>1. q = [r EXCEPT !.out = Append(@, r.offset + e[1] - r.start)]
    BY <1>5, <1>q DEF NextSqueezed
  <2>2. q = [offset |-> r.offset, start |-> r.start, out |-> Append(r.out, r.offset + e[1] - r.start)]
    BY <1>2, <2>1
  <2>3. r.offset + e[1] - r.start \in Int
    BY <1>1, <1>2
  <2>4. Append(r.out, r.offset + e[1] - r.start) \in Seq(Int)
    BY <1>2, <2>3
  <2>5. q \in Squeezed
    BY <1>2, <2>2, <2>4 DEF Squeezed
  <2> QED
    BY <1>5, <1>q, <2>2, <2>5
<1> QED
  BY <1>3, <1>4, <1>5

LEMMA SqueezeRuns ==
    ASSUME NEW E \in Seq(Step)
    PROVE  /\ Squeeze(E)[0] = [offset |-> 0, start |-> None, out |-> <<>>]
           /\ \A i \in 1..Len(E) : Squeeze(E)[i] = NextSqueezed(Squeeze(E)[i-1], E[i])
           /\ \A i \in 0..Len(E) : Squeeze(E)[i] \in Squeezed
<1>p. PICK n, base : n = Len(E) /\ base = [offset |-> 0, start |-> None, out |-> <<>>]
  OBVIOUS
<1>0. n = Len(E) /\ n \in Nat /\ base = [offset |-> 0, start |-> None, out |-> <<>>] /\ base \in Squeezed
  BY <1>p DEF Squeezed, None
<1>1. ASSUME NEW i \in 1..n, NEW r \in Squeezed PROVE NextSqueezed(r, E[i]) \in Squeezed
  <2>1. E[i] \in Step
    BY <1>0
  <2> QED
    BY <2>1, SqueezedIs
<1>2. PICK h : h = [i \in 1..n |-> [r \in Squeezed |-> NextSqueezed(r, E[i])]]
  OBVIOUS
<1>3. h \in Rules(n, Squeezed)
  BY <1>0, <1>1, <1>2 DEF Rules
<1>l. PICK f : Loops(f, n, Squeezed, base, h)
  BY <1>0, <1>3, LoopExists
<1>4. f \in [0..n -> Squeezed] /\ \A i \in 0..n : f[i] = IF i = 0 THEN base ELSE h[i][f[i-1]]
  BY <1>l DEF Loops
<1>5. \A i \in 0..n : f[i] = IF i = 0 THEN base ELSE NextSqueezed(f[i-1], E[i])
  <2> TAKE i \in 0..n
  <2>1. CASE i = 0
    BY <1>4, <2>1
  <2>2. CASE i # 0
    <3>a. i \in 1..n /\ i - 1 \in 0..n
      BY <1>0, <2>2
    <3>1. i \in 1..n /\ f[i-1] \in Squeezed
      BY <1>4, <3>a
    <3> QED
      BY <1>2, <1>4, <2>2, <3>1
  <2> QED
    BY <2>1, <2>2
<1>6. SqueezeRule(f, E)
  BY <1>0, <1>4, <1>5 DEF SqueezeRule
<1>7. SqueezeRule(Squeeze(E), E)
  BY Zenon, <1>6 DEF Squeeze, SqueezeRule, NextSqueezed
<1>8. PICK g : g = Squeeze(E)
  OBVIOUS
<1>9. \A i \in 0..n : g[i] = IF i = 0 THEN base ELSE NextSqueezed(g[i-1], E[i])
  BY <1>0, <1>7, <1>8 DEF SqueezeRule
<1>10. g[0] = base /\ \A i \in 1..n : g[i] = NextSqueezed(g[i-1], E[i])
  BY <1>0, <1>9
<1>11. \A i \in 0..n : g[i] \in Squeezed
  <2>1. \A i \in 1..n : g[i-1] \in Squeezed => g[i] \in Squeezed
    BY <1>0, <1>1, <1>10
  <2>2. g[0] \in Squeezed
    BY <1>0, <1>10
  <2> QED
    BY <1>0, <2>1, <2>2, StaysIn
<1> QED
  BY <1>0, <1>8, <1>10, <1>11
(* After i events: the ranges of s left behind are counted in offset, and  *)
(* what is put out counts the numbers below the boundaries of t.           *)
SqueezeRight(r, k, m, s, t) ==
    /\ r.offset = BelowAt(s, k)
    /\ r.start = IF k % 2 = 1 THEN s[k] ELSE None
    /\ Len(r.out) = m /\ \A j \in 1..m : r.out[j] = Below(AsSet(s), t[j])

LEMMA SqueezeOuter ==
    ASSUME NEW s \in Seq(Nat), NEW t, Rising(s), Len(s) % 2 = 0, NEW k \in 1..Len(s), NEW m \in Nat,
           NEW r \in Squeezed, SqueezeRight(r, k - 1, m, s, t),
           NEW e \in Step, e = <<s[k], Outer(k)>>
    PROVE  SqueezeRight(NextSqueezed(r, e), k, m, s, t)
<1>q. PICK q : q = NextSqueezed(r, e)
  OBVIOUS
<1>h. PICK h : h = k - 1
  OBVIOUS
<1>1. k \in Nat /\ h \in Nat /\ k = h + 1 /\ s[k] \in Nat
  BY <1>h, EntryOf
<1>2. h % 2 \in {0, 1} /\ k % 2 = 1 - (h % 2)
  BY <1>1, Parity
<1>3. /\ BelowAt(s, k) \in Nat /\ BelowAt(s, h) \in Nat
      /\ k % 2 = 1 => BelowAt(s, k) = BelowAt(s, h)
      /\ k % 2 = 0 => s[h] \in Nat /\ BelowAt(s, k) = BelowAt(s, h) + (s[k] - s[h])
  BY <1>h, BelowSteps
<1>4. e[1] = s[k] /\ e[2] = Outer(k)
  OBVIOUS
<1>5. /\ r.offset = BelowAt(s, h) /\ r.start = (IF h % 2 = 1 THEN s[h] ELSE None)
      /\ Len(r.out) = m /\ \A j \in 1..m : r.out[j] = Below(AsSet(s), t[j])
  BY <1>h DEF SqueezeRight
<1>6. CASE k % 2 = 1
  <2>1. e[2] = -5
    BY <1>4, <1>6 DEF Outer
  <2>2. q.offset = r.offset /\ q.start = e[1] /\ q.out = r.out
    BY <1>q, <2>1, SqueezedIs
  <2> QED
    BY <1>3, <1>4, <1>5, <1>6, <1>q, <2>2 DEF SqueezeRight
<1>7. CASE k % 2 = 0
  <2>1. e[2] = 5 /\ h % 2 = 1
    BY <1>2, <1>4, <1>7 DEF Outer
  <2>2. q.offset = r.offset + e[1] - r.start /\ q.start = None /\ q.out = r.out
    BY <1>q, <2>1, SqueezedIs
  <2>3. q.offset = BelowAt(s, k)
    BY <1>1, <1>3, <1>4, <1>5, <1>7, <2>1, <2>2
  <2>4. ~(k % 2 = 1)
    BY <1>7
  <2> QED
    BY <1>5, <1>q, <2>2, <2>3, <2>4 DEF SqueezeRight
<1> QED
  BY <1>2, <1>6, <1>7

LEMMA SqueezeInner ==
    ASSUME NEW s \in Seq(Nat), NEW t, Rising(s), Len(s) % 2 = 0, NEW k \in 1..Len(s), NEW m \in Nat \ {0},
           NEW r \in Squeezed, SqueezeRight(r, k, m - 1, s, t),
           NEW e \in Step, e = <<t[m], Inner(m)>>, Inside(s, k, t, m)
    PROVE  SqueezeRight(NextSqueezed(r, e), k, m, s, t)
<1>q. PICK q : q = NextSqueezed(r, e)
  OBVIOUS
<1>1. k % 2 = 1 /\ s[k] \in Nat /\ t[m] \in Nat /\ s[k] <= t[m] /\ Full(AsSet(s), s[k], t[m])
  BY DEF Inside
<1>2. AsSet(s) \in SUBSET Nat
  BY InOddCell
<1>3. Below(AsSet(s), t[m]) = Below(AsSet(s), s[k]) + (t[m] - s[k])
      /\ Below(AsSet(s), t[m]) \in Nat /\ Below(AsSet(s), s[k]) \in Nat
  BY <1>1, <1>2, BelowGrows
<1>4. BelowAt(s, k) = Below(AsSet(s), s[k])
  BY BelowSteps
<1>5. /\ r.offset = BelowAt(s, k) /\ r.start = s[k]
      /\ Len(r.out) = m - 1 /\ \A j \in 1..(m-1) : r.out[j] = Below(AsSet(s), t[j])
  BY <1>1 DEF SqueezeRight
<1>6. e[1] = t[m] /\ e[2] = Inner(m)
  OBVIOUS
<1>7. e[2] \notin {-5, 5}
  BY <1>6 DEF Inner
<1>8. q.offset = r.offset /\ q.start = r.start /\ q.out = Append(r.out, r.offset + e[1] - r.start)
  BY <1>7, <1>q, SqueezedIs
<1>9. r.offset + e[1] - r.start = Below(AsSet(s), t[m])
  BY <1>1, <1>3, <1>4, <1>5, <1>6
<1>10. r.out \in Seq(Int)
  BY DEF Squeezed
<1>v. PICK v : v = Below(AsSet(s), t[m])
  OBVIOUS
<1>11. v \in Int /\ q.out = Append(r.out, v)
  BY <1>3, <1>8, <1>9, <1>v
<1>12. Len(q.out) = m /\ q.out[m] = v /\ \A j \in 1..(m-1) : q.out[j] = r.out[j]
  <2>1. Len(q.out) = (m - 1) + 1 /\ q.out[(m - 1) + 1] = v /\ \A j \in 1..(m-1) : q.out[j] = r.out[j]
    BY <1>5, <1>10, <1>11, Appended
  <2> QED
    BY <2>1
<1>13. \A j \in 1..m : q.out[j] = Below(AsSet(s), t[j])
  <2> TAKE j \in 1..m
  <2>1. j = m \/ j \in 1..(m-1)
    OBVIOUS
  <2> QED
    BY <1>5, <1>12, <1>v, <2>1
<1>14. q.start = IF k % 2 = 1 THEN s[k] ELSE None
  BY <1>1, <1>5, <1>8
<1> QED
  BY <1>5, <1>8, <1>12, <1>13, <1>14, <1>q DEF SqueezeRight

(* The whole loop.                                                         *)
LEMMA SqueezedRight ==
    ASSUME NEW s \in Seq(Nat), NEW t \in Seq(Nat),
           Rising(s), Len(s) % 2 = 0, Rising(t), Len(t) % 2 = 0, AsSet(t) \subseteq AsSet(s),
           NEW c, NEW E, Merges(c, E, Events(s, -5, 5), Events(t, -1, 1))
    PROVE  SqueezeRight(Squeeze(E)[Len(E)], Len(s), Len(t), s, t)
<1>p. PICK es, fs : es = Events(s, -5, 5) /\ fs = Events(t, -1, 1)
  OBVIOUS
<1>u. -5 \in Int /\ 5 \in Int /\ -1 \in Int /\ 1 \in Int
  OBVIOUS
<1>e. Len(es) = Len(s) /\ \A j \in 1..Len(s) : es[j] = <<s[j], Outer(j)>>
  BY <1>p, <1>u, EventsAre DEF Outer
<1>f. Len(fs) = Len(t)
  BY <1>p, <1>u, EventsAre
<1>m. Merges(c, E, es, fs)
  BY <1>p
<1>l. PICK n, a, b, g : n = Len(E) /\ a = Len(s) /\ b = Len(t) /\ g = Squeeze(E)
  OBVIOUS
<1>0. /\ n \in Nat /\ E \in Seq(Step) /\ Counts(c, n) /\ n = a + b /\ c[n] = a
      /\ a \in Nat /\ b \in Nat
  BY <1>e, <1>f, <1>m, <1>l DEF Merges
<1>1. /\ g[0] = [offset |-> 0, start |-> None, out |-> <<>>]
      /\ \A i \in 1..n : g[i] = NextSqueezed(g[i-1], E[i])
      /\ \A i \in 0..n : g[i] \in Squeezed
  BY <1>0, <1>l, SqueezeRuns
<1> DEFINE B == {i \in 0..n : SqueezeRight(g[i], c[i], i - c[i], s, t)}
<1>2. 0 \in B
  <2>1. c[0] = 0 /\ 0 \in 0..n
    BY <1>0 DEF Counts
  <2>2. SqueezeRight(g[0], 0, 0, s, t)
    BY <1>1 DEF SqueezeRight, BelowAt
  <2> QED
    BY <2>1, <2>2
<1>3. ASSUME NEW i \in 1..n, i - 1 \in B PROVE i \in B
  <2>0. i - 1 \in 0..n /\ i \in 0..n /\ E[i] \in Step
    BY <1>0, <1>l
  <2>l. PICK r, k, m : r = g[i-1] /\ k = c[i-1] /\ m = (i-1) - c[i-1]
    OBVIOUS
  <2>1. SqueezeRight(r, k, m, s, t) /\ r \in Squeezed /\ k \in Nat /\ m \in Nat
        /\ g[i] = NextSqueezed(r, E[i])
    BY <1>0, <1>1, <1>3, <2>0, <2>l, CountsRest
  <2>2. c[i] \in Nat /\ i - c[i] \in Nat
    BY <1>0, <2>0, CountsRest
  <2>3. \/ c[i] = c[i-1] + 1 /\ c[i] \in 1..a /\ E[i] = es[c[i]]
        \/ c[i] = c[i-1]
    BY <1>0, <1>e, <1>f, <1>l, <1>m DEF Merges
  <2>4. CASE c[i] = c[i-1] + 1 /\ c[i] \in 1..a /\ E[i] = es[c[i]]
    <3>k. PICK h : h = c[i]
      OBVIOUS
    <3>a. h \in 1..Len(s) /\ h = k + 1 /\ h - 1 = k
      BY <1>l, <2>1, <2>4, <2>l, <3>k
    <3>b. i - c[i] = m
      BY <2>0, <2>1, <2>4, <2>l
    <3>c. E[i] = <<s[h], Outer(h)>>
      BY <1>e, <2>4, <3>a, <3>k
    <3>1. h \in 1..Len(s) /\ h - 1 = k /\ i - c[i] = m /\ E[i] = <<s[h], Outer(h)>>
      BY <3>a, <3>b, <3>c
    <3>2. SqueezeRight(NextSqueezed(r, E[i]), h, m, s, t)
      BY <2>0, <2>1, <3>1, SqueezeOuter
    <3> QED
      BY <2>0, <2>1, <3>1, <3>2, <3>k
  <2>5. CASE c[i] = c[i-1]
    <3>k. PICK h : h = i - c[i]
      OBVIOUS
    <3>1. i \in 1..Len(E)
      BY <1>l
    <3>2. k \in 0..Len(s) /\ h \in 1..Len(t) /\ Comes(s, k, t, h) /\ E[i] = <<t[h], Inner(h)>>
      BY <2>5, <2>l, <3>1, <3>k, MergeComes
    <3>3. Inside(s, k, t, h)
      BY <3>2, MetInside
    <3>a. h - 1 = m
      BY <2>0, <2>1, <2>5, <2>l, <3>k
    <3>b. h \in Nat /\ h # 0
      BY <3>2, EntryOf
    <3>4. k \in 1..Len(s) /\ h \in Nat \ {0} /\ h - 1 = m
      BY <3>3, <3>a, <3>b DEF Inside
    <3>5. SqueezeRight(NextSqueezed(r, E[i]), k, h, s, t)
      BY <2>0, <2>1, <3>2, <3>3, <3>4, SqueezeInner
    <3> QED
      BY <2>0, <2>1, <2>5, <2>l, <3>5, <3>k
  <2> QED
    BY <2>3, <2>4, <2>5
<1>4. \A i \in 0..n : i \in B
  <2>1. B \in SUBSET (0..n) /\ 0 \in 0..n
    BY <1>0
  <2>2. \A i \in (0+1)..n : i - 1 \in B => i \in B
    BY <1>3
  <2> HIDE DEF B
  <2> QED
    BY <1>0, <1>2, <2>1, <2>2, FromOn
<1>5. n \in 0..n /\ n - c[n] = b
  BY <1>0
<1> QED
  BY <1>0, <1>4, <1>5, <1>l

(* The numbers below the boundaries of t are the boundaries of its image.  *)
CountsBelow(q, A, t) ==
    q \in Seq(Nat) /\ Len(q) = Len(t) /\ \A j \in 1..Len(t) : q[j] = Below(A, t[j])

LEMMA ImageCells ==
    ASSUME NEW A \in SUBSET Nat, NEW t \in Seq(Nat), Rising(t), Len(t) % 2 = 0, AsSet(t) \subseteq A,
           NEW q, CountsBelow(q, A, t)
    PROVE  /\ Sorted(q)
           /\ \A z \in AsSet(t) : \E k : Cell(q, k, Below(A, z)) /\ k % 2 = 1
           /\ \A x \in Nat : \A k : Cell(q, k, x) /\ k % 2 = 1 =>
                 \E z \in AsSet(t) : x = Below(A, z)
<1>b. PICK b : b = Len(t)
  OBVIOUS
<1>0. b \in Nat /\ b % 2 = 0 /\ \A j \in 1..b : t[j] \in Nat
  BY <1>b
<1>1. q \in Seq(Nat) /\ Len(q) = b /\ \A j \in 1..b : q[j] = Below(A, t[j]) /\ q[j] \in Nat
  <2>1. q \in Seq(Nat) /\ Len(q) = b /\ \A j \in 1..b : q[j] = Below(A, t[j])
    BY <1>b DEF CountsBelow
  <2> QED
    BY <2>1
<1>2. ASSUME NEW i \in 1..b, NEW j \in 1..b, i < j PROVE q[i] <= q[j]
  <2>1. t[i] < t[j] /\ t[i] \in Nat /\ t[j] \in Nat
    BY <1>0, <1>2, <1>b DEF Rising
  <2>2. t[i] <= t[j]
    BY <2>1
  <2>3. Below(A, t[i]) <= Below(A, t[j])
    BY <2>1, <2>2, BelowGrows
  <2> QED
    BY <1>1, <2>3
<1>3. Sorted(q)
  BY <1>1, <1>2 DEF Sorted
<1>4. ASSUME NEW z \in AsSet(t) PROVE \E k : Cell(q, k, Below(A, z)) /\ k % 2 = 1
  <2>1. z \in Nat
    BY InOddCell
  <2>2. PICK k : Cell(t, k, z) /\ k % 2 = 1
    BY InOddCell
  <2>3. k \in 1..b /\ k + 1 \in 1..b /\ t[k] \in Nat /\ t[k+1] \in Nat /\ t[k] <= z /\ z < t[k+1]
    BY <1>b, <2>1, <2>2, OddCellEnds
  <2>x. PICK x : x = Below(A, z)
    OBVIOUS
  <2>4. x \in Nat /\ Below(A, t[k]) <= x
    BY <2>1, <2>3, <2>x, BelowGrows
  <2>5. x < Below(A, t[k+1])
    <3>1. z + 1 \in Nat /\ z <= z + 1 /\ z + 1 <= t[k+1]
      BY <2>1, <2>3
    <3>2. Full(A, z, z + 1)
      <4>p. PICK w : w = z + 1
        OBVIOUS
      <4>1. \A y \in z..(w - 1) : y = z
        BY <2>1, <4>p
      <4>2. z \in A
        OBVIOUS
      <4>3. \A y \in z..(w - 1) : y \in A
        BY <4>1, <4>2
      <4>4. Full(A, z, w)
        BY <4>3 DEF Full
      <4> QED
        BY <4>4, <4>p
    <3>3. Below(A, z + 1) = Below(A, z) + ((z + 1) - z)
      BY <2>1, <3>1, <3>2, BelowGrows
    <3>4. Below(A, z + 1) = x + 1
      BY <2>1, <2>4, <2>x, <3>3
    <3>5. Below(A, z + 1) <= Below(A, t[k+1]) /\ Below(A, t[k+1]) \in Nat
      BY <2>3, <3>1, BelowGrows
    <3> QED
      BY <2>4, <3>4, <3>5
  <2>6. q[k] <= x /\ x < q[k+1] /\ k \in 0..Len(q)
    BY <1>1, <2>3, <2>4, <2>5
  <2>7. Cell(q, k, x)
    BY <1>1, <1>3, <2>4, <2>6, CellAt
  <2> QED
    BY <2>2, <2>7, <2>x
<1>5. ASSUME NEW x \in Nat, NEW k, Cell(q, k, x), k % 2 = 1
      PROVE  \E z \in AsSet(t) : x = Below(A, z)
  <2>0. Len(q) % 2 = 0
    BY <1>0, <1>1
  <2>1. k \in 1..b /\ k + 1 \in 1..b /\ q[k] <= x /\ x < q[k+1]
    BY <1>1, <1>5, <2>0, OddCellEnds
  <2>2. q[k] = Below(A, t[k]) /\ q[k+1] = Below(A, t[k+1]) /\ t[k] \in Nat /\ t[k+1] \in Nat
    BY <1>0, <1>1, <2>1
  <2>3. t[k] <= t[k+1]
    <3>1. t[k] < t[k+1]
      BY <1>b, <2>1 DEF Rising
    <3> QED
      BY <2>2, <3>1
  <2>4. Full(AsSet(t), t[k], t[k+1])
    BY <1>5, <1>b, <2>1, BetweenBoundaries
  <2>5. Below(A, t[k]) \in Nat /\ Below(A, t[k+1]) = Below(A, t[k]) + (t[k+1] - t[k])
    <3>1. Full(A, t[k], t[k+1])
      BY <2>4 DEF Full
    <3> QED
      BY <2>2, <2>3, <3>1, BelowGrows
  <2>z. PICK z : z = t[k] + (x - Below(A, t[k]))
    OBVIOUS
  <2>6. z \in Nat /\ t[k] <= z /\ z < t[k+1]
    BY <2>1, <2>2, <2>5, <2>z
  <2>7. z \in t[k]..(t[k+1] - 1)
    BY <2>2, <2>6
  <2>8. z \in AsSet(t)
    BY <2>4, <2>7 DEF Full
  <2>9. Full(A, t[k], z)
    <3>1. \A y \in t[k]..(z - 1) : y \in t[k]..(t[k+1] - 1)
      BY <2>2, <2>6
    <3> QED
      BY <2>4, <3>1 DEF Full
  <2>10. Below(A, z) = Below(A, t[k]) + (z - t[k])
    BY <2>2, <2>6, <2>9, BelowGrows
  <2>11. x = Below(A, z)
    BY <2>2, <2>5, <2>6, <2>10, <2>z
  <2> QED
    BY <2>8, <2>11
<1> QED
  BY <1>3, <1>4, <1>5

LEMMA MapWithinRight ==
    ASSUME NEW a \in RangeSets, NEW b \in RangeSets, AsSet(b.data) \subseteq AsSet(a.data)
    PROVE  /\ MapWithin(a, b) \in RangeSets
           /\ AsSet(MapWithin(a, b).data) =
                {Cardinality({y \in AsSet(a.data) : y < x}) : x \in AsSet(b.data)}
<1>p. PICK s, t, A, B : s = a.data /\ t = b.data /\ A = AsSet(s) /\ B = AsSet(t)
  OBVIOUS
<1>1. /\ s \in Seq(Nat) /\ Rising(s) /\ Len(s) % 2 = 0
      /\ t \in Seq(Nat) /\ Rising(t) /\ Len(t) % 2 = 0 /\ B \subseteq A /\ A \in SUBSET Nat
  BY <1>p, RangeSetIs
<1>u. -5 \in Int /\ 5 \in Int /\ -1 \in Int /\ 1 \in Int
  OBVIOUS
<1>E. PICK E : E = Merge(Events(s, -5, 5), Events(t, -1, 1))
  OBVIOUS
<1>2. Events(s, -5, 5) \in Seq(Step) /\ Events(t, -1, 1) \in Seq(Step)
  BY <1>1, <1>u, EventsAre
<1>3. PICK c : Merges(c, E, Events(s, -5, 5), Events(t, -1, 1))
  BY <1>2, <1>E, MergeMerges
<1>4. E \in Seq(Step) /\ Len(E) \in Nat
  BY <1>2, <1>3 DEF Merges
<1>q. PICK r, q : r = Squeeze(E)[Len(E)] /\ q = r.out
  OBVIOUS
<1>5. SqueezeRight(r, Len(s), Len(t), s, t)
  BY <1>1, <1>3, <1>p, <1>q, SqueezedRight
<1>6. q \in Seq(Int)
  <2>1. r \in Squeezed
    BY <1>4, <1>q, SqueezeRuns
  <2> QED
    BY <1>q, <2>1 DEF Squeezed
<1>7. Len(q) = Len(t) /\ \A j \in 1..Len(t) : q[j] = Below(A, t[j])
  BY <1>5, <1>p, <1>q DEF SqueezeRight
<1>8. CountsBelow(q, A, t)
  <2>1. \A j \in 1..Len(t) : q[j] \in Nat
    <3> TAKE j \in 1..Len(t)
    <3>1. t[j] \in Nat
      BY <1>1, EntryOf
    <3> QED
      BY <1>1, <1>7, <3>1, BelowFinite
  <2>2. q \in Seq(Nat)
    BY <1>6, <1>7, <2>1
  <2> QED
    BY <1>7, <2>2 DEF CountsBelow
<1>9. /\ Sorted(q) /\ q \in Seq(Nat) /\ Len(q) % 2 = 0
      /\ \A z \in B : \E k : Cell(q, k, Below(A, z)) /\ k % 2 = 1
      /\ \A x \in Nat : \A k : Cell(q, k, x) /\ k % 2 = 1 => \E z \in B : x = Below(A, z)
  <2>1. q \in Seq(Nat) /\ Len(q) % 2 = 0
    BY <1>1, <1>8 DEF CountsBelow
  <2>2. AsSet(t) \subseteq A
    BY <1>1, <1>p
  <2>3. /\ Sorted(q)
        /\ \A z \in AsSet(t) : \E k : Cell(q, k, Below(A, z)) /\ k % 2 = 1
        /\ \A x \in Nat : \A k : Cell(q, k, x) /\ k % 2 = 1 => \E z \in AsSet(t) : x = Below(A, z)
    BY <1>1, <1>8, <2>2, ImageCells
  <2> QED
    BY <1>p, <2>1, <2>3
<1>m. PICK m : m = MapWithin(a, b)
  OBVIOUS
<1>10. m = FromData(q)
  BY <1>E, <1>m, <1>p, <1>q DEF MapWithin
<1>11. /\ m \in RangeSets
       /\ \A x \in Nat : \A k : Cell(q, k, x) => (x \in AsSet(m.data) <=> k % 2 = 1)
  BY <1>9, <1>10, FromDataRight
<1>12. \A x \in AsSet(m.data) : \E z \in B : x = Below(A, z)
  <2> TAKE x \in AsSet(m.data)
  <2>1. x \in Nat
    BY <1>11, RangeSetIs
  <2>2. PICK k : Cell(q, k, x)
    BY <1>9, <2>1, CellExists
  <2>3. k % 2 = 1
    BY <1>11, <2>1, <2>2
  <2> QED
    BY <1>9, <2>1, <2>2, <2>3
<1>13. \A z \in B : Below(A, z) \in AsSet(m.data)
  <2> TAKE z \in B
  <2>1. z \in Nat
    BY <1>1
  <2>2. Below(A, z) \in Nat
    BY <1>1, <2>1, BelowFinite
  <2>3. PICK k : Cell(q, k, Below(A, z)) /\ k % 2 = 1
    BY <1>9
  <2> QED
    BY <1>11, <2>2, <2>3
<1>14. AsSet(m.data) = {Below(A, z) : z \in B}
  BY <1>12, <1>13
<1> QED
  BY <1>11, <1>14, <1>m, <1>p DEF Below

-----------------------------------------------------------------------------
(* first.                                                                  *)

LEMMA EvenHalf ==
    ASSUME NEW n \in Nat, n % 2 = 0
    PROVE  n \div 2 \in Nat /\ n = 2 * (n \div 2)
OBVIOUS

LEMMA Twice ==
    ASSUME NEW k \in Nat
    PROVE  (2 * k) % 2 = 0 /\ (k # 0 => (2 * k - 1) % 2 = 1)
OBVIOUS

LEMMA AppendTwo ==
    ASSUME NEW q \in Seq(Int), NEW x \in Int, NEW y \in Int, NEW r, r = q \o <<x, y>>
    PROVE  /\ r \in Seq(Int) /\ Len(q) \in Nat /\ Len(r) = Len(q) + 2
           /\ r[Len(q) + 1] = x /\ r[Len(q) + 2] = y /\ \A j \in 1..Len(q) : r[j] = q[j]
<1>1. <<x, y>> \in Seq(Int) /\ Len(<<x, y>>) = 2 /\ <<x, y>>[1] = x /\ <<x, y>>[2] = y
  OBVIOUS
<1>2. r \in Seq(Int) /\ Len(q) \in Nat /\ Len(r) = Len(q) + 2
  BY <1>1
<1>3. \A j \in 1..(Len(q) + 2) : r[j] = IF j <= Len(q) THEN q[j] ELSE <<x, y>>[j - Len(q)]
  BY <1>1, <1>2
<1>4. r[Len(q) + 1] = x /\ r[Len(q) + 2] = y
  BY <1>1, <1>2, <1>3
<1>5. \A j \in 1..Len(q) : r[j] = q[j]
  BY <1>2, <1>3
<1> QED
  BY <1>2, <1>4, <1>5

Fronts == [out : Seq(Int), left : Int, broke : BOOLEAN]

NextFront(r, s, e) ==
    IF r.broke THEN r
    ELSE IF e - s >= r.left
         THEN [r EXCEPT !.out = @ \o <<s, s + r.left>>, !.broke = TRUE]
    ELSE [r EXCEPT !.out = @ \o <<s, e>>, !.left = @ - (e - s)]

FrontRule(f, a, n) ==
    f = [k \in 0..(Len(a.data) \div 2) |->
           IF k = 0 THEN [out |-> <<>>, left |-> n, broke |-> FALSE]
           ELSE NextFront(f[k-1], a.data[2 * k - 1], a.data[2 * k])]

LEMMA NextFrontIs ==
    ASSUME NEW r \in Fronts, NEW s \in Int, NEW e \in Int
    PROVE  LET q == NextFront(r, s, e) IN
           /\ q \in Fronts
           /\ r.broke => q = r
           /\ ~r.broke /\ e - s >= r.left => q.broke /\ q.out = r.out \o <<s, s + r.left>>
           /\ ~r.broke /\ ~(e - s >= r.left) =>
                ~q.broke /\ q.out = r.out \o <<s, e>> /\ q.left = r.left - (e - s)
<1>1. /\ r.out \in Seq(Int) /\ r.left \in Int /\ r.broke \in BOOLEAN
      /\ r = [out |-> r.out, left |-> r.left, broke |-> r.broke]
  BY DEF Fronts
<1>q. PICK q : q = NextFront(r, s, e)
  OBVIOUS
<1>2. CASE r.broke
  BY <1>2, <1>q DEF NextFront
<1>3. CASE ~r.broke /\ e - s >= r.left
  <2>1. q = [r EXCEPT !.out = @ \o <<s, s + r.left>>, !.broke = TRUE]
    BY <1>3, <1>q DEF NextFront
  <2>2. q = [out |-> r.out \o <<s, s + r.left>>, left |-> r.left, broke |-> TRUE]
    BY <1>1, <2>1
  <2>3. r.out \o <<s, s + r.left>> \in Seq(Int)
    <3>1. s + r.left \in Int
      BY <1>1
    <3> QED
      BY <1>1, <3>1, AppendTwo
  <2>4. q \in Fronts
    BY <1>1, <2>2, <2>3 DEF Fronts
  <2> QED
    BY <1>3, <1>q, <2>2, <2>4
<1>4. CASE ~r.broke /\ ~(e - s >= r.left)
  <2>1. q = [r EXCEPT !.out = @ \o <<s, e>>, !.left = @ - (e - s)]
    BY <1>4, <1>q DEF NextFront
  <2>2. q = [out |-> r.out \o <<s, e>>, left |-> r.left - (e - s), broke |-> r.broke]
    BY <1>1, <2>1
  <2>3. r.out \o <<s, e>> \in Seq(Int) /\ r.left - (e - s) \in Int
    BY <1>1, AppendTwo
  <2>4. q \in Fronts
    BY <1>1, <2>2, <2>3 DEF Fronts
  <2> QED
    BY <1>4, <1>q, <2>2, <2>4
<1> QED
  BY <1>2, <1>3, <1>4

LEMMA FrontRuns ==
    ASSUME NEW a \in RangeSets, NEW n \in Int
    PROVE  /\ Leading(a, n)[0] = [out |-> <<>>, left |-> n, broke |-> FALSE]
           /\ \A i \in 1..Len(a.data) \div 2 : Leading(a, n)[i] = NextFront(Leading(a, n)[i-1], a.data[2 * i - 1], a.data[2 * i])
           /\ \A i \in 0..Len(a.data) \div 2 : Leading(a, n)[i] \in Fronts
<1>e. a.data \in Seq(Nat) /\ Len(a.data) \in Nat /\ Len(a.data) % 2 = 0
      /\ Len(a.data) \div 2 \in Nat /\ Len(a.data) = 2 * (Len(a.data) \div 2)
  BY RangeSetIs, EvenHalf
<1>p. PICK h, base : h = Len(a.data) \div 2 /\ base = [out |-> <<>>, left |-> n, broke |-> FALSE]
  OBVIOUS
<1>h. h \in Nat /\ Len(a.data) = 2 * h
  BY <1>e, <1>p
<1>0. base = [out |-> <<>>, left |-> n, broke |-> FALSE] /\ base \in Fronts
  BY <1>p DEF Fronts
<1>1. ASSUME NEW i \in 1..h, NEW r \in Fronts PROVE NextFront(r, a.data[2 * i - 1], a.data[2 * i]) \in Fronts
  <2>1. 2 * i - 1 \in 1..Len(a.data) /\ 2 * i \in 1..Len(a.data)
    BY <1>e, <1>h
  <2>2. a.data[2 * i - 1] \in Nat /\ a.data[2 * i] \in Nat
    BY <1>e, <2>1, EntryOf
  <2>3. a.data[2 * i - 1] \in Int /\ a.data[2 * i] \in Int
    BY <2>2
  <2> QED
    BY <2>3, NextFrontIs
<1>2. PICK z : z = [i \in 1..h |-> [r \in Fronts |-> NextFront(r, a.data[2 * i - 1], a.data[2 * i])]]
  OBVIOUS
<1>3. z \in Rules(h, Fronts)
  BY <1>0, <1>1, <1>2 DEF Rules
<1>l. PICK f : Loops(f, h, Fronts, base, z)
  BY <1>0, <1>3, <1>h, LoopExists
<1>4. f \in [0..h -> Fronts] /\ \A i \in 0..h : f[i] = IF i = 0 THEN base ELSE z[i][f[i-1]]
  BY <1>l DEF Loops
<1>5. \A i \in 0..h : f[i] = IF i = 0 THEN base ELSE NextFront(f[i-1], a.data[2 * i - 1], a.data[2 * i])
  <2> TAKE i \in 0..h
  <2>1. CASE i = 0
    BY <1>4, <2>1
  <2>2. CASE i # 0
    <3>a. i \in 1..h /\ i - 1 \in 0..h
      BY <1>h, <2>2
    <3>1. i \in 1..h /\ f[i-1] \in Fronts
      BY <1>4, <3>a
    <3> QED
      BY <1>2, <1>4, <2>2, <3>1
  <2> QED
    BY <2>1, <2>2
<1>6. FrontRule(f, a, n)
  BY <1>0, <1>4, <1>5, <1>p DEF FrontRule
<1>7. FrontRule(Leading(a, n), a, n)
  BY Zenon, <1>6 DEF Leading, FrontRule, NextFront
<1>8. PICK g : g = Leading(a, n)
  OBVIOUS
<1>9. \A i \in 0..h : g[i] = IF i = 0 THEN base ELSE NextFront(g[i-1], a.data[2 * i - 1], a.data[2 * i])
  BY <1>0, <1>7, <1>8, <1>p DEF FrontRule
<1>10. g[0] = base /\ \A i \in 1..h : g[i] = NextFront(g[i-1], a.data[2 * i - 1], a.data[2 * i])
  BY <1>h, <1>9
<1>11. \A i \in 0..h : g[i] \in Fronts
  <2>1. \A i \in 1..h : g[i-1] \in Fronts => g[i] \in Fronts
    BY <1>0, <1>1, <1>10
  <2>2. g[0] \in Fronts
    BY <1>0, <1>h, <1>10
  <2> QED
    BY <1>h, <2>1, <2>2, StaysIn
<1> QED
  BY <1>0, <1>8, <1>10, <1>11, <1>p
(* The boundaries of s, cut at p within its l-th range or at an end of it. *)
Cut(q, s, l, p) ==
    /\ l \in Nat \ {0} /\ 2 * l <= Len(s) /\ Len(q) = 2 * l
    /\ \A j \in 1..(2 * l - 1) : q[j] = s[j]
    /\ q[2 * l] = p /\ p \in Nat /\ s[2 * l - 1] <= p /\ p <= s[2 * l]

LEMMA CutCells ==
    ASSUME NEW s \in Seq(Nat), Rising(s), Len(s) % 2 = 0, NEW q \in Seq(Int),
           NEW l, NEW p, Cut(q, s, l, p)
    PROVE  /\ q \in Seq(Nat) /\ Sorted(q) /\ Len(q) % 2 = 0
           /\ \A x \in Nat : \E k : Cell(q, k, x) /\ (k % 2 = 1 <=> x \in AsSet(s) /\ x < p)
<1>m. PICK m : m = 2 * l
  OBVIOUS
<1>1. /\ m \in Nat /\ m >= 2 /\ m <= Len(s) /\ Len(q) = m /\ (\A j \in 1..(m-1) : q[j] = s[j])
      /\ q[m] = p /\ p \in Nat /\ s[m-1] <= p /\ p <= s[m] /\ Len(s) \in Nat
  <2>1. l \in Nat \ {0}
    BY DEF Cut
  <2>2. m \in Nat /\ m >= 2
    BY <1>m, <2>1
  <2>3. Len(s) \in Nat
    OBVIOUS
  <2>4. m <= Len(s) /\ Len(q) = m /\ (\A j \in 1..(m-1) : q[j] = s[j])
    BY <1>m DEF Cut
  <2>5. q[m] = p /\ p \in Nat /\ s[m-1] <= p /\ p <= s[m]
    BY <1>m DEF Cut
  <2> QED
    BY <2>2, <2>3, <2>4, <2>5
<1>e. m % 2 = 0
  <2>1. l \in Nat
    BY DEF Cut
  <2> QED
    BY <1>m, <2>1, Twice
<1>2. \A j \in 1..Len(s) : s[j] \in Nat
  OBVIOUS
<1>3. \A j \in 1..m : q[j] \in Nat /\ (j = m \/ (j \in 1..(m-1) /\ q[j] = s[j]))
  <2> TAKE j \in 1..m
  <2>1. j = m \/ (j \in 1..(m-1) /\ j \in 1..Len(s))
    BY <1>1
  <2> QED
    BY <1>1, <1>2, <2>1
<1>4. q \in Seq(Nat)
  BY <1>1, <1>3
<1>5. \A i, j \in 1..Len(s) : i < j => s[i] < s[j]
  BY DEF Rising
<1>6. Sorted(q)
  <2>1. ASSUME NEW i \in 1..m, NEW j \in 1..m, i < j PROVE q[i] <= q[j]
    <3>1. i \in 1..(m-1) /\ i \in 1..Len(s) /\ q[i] = s[i] /\ s[i] \in Nat
      BY <1>1, <1>2, <1>3, <2>1
    <3>2. CASE j = m
      <4>1. i = m - 1 \/ i < m - 1
        BY <1>1, <3>1
      <4>2. m - 1 \in 1..Len(s) /\ s[m-1] \in Nat
        BY <1>1, <1>2
      <4>3. s[i] <= s[m-1]
        BY <1>5, <3>1, <4>1, <4>2
      <4> QED
        BY <1>1, <3>1, <3>2, <4>2, <4>3
    <3>3. CASE j \in 1..(m-1) /\ q[j] = s[j]
      <4>p. PICK n : n = Len(s)
        OBVIOUS
      <4>a. m \in Nat /\ m <= n /\ n \in Nat
        BY <1>1, <4>p
      <4>b. j \in 1..n
        BY <3>3, <4>a
      <4>1. j \in 1..Len(s)
        BY <4>b, <4>p
      <4>2. s[i] < s[j] /\ s[j] \in Nat
        BY <1>2, <1>5, <2>1, <3>1, <4>1
      <4> QED
        BY <3>1, <3>3, <4>2
    <3> QED
      BY <1>3, <3>2, <3>3
  <2> QED
    BY <1>1, <2>1 DEF Sorted
<1>7. ASSUME NEW x \in Nat, ~(x < p)
      PROVE  \E k : Cell(q, k, x) /\ (k % 2 = 1 <=> x \in AsSet(s) /\ x < p)
  <2>1. m \in 0..Len(q) /\ q[m] <= x /\ ~(m + 1 <= Len(q))
    BY <1>1, <1>7
  <2>2. Cell(q, m, x)
    BY <1>4, <1>6, <2>1, CellAt
  <2>3. ~(m % 2 = 1)
    BY <1>e
  <2> QED
    BY <1>7, <2>2, <2>3
<1>8. ASSUME NEW x \in Nat, x < p
      PROVE  \E k : Cell(q, k, x) /\ (k % 2 = 1 <=> x \in AsSet(s) /\ x < p)
  <2>1. PICK k : Cell(s, k, x)
    BY RisingIsSorted, CellExists
  <2>2. k \in 0..Len(s) /\ (\A j \in 1..k : s[j] <= x) /\ \A j \in (k+1)..Len(s) : x < s[j]
    BY <2>1 DEF Cell
  <2>3. k <= m - 1
    <3>1. ASSUME m <= k PROVE FALSE
      <4>1. m \in 1..k /\ m \in 1..Len(s)
        BY <1>1, <2>2, <3>1
      <4> QED
        BY <1>1, <1>2, <1>8, <2>2, <4>1
    <3> QED
      BY <1>1, <2>2, <3>1
  <2>4. k >= 1 => q[k] <= x
    <3>1. HAVE k >= 1
    <3>2. k \in 1..(m-1) /\ k \in 1..k
      BY <1>1, <2>2, <2>3, <3>1
    <3> QED
      BY <1>1, <2>2, <3>2
  <2>5. k + 1 <= m => x < q[k+1]
    <3>1. HAVE k + 1 <= m
    <3>h. PICK h : h = k + 1
      OBVIOUS
    <3>p. PICK n : n = Len(s)
      OBVIOUS
    <3>a. m \in Nat /\ m <= n /\ n \in Nat /\ k \in Nat
      BY <1>1, <2>2, <3>p
    <3>b. h \in 1..m /\ h \in (k+1)..n
      BY <3>1, <3>a, <3>h
    <3>2. h \in 1..m /\ h \in (k+1)..Len(s)
      BY <3>b, <3>p
    <3>3. x < s[h]
      BY <2>2, <3>2
    <3> QED
      BY <1>1, <1>3, <1>8, <3>2, <3>3, <3>h
  <2>6. Cell(q, k, x)
    <3>1. k \in 0..Len(q)
      BY <1>1, <2>2, <2>3
    <3> QED
      BY <1>1, <1>4, <1>6, <2>4, <2>5, <3>1, CellAt
  <2>7. x \in AsSet(s) <=> k % 2 = 1
    BY <2>1, CellDecides
  <2> QED
    BY <1>8, <2>6, <2>7
<1> QED
  BY <1>1, <1>4, <1>6, <1>7, <1>8, <1>e

FrontRight(r, k, s, n) ==
    /\ ~r.broke => /\ Len(r.out) = 2 * k /\ \A j \in 1..(2 * k) : r.out[j] = s[j]
                   /\ r.left \in Nat /\ r.left = n - BelowAt(s, 2 * k)
    /\ r.broke => \E l, p : Cut(r.out, s, l, p) /\ Below(AsSet(s), p) = n

LEMMA FrontStays ==
    ASSUME NEW s \in Seq(Nat), Rising(s), Len(s) % 2 = 0, NEW n \in Nat,
           NEW k \in Nat \ {0}, 2 * k <= Len(s),
           NEW r \in Fronts, FrontRight(r, k - 1, s, n)
    PROVE  FrontRight(NextFront(r, s[2 * k - 1], s[2 * k]), k, s, n)
<1>m. PICK m, g, v, e : m = 2 * k /\ g = 2 * (k - 1) /\ v = s[m-1] /\ e = s[m]
  OBVIOUS
<1>0. m \in 1..Len(s) /\ m - 1 \in 1..Len(s) /\ g = m - 2 /\ g \in Nat /\ m \in Nat /\ m >= 2
      /\ Len(s) \in Nat /\ k \in Nat
  BY <1>m
<1>1. m % 2 = 0 /\ (m - 1) % 2 = 1
  BY <1>0, <1>m, Twice
<1>2. v \in Nat /\ e \in Nat /\ v < e /\ v \in Int /\ e \in Int
  <2>1. s[m-1] \in Nat /\ s[m] \in Nat
    BY <1>0, EntryOf
  <2>2. s[m-1] < s[m]
    BY <1>0 DEF Rising
  <2> QED
    BY <1>m, <2>1, <2>2
<1>3. BelowAt(s, m) = BelowAt(s, m - 1) + (e - v) /\ BelowAt(s, m - 1) \in Nat
  BY <1>0, <1>1, <1>m, BelowSteps
<1>4. BelowAt(s, m - 1) = BelowAt(s, g) /\ BelowAt(s, m - 1) = Below(AsSet(s), v)
  <2>1. (m - 1) - 1 = g
    BY <1>0
  <2> QED
    BY <1>0, <1>1, <1>m, <2>1, BelowSteps
<1>q. PICK q : q = NextFront(r, v, e)
  OBVIOUS
<1>5. r.out \in Seq(Int) /\ r.left \in Int /\ r.broke \in BOOLEAN
  BY DEF Fronts
<1>6. CASE r.broke
  <2>1. q = r
    BY <1>2, <1>6, <1>q, NextFrontIs
  <2>2. \E l, p : Cut(r.out, s, l, p) /\ Below(AsSet(s), p) = n
    BY <1>6 DEF FrontRight
  <2>3. FrontRight(q, k, s, n)
    BY <1>6, <2>1, <2>2 DEF FrontRight
  <2> QED
    BY <1>m, <1>q, <2>3
<1>7. ASSUME ~r.broke
      PROVE  /\ Len(r.out) = g /\ \A j \in 1..g : r.out[j] = s[j]
             /\ r.left \in Nat /\ r.left = n - BelowAt(s, g)
  BY <1>7, <1>m DEF FrontRight
<1>8. CASE ~r.broke /\ e - v >= r.left
  <2>p. PICK p : p = v + r.left
    OBVIOUS
  <2>1. q.broke /\ q.out = r.out \o <<v, p>>
    BY <1>2, <1>8, <1>q, <2>p, NextFrontIs
  <2>2. p \in Nat /\ v <= p /\ p <= e /\ p \in Int
    BY <1>2, <1>7, <1>8, <2>p
  <2>3. /\ q.out \in Seq(Int) /\ Len(q.out) = m /\ q.out[m-1] = v /\ q.out[m] = p
        /\ \A j \in 1..g : q.out[j] = s[j]
    <3>1. /\ q.out \in Seq(Int) /\ Len(q.out) = Len(r.out) + 2
          /\ q.out[Len(r.out) + 1] = v /\ q.out[Len(r.out) + 2] = p
          /\ \A j \in 1..Len(r.out) : q.out[j] = r.out[j]
      BY <1>2, <1>5, <2>1, <2>2, AppendTwo
    <3>2. Len(r.out) = g /\ g + 1 = m - 1 /\ g + 2 = m
      BY <1>0, <1>7, <1>8
    <3> QED
      BY <1>7, <1>8, <3>1, <3>2
  <2>4. \A j \in 1..(m-1) : q.out[j] = s[j]
    <3> TAKE j \in 1..(m-1)
    <3>1. j = m - 1 \/ j \in 1..g
      BY <1>0
    <3> QED
      BY <1>m, <2>3, <3>1
  <2>5. Cut(q.out, s, k, p)
    <3>1. k \in Nat \ {0} /\ 2 * k <= Len(s) /\ 2 * k = m
      BY <1>m
    <3> QED
      BY <1>m, <2>2, <2>3, <2>4, <3>1 DEF Cut
  <2>6. Below(AsSet(s), p) = n
    <3>1. Full(AsSet(s), v, e)
      <4>1. (m - 1) + 1 = m
        BY <1>0
      <4> QED
        BY <1>0, <1>1, <1>m, <4>1, BetweenBoundaries
    <3>2. Full(AsSet(s), v, p)
      <4>1. \A y \in v..(p - 1) : y \in v..(e - 1)
        BY <1>2, <2>2
      <4> QED
        BY <3>1, <4>1 DEF Full
    <3>3. AsSet(s) \in SUBSET Nat
      BY InOddCell
    <3>4. Below(AsSet(s), p) = Below(AsSet(s), v) + (p - v) /\ Below(AsSet(s), v) \in Nat
      BY <1>2, <2>2, <3>2, <3>3, BelowGrows
    <3>5. r.left \in Nat /\ r.left = n - Below(AsSet(s), v)
      BY <1>4, <1>7, <1>8
    <3> QED
      BY <1>2, <2>p, <3>4, <3>5
  <2>7. FrontRight(q, k, s, n)
    BY <2>1, <2>5, <2>6 DEF FrontRight
  <2> QED
    BY <1>m, <1>q, <2>7
<1>9. CASE ~r.broke /\ ~(e - v >= r.left)
  <2>1. ~q.broke /\ q.out = r.out \o <<v, e>> /\ q.left = r.left - (e - v)
    BY <1>2, <1>9, <1>q, NextFrontIs
  <2>3. /\ q.out \in Seq(Int) /\ Len(q.out) = m /\ q.out[m-1] = v /\ q.out[m] = e
        /\ \A j \in 1..g : q.out[j] = s[j]
    <3>1. /\ q.out \in Seq(Int) /\ Len(q.out) = Len(r.out) + 2
          /\ q.out[Len(r.out) + 1] = v /\ q.out[Len(r.out) + 2] = e
          /\ \A j \in 1..Len(r.out) : q.out[j] = r.out[j]
      BY <1>2, <1>5, <2>1, AppendTwo
    <3>2. Len(r.out) = g /\ g + 1 = m - 1 /\ g + 2 = m
      BY <1>0, <1>7, <1>9
    <3> QED
      BY <1>7, <1>9, <3>1, <3>2
  <2>4. \A j \in 1..m : q.out[j] = s[j]
    <3> TAKE j \in 1..m
    <3>1. j = m \/ j = m - 1 \/ j \in 1..g
      BY <1>0
    <3> QED
      BY <1>m, <2>3, <3>1
  <2>5. q.left \in Nat /\ q.left = n - BelowAt(s, m)
    <3>1. r.left \in Nat /\ r.left = n - BelowAt(s, m - 1)
      BY <1>4, <1>7, <1>9
    <3> QED
      BY <1>2, <1>3, <1>9, <2>1, <3>1
  <2>7. FrontRight(q, k, s, n)
    BY <1>m, <2>1, <2>3, <2>4, <2>5 DEF FrontRight
  <2> QED
    BY <1>m, <1>q, <2>7
<1> QED
  BY <1>6, <1>8, <1>9

LEMMA FirstRight ==
    ASSUME NEW a \in RangeSets, NEW n \in Nat
    PROVE  /\ First(a, n) \in RangeSets
           /\ AsSet(First(a, n).data) =
                {x \in AsSet(a.data) : Cardinality({y \in AsSet(a.data) : y < x}) < n}
<1>p. PICK s, A, f : s = a.data /\ A = AsSet(s) /\ f = First(a, n)
  OBVIOUS
<1>1. s \in Seq(Nat) /\ Rising(s) /\ Len(s) % 2 = 0 /\ A \in SUBSET Nat /\ Len(s) \in Nat
  BY <1>p, RangeSetIs
<1>2. Size(a) = Cardinality(A) /\ Size(a) \in Nat /\ Cardinality(A) = BelowAt(s, Len(s))
  BY <1>1, <1>p, SizeRight, CountedAtLast
<1>3. \A x \in A : x \in Nat /\ Below(A, x) \in Nat /\ Below(A, x + 1) = Below(A, x) + 1
  <2> TAKE x \in A
  <2>1. x \in Nat
    BY <1>1
  <2>w. PICK w : w = x + 1
    OBVIOUS
  <2>2. w \in Nat /\ x <= w /\ w - x = 1
    BY <2>1, <2>w
  <2>3. Full(A, x, w)
    <3>1. \A y \in x..(w - 1) : y = x
      BY <2>1, <2>w
    <3>2. \A y \in x..(w - 1) : y \in A
      BY <3>1
    <3> QED
      BY <3>2 DEF Full
  <2>4. Below(A, w) = Below(A, x) + (w - x) /\ Below(A, x) \in Nat
    BY <1>1, <2>1, <2>2, <2>3, BelowGrows
  <2> QED
    BY <2>1, <2>2, <2>4, <2>w
<1>4. CASE Size(a) <= n
  <2>1. f = a
    BY <1>4, <1>p DEF First
  <2>2. \A x \in A : Below(A, x) < n
    <3> TAKE x \in A
    <3>1. x \in Nat /\ x + 1 \in Nat /\ Below(A, x) \in Nat /\ Below(A, x + 1) = Below(A, x) + 1
      BY <1>3
    <3>2. Below(A, x + 1) <= Cardinality(A)
      <4>1. {y \in A : y < x + 1} \in SUBSET A
        OBVIOUS
      <4>2. IsFiniteSet(A)
        BY <1>p, SizeRight
      <4> QED
        BY <4>1, <4>2, FS_Subset DEF Below
    <3> QED
      BY <1>2, <1>4, <3>1, <3>2
  <2>3. A = {x \in A : Below(A, x) < n}
    BY <2>2
  <2> QED
    BY <1>p, <2>1, <2>3 DEF Below
<1>5. CASE ~(Size(a) <= n)
  <2>l. PICK h, g, r : h = Len(s) \div 2 /\ g = Leading(a, n) /\ r = g[h]
    OBVIOUS
  <2>1. h \in Nat /\ Len(s) = 2 * h
    BY <1>1, <2>l, EvenHalf
  <2>2. /\ g[0] = [out |-> <<>>, left |-> n, broke |-> FALSE]
        /\ \A k \in 1..h : g[k] = NextFront(g[k-1], s[2 * k - 1], s[2 * k])
        /\ \A k \in 0..h : g[k] \in Fronts
    <3>1. n \in Int
      OBVIOUS
    <3> QED
      BY <1>p, <2>l, <3>1, FrontRuns
  <2>3. \A k \in 0..h : FrontRight(g[k], k, s, n)
    <3> DEFINE B == {k \in 0..h : FrontRight(g[k], k, s, n)}
    <3>1. FrontRight(g[0], 0, s, n)
      BY <2>2 DEF FrontRight, BelowAt
    <3>2. ASSUME NEW k \in 1..h, k - 1 \in B PROVE k \in B
      <4>1. k - 1 \in 0..h /\ k \in 0..h /\ k \in Nat \ {0} /\ 2 * k <= Len(s)
        BY <2>1
      <4>2. FrontRight(g[k-1], k - 1, s, n) /\ g[k-1] \in Fronts
        BY <2>2, <3>2, <4>1
      <4>3. FrontRight(NextFront(g[k-1], s[2 * k - 1], s[2 * k]), k, s, n)
        BY <1>1, <4>1, <4>2, FrontStays
      <4> QED
        BY <2>2, <4>1, <4>3
    <3>3. \A k \in 0..h : k \in B
      <4>1. B \in SUBSET (0..h) /\ 0 \in 0..h /\ 0 \in B
        BY <2>1, <3>1
      <4>2. \A k \in (0+1)..h : k - 1 \in B => k \in B
        BY <3>2
      <4> HIDE DEF B
      <4> QED
        BY <2>1, <4>1, <4>2, FromOn
    <3> QED
      BY <3>3
  <2>4. FrontRight(r, h, s, n) /\ r \in Fronts
    <3>1. h \in 0..h
      BY <2>1
    <3> QED
      BY <2>2, <2>3, <2>l, <3>1
  <2>5. r.broke
    <3>1. ASSUME ~r.broke PROVE FALSE
      <4>1. r.left \in Nat /\ r.left = n - BelowAt(s, 2 * h)
        BY <2>4, <3>1 DEF FrontRight
      <4> QED
        BY <1>2, <1>5, <2>1, <4>1
    <3> QED
      BY <3>1
  <2>6. PICK l, p : Cut(r.out, s, l, p) /\ Below(A, p) = n
    BY <1>p, <2>4, <2>5 DEF FrontRight
  <2>7. r.out \in Seq(Int) /\ p \in Nat
    BY <2>4, <2>6 DEF Fronts, Cut
  <2>8. /\ r.out \in Seq(Nat) /\ Sorted(r.out) /\ Len(r.out) % 2 = 0
        /\ \A x \in Nat : \E k : Cell(r.out, k, x) /\ (k % 2 = 1 <=> x \in AsSet(s) /\ x < p)
    BY <1>1, <2>6, <2>7, CutCells
  <2>9. f = FromData(r.out)
    BY <1>5, <1>p, <2>l DEF First
  <2>10. /\ f \in RangeSets
         /\ \A x \in Nat : \A k : Cell(r.out, k, x) => (x \in AsSet(f.data) <=> k % 2 = 1)
    BY <2>8, <2>9, FromDataRight
  <2>11. \A x \in Nat : x \in AsSet(f.data) <=> x \in A /\ x < p
    <3> TAKE x \in Nat
    <3>1. PICK k : Cell(r.out, k, x) /\ (k % 2 = 1 <=> x \in AsSet(s) /\ x < p)
      BY <2>8
    <3> QED
      BY <1>p, <2>10, <3>1
  <2>12. \A x \in A : x < p <=> Below(A, x) < n
    <3> TAKE x \in A
    <3>1. x \in Nat /\ x + 1 \in Nat /\ Below(A, x) \in Nat /\ Below(A, x + 1) = Below(A, x) + 1
      BY <1>3
    <3>2. CASE x < p
      <4>1. x + 1 <= p
        BY <2>7, <3>1, <3>2
      <4>2. Below(A, x + 1) <= Below(A, p)
        BY <1>1, <2>7, <3>1, <4>1, BelowGrows
      <4> QED
        BY <2>6, <3>1, <3>2, <4>2
    <3>3. CASE ~(x < p)
      <4>1. p <= x
        BY <2>7, <3>1, <3>3
      <4>2. Below(A, p) <= Below(A, x)
        BY <1>1, <2>7, <3>1, <4>1, BelowGrows
      <4> QED
        BY <2>6, <3>1, <3>3, <4>2
    <3> QED
      BY <3>2, <3>3
  <2>13. AsSet(f.data) \subseteq Nat
    BY <2>10, RangeSetIs
  <2>14. AsSet(f.data) = {x \in A : Below(A, x) < n}
    <3>1. \A x : x \in AsSet(f.data) <=> x \in A /\ Below(A, x) < n
      BY <1>3, <2>11, <2>12, <2>13
    <3> QED
      BY <3>1
  <2> QED
    BY <1>p, <2>10, <2>14 DEF Below
<1> QED
  BY <1>4, <1>5

-----------------------------------------------------------------------------
(* data.sort().                                                            *)

(* x is put behind the m entries that are not above it.                    *)
InsertedAt(q, s, m, x) ==
    /\ q \in Seq(Nat) /\ Len(q) = Len(s) + 1
    /\ (\A j \in 1..m : q[j] = s[j]) /\ q[m+1] = x
    /\ \A j \in (m+1)..Len(s) : q[j+1] = s[j]

LEMMA TailIs ==
    ASSUME NEW s \in Seq(Nat), NEW n, n = Len(s), NEW m \in Nat, m <= n,
           NEW v, v = SubSeq(s, m + 1, n)
    PROVE  v \in Seq(Nat) /\ Len(v) = n - m /\ \A j \in 1..(n-m) : v[j] = s[j+m]
<1>1. n \in Nat
  OBVIOUS
<1>2. \A j \in (m+1)..n : j \in 1..Len(s)
  OBVIOUS
<1>3. \A j \in (m+1)..n : s[j] \in Nat
  BY <1>2
<1>4. v \in Seq(Nat) /\ Len(v) = n - m
  BY <1>1, <1>3
<1>5. \A j \in 1..(n-m) : v[j] = s[j+m]
  BY <1>1
<1> QED
  BY <1>4, <1>5

LEMMA InsertIs ==
    ASSUME NEW s \in Seq(Nat), NEW x \in Nat, NEW m, Cell(s, m, x)
    PROVE  InsertedAt(Insert(s, x), s, m, x)
<1>p. PICK n : n = Len(s)
  OBVIOUS
<1>0. n \in Nat /\ DOMAIN s = 1..n /\ \A j \in 1..n : s[j] \in Nat
  BY <1>p
<1>1. m \in 0..n /\ (\A j \in 1..m : s[j] <= x) /\ \A j \in (m+1)..n : x < s[j]
  BY <1>p DEF Cell
<1>2. Cardinality({j \in DOMAIN s : s[j] <= x}) = m
  <2>1. ASSUME NEW j \in 1..n PROVE s[j] <= x <=> j \in 1..m
    <3>1. j \in 1..m \/ j \in (m+1)..n
      BY <1>0, <1>1
    <3>2. CASE j \in 1..m
      BY <1>1, <3>2
    <3>3. CASE j \in (m+1)..n
      <4>1. x < s[j] /\ s[j] \in Nat
        BY <1>0, <1>1, <3>3
      <4>2. j \notin 1..m
        BY <1>1, <3>3
      <4> QED
        BY <4>1, <4>2
    <3> QED
      BY <3>1, <3>2, <3>3
  <2>2. \A j \in 1..m : j \in 1..n
    BY <1>0, <1>1
  <2>3. {j \in 1..n : s[j] <= x} = 1..m
    BY <2>1, <2>2
  <2>4. 1 \in Int /\ m \in Int /\ m >= 0
    BY <1>1
  <2>5. Cardinality(1..m) = m
    BY <2>4, FS_Interval
  <2> QED
    BY <1>0, <2>3, <2>5
<1>q. PICK q, u, v : q = Insert(s, x) /\ u = SubSeq(s, 1, m) /\ v = SubSeq(s, m + 1, n)
  OBVIOUS
<1>3. q = (u \o <<x>>) \o v
  BY <1>2, <1>p, <1>q DEF Insert
<1>4. u \in Seq(Nat) /\ Len(u) = m /\ \A j \in 1..m : u[j] = s[j]
  BY <1>1, <1>p, <1>q
<1>5. v \in Seq(Nat) /\ Len(v) = n - m /\ \A j \in 1..(n-m) : v[j] = s[j+m]
  <2>1. m \in Nat /\ n \in Nat /\ m <= n /\ n = Len(s) /\ v = SubSeq(s, m + 1, n)
    BY <1>0, <1>1, <1>p, <1>q
  <2> HIDE <1>p, <1>q
  <2> QED
    BY <2>1, TailIs
<1>w. PICK w : w = u \o <<x>>
  OBVIOUS
<1>6. w \in Seq(Nat) /\ Len(w) = m + 1 /\ w[m+1] = x /\ \A j \in 1..m : w[j] = u[j]
  <2>1. <<x>> \in Seq(Nat) /\ Len(<<x>>) = 1 /\ <<x>>[1] = x
    OBVIOUS
  <2>2. w \in Seq(Nat) /\ Len(w) = m + 1
    BY <1>4, <1>w, <2>1
  <2>3. \A j \in 1..(m+1) : w[j] = IF j <= m THEN u[j] ELSE <<x>>[j - m]
    BY <1>4, <1>w, <2>1, <2>2
  <2>4. m \in Nat
    BY <1>1
  <2> QED
    BY <2>1, <2>2, <2>3, <2>4
<1>7. q = w \o v
  BY <1>3, <1>w
<1>8. /\ q \in Seq(Nat) /\ Len(q) = n + 1 /\ (\A j \in 1..(m+1) : q[j] = w[j])
      /\ \A j \in 1..(n-m) : q[j + (m+1)] = v[j]
  <2>1. q \in Seq(Nat) /\ Len(q) = Len(w) + Len(v)
    <3>1. w \in Seq(Nat) /\ v \in Seq(Nat)
      BY <1>5, <1>6
    <3> QED
      BY <1>7, <3>1
  <2>2. m \in Nat /\ n \in Nat
    BY <1>0, <1>1
  <2>3. (m + 1) + (n - m) = n + 1
    BY <2>2
  <2>4. \A j \in 1..(m+1) : q[j] = w[j]
    BY <1>5, <1>6, <1>7, <2>2
  <2>5. \A j \in 1..(n-m) : q[j + (m+1)] = v[j]
    BY <1>5, <1>6, <1>7, <2>2
  <2>6. Len(q) = n + 1
    BY <1>5, <1>6, <2>1, <2>3
  <2> QED
    BY <2>1, <2>4, <2>5, <2>6
<1>9. \A j \in 1..m : q[j] = s[j]
  <2> TAKE j \in 1..m
  <2>1. j \in 1..(m+1)
    BY <1>1
  <2> QED
    BY <1>4, <1>6, <1>8, <2>1
<1>10. q[m+1] = x
  <2>1. m + 1 \in 1..(m+1)
    BY <1>1
  <2> QED
    BY <1>6, <1>8, <2>1
<1>11. \A j \in (m+1)..n : q[j+1] = s[j]
  <2> TAKE j \in (m+1)..n
  <2>h. PICK h : h = j - m
    OBVIOUS
  <2>1. h \in 1..(n-m) /\ h + (m+1) = j + 1 /\ h + m = j
    BY <1>0, <1>1, <2>h
  <2> QED
    BY <1>5, <1>8, <2>1
<1> QED
  BY <1>8, <1>9, <1>10, <1>11, <1>p, <1>q DEF InsertedAt

(* The cells move up by one from x on.                                     *)
LEMMA InsertRight ==
    ASSUME NEW s \in Seq(Nat), Sorted(s), NEW x \in Nat
    PROVE  /\ Insert(s, x) \in Seq(Nat) /\ Len(Insert(s, x)) = Len(s) + 1 /\ Sorted(Insert(s, x))
           /\ \A y \in Nat : \A k : Cell(s, k, y) =>
                 Cell(Insert(s, x), k + (IF x <= y THEN 1 ELSE 0), y)
<1>p. PICK n, q : n = Len(s) /\ q = Insert(s, x)
  OBVIOUS
<1>0. n \in Nat /\ \A j \in 1..n : s[j] \in Nat
  BY <1>p
<1>c. PICK m : Cell(s, m, x)
  BY CellExists
<1>1. m \in 0..n /\ (\A j \in 1..m : s[j] <= x) /\ \A j \in (m+1)..n : x < s[j]
  BY <1>c, <1>p DEF Cell
<1>2. /\ q \in Seq(Nat) /\ Len(q) = n + 1
      /\ (\A j \in 1..m : q[j] = s[j]) /\ q[m+1] = x
      /\ \A j \in (m+1)..n : q[j+1] = s[j]
  BY <1>c, <1>p, InsertIs DEF InsertedAt
<1>3. \A i \in 1..(n+1) : \/ i \in 1..m /\ i \in 1..n /\ q[i] = s[i]
                          \/ i = m + 1 /\ q[i] = x
                          \/ i - 1 \in (m+1)..n /\ i - 1 \in 1..n /\ q[i] = s[i-1]
  <2> TAKE i \in 1..(n+1)
  <2>1. CASE i <= m
    <3>1. i \in 1..m /\ i \in 1..n
      BY <1>0, <1>1, <2>1
    <3> QED
      BY <1>2, <3>1
  <2>2. CASE i = m + 1
    BY <1>2, <2>2
  <2>3. CASE i > m + 1
    <3>h. PICK h : h = i - 1
      OBVIOUS
    <3>1. h \in (m+1)..n /\ h \in 1..n /\ h + 1 = i
      BY <1>0, <1>1, <2>3, <3>h
    <3> QED
      BY <1>2, <3>1, <3>h
  <2> QED
    BY <1>1, <2>1, <2>2, <2>3
<1>4. Sorted(q)
  <2>1. ASSUME NEW i \in 1..(n+1), NEW j \in 1..(n+1), i < j PROVE q[i] <= q[j]
    <3>1. \A g, h \in 1..n : g < h => s[g] <= s[h]
      BY <1>p DEF Sorted
    <3>2. CASE i \in 1..m /\ i \in 1..n /\ q[i] = s[i]
      <4>1. CASE j \in 1..m /\ j \in 1..n /\ q[j] = s[j]
        BY <2>1, <3>1, <3>2, <4>1
      <4>2. CASE j = m + 1 /\ q[j] = x
        BY <1>1, <3>2, <4>2
      <4>3. CASE j - 1 \in (m+1)..n /\ j - 1 \in 1..n /\ q[j] = s[j-1]
        <5>1. i < j - 1
          BY <1>1, <3>2, <4>3
        <5> QED
          BY <3>1, <3>2, <4>3, <5>1
      <4> QED
        BY <1>3, <4>1, <4>2, <4>3
    <3>3. CASE i = m + 1 /\ q[i] = x
      <4>1. j - 1 \in (m+1)..n /\ q[j] = s[j-1] /\ j - 1 \in 1..n
        BY <1>1, <1>3, <2>1, <3>3
      <4>2. x < s[j-1] /\ s[j-1] \in Nat
        BY <1>0, <1>1, <4>1
      <4> QED
        BY <3>3, <4>1, <4>2
    <3>4. CASE i - 1 \in (m+1)..n /\ i - 1 \in 1..n /\ q[i] = s[i-1]
      <4>1. j - 1 \in (m+1)..n /\ q[j] = s[j-1] /\ j - 1 \in 1..n
        BY <1>1, <1>3, <2>1, <3>4
      <4>2. i - 1 < j - 1
        BY <2>1
      <4> QED
        BY <3>1, <3>4, <4>1, <4>2
    <3> QED
      BY <1>3, <3>2, <3>3, <3>4
  <2> QED
    BY <1>2, <2>1 DEF Sorted
<1>5. ASSUME NEW y \in Nat, NEW k, Cell(s, k, y)
      PROVE  Cell(q, k + (IF x <= y THEN 1 ELSE 0), y)
  <2>1. k \in 0..n /\ (\A j \in 1..k : s[j] <= y) /\ \A j \in (k+1)..n : y < s[j]
    BY <1>5, <1>p DEF Cell
  <2>2. CASE x <= y
    <3>1. m <= k
      <4>1. ASSUME k < m PROVE FALSE
        <5>1. m \in (k+1)..n /\ m \in 1..m /\ m \in 1..n
          BY <1>1, <2>1, <4>1
        <5>2. y < s[m] /\ s[m] <= x /\ s[m] \in Nat
          BY <1>0, <1>1, <2>1, <5>1
        <5> QED
          BY <2>2, <5>2
      <4> QED
        BY <1>1, <2>1, <4>1
    <3>2. \A i \in 1..(k+1) : q[i] <= y
      <4> TAKE i \in 1..(k+1)
      <4>1. i \in 1..(n+1)
        BY <1>0, <2>1
      <4>2. CASE i \in 1..m /\ i \in 1..n /\ q[i] = s[i]
        <5>1. i \in 1..k
          BY <1>1, <2>1, <3>1, <4>2
        <5> QED
          BY <2>1, <4>2, <5>1
      <4>3. CASE i = m + 1 /\ q[i] = x
        BY <2>2, <4>3
      <4>4. CASE i - 1 \in (m+1)..n /\ i - 1 \in 1..n /\ q[i] = s[i-1]
        <5>1. i - 1 \in 1..k
          BY <1>0, <1>1, <2>1, <4>4
        <5> QED
          BY <2>1, <4>4, <5>1
      <4> QED
        BY <1>3, <4>1, <4>2, <4>3, <4>4
    <3>3. \A i \in (k+2)..(n+1) : y < q[i]
      <4> TAKE i \in (k+2)..(n+1)
      <4>1. i \in 1..(n+1) /\ ~(i \in 1..m) /\ i # m + 1
        BY <1>1, <2>1, <3>1
      <4>2. i - 1 \in (m+1)..n /\ q[i] = s[i-1]
        BY <1>3, <4>1
      <4>h. PICK h : h = i - 1
        OBVIOUS
      <4>3. h \in (k+1)..n
        <5>1. k \in Nat /\ n \in Nat
          BY <1>0, <2>1
        <5> QED
          BY <4>h, <5>1
      <4> QED
        BY <2>1, <4>2, <4>3, <4>h
    <3>k. PICK l : l = k + 1
      OBVIOUS
    <3>4. l \in 0..Len(q) /\ (\A i \in 1..l : q[i] <= y) /\ \A i \in (l+1)..Len(q) : y < q[i]
      <4>1. l \in 0..(n+1) /\ l + 1 = k + 2
        BY <1>0, <2>1, <3>k
      <4> QED
        BY <1>2, <3>2, <3>3, <3>k, <4>1
    <3> QED
      BY <2>2, <3>4, <3>k DEF Cell
  <2>3. CASE ~(x <= y)
    <3>1. k <= m
      <4>1. ASSUME m < k PROVE FALSE
        <5>1. k \in (m+1)..n /\ k \in 1..k /\ k \in 1..n
          BY <1>1, <2>1, <4>1
        <5>2. x < s[k] /\ s[k] <= y /\ s[k] \in Nat
          BY <1>0, <1>1, <2>1, <5>1
        <5> QED
          BY <2>3, <5>2
      <4> QED
        BY <1>1, <2>1, <4>1
    <3>2. \A i \in 1..k : q[i] <= y
      <4> TAKE i \in 1..k
      <4>1. i \in 1..m
        BY <1>1, <2>1, <3>1
      <4> QED
        BY <1>2, <2>1, <4>1
    <3>3. \A i \in (k+1)..(n+1) : y < q[i]
      <4> TAKE i \in (k+1)..(n+1)
      <4>1. i \in 1..(n+1)
        BY <1>0, <2>1
      <4>2. CASE i \in 1..m /\ i \in 1..n /\ q[i] = s[i]
        <5>1. i \in (k+1)..n
          BY <2>1, <4>2
        <5> QED
          BY <2>1, <4>2, <5>1
      <4>3. CASE i = m + 1 /\ q[i] = x
        BY <2>3, <4>3
      <4>4. CASE i - 1 \in (m+1)..n /\ i - 1 \in 1..n /\ q[i] = s[i-1]
        <5>1. i - 1 \in (k+1)..n
          BY <1>1, <2>1, <3>1, <4>4
        <5> QED
          BY <2>1, <4>4, <5>1
      <4> QED
        BY <1>3, <4>1, <4>2, <4>3, <4>4
    <3>4. k \in 0..Len(q)
      BY <1>0, <1>2, <2>1
    <3>5. Cell(q, k, y)
      BY <1>2, <3>2, <3>3, <3>4 DEF Cell
    <3>6. k + (IF x <= y THEN 1 ELSE 0) = k
      BY <2>1, <2>3
    <3> QED
      BY <3>5, <3>6
  <2> QED
    BY <2>2, <2>3
<1> QED
  BY <1>2, <1>4, <1>5, <1>p

Lists == {q \in Seq(Nat) : Sorted(q)}

SortingRule(f, s) ==
    f = [i \in 0..Len(s) |-> IF i = 0 THEN <<>> ELSE Insert(f[i-1], s[i])]

LEMMA SortingRuns ==
    ASSUME NEW s \in Seq(Nat)
    PROVE  /\ Sorting(s)[0] = <<>>
           /\ \A i \in 1..Len(s) : Sorting(s)[i] = Insert(Sorting(s)[i-1], s[i])
           /\ \A i \in 0..Len(s) : Sorting(s)[i] \in Lists
<1>p. PICK n, base : n = Len(s) /\ base = <<>>
  OBVIOUS
<1>0. n = Len(s) /\ n \in Nat /\ base = <<>> /\ base \in Lists
  BY <1>p DEF Lists, Sorted
<1>1. ASSUME NEW i \in 1..n, NEW r \in Lists PROVE Insert(r, s[i]) \in Lists
  <2>1. s[i] \in Nat
    BY <1>0
  <2>2. r \in Seq(Nat) /\ Sorted(r)
    BY DEF Lists
  <2> QED
    BY <2>1, <2>2, InsertRight DEF Lists
<1>2. PICK h : h = [i \in 1..n |-> [r \in Lists |-> Insert(r, s[i])]]
  OBVIOUS
<1>3. h \in Rules(n, Lists)
  BY <1>0, <1>1, <1>2 DEF Rules
<1>l. PICK f : Loops(f, n, Lists, base, h)
  BY <1>0, <1>3, LoopExists
<1>4. f \in [0..n -> Lists] /\ \A i \in 0..n : f[i] = IF i = 0 THEN base ELSE h[i][f[i-1]]
  BY <1>l DEF Loops
<1>5. \A i \in 0..n : f[i] = IF i = 0 THEN base ELSE Insert(f[i-1], s[i])
  <2> TAKE i \in 0..n
  <2>1. CASE i = 0
    BY <1>4, <2>1
  <2>2. CASE i # 0
    <3>a. i \in 1..n /\ i - 1 \in 0..n
      BY <1>0, <2>2
    <3>1. i \in 1..n /\ f[i-1] \in Lists
      BY <1>4, <3>a
    <3> QED
      BY <1>2, <1>4, <2>2, <3>1
  <2> QED
    BY <2>1, <2>2
<1>6. SortingRule(f, s)
  BY <1>0, <1>4, <1>5 DEF SortingRule
<1>7. SortingRule(Sorting(s), s)
  BY Zenon, <1>6 DEF Sorting, SortingRule
<1>8. PICK g : g = Sorting(s)
  OBVIOUS
<1>9. \A i \in 0..n : g[i] = IF i = 0 THEN base ELSE Insert(g[i-1], s[i])
  BY <1>0, <1>7, <1>8 DEF SortingRule
<1>10. g[0] = base /\ \A i \in 1..n : g[i] = Insert(g[i-1], s[i])
  BY <1>0, <1>9
<1>11. \A i \in 0..n : g[i] \in Lists
  <2>1. \A i \in 1..n : g[i-1] \in Lists => g[i] \in Lists
    BY <1>0, <1>1, <1>10
  <2>2. g[0] \in Lists
    BY <1>0, <1>10
  <2> QED
    BY <1>0, <2>1, <2>2, StaysIn
<1> QED
  BY <1>0, <1>8, <1>10, <1>11
-----------------------------------------------------------------------------
(* _parse_internal.                                                        *)

LEMMA Halves ==
    ASSUME NEW m \in Nat \ {0}
    PROVE  /\ (2 * m - 1) % 2 = 1 /\ ((2 * m - 1) + 1) \div 2 = m
           /\ (2 * m) % 2 = 0 /\ (2 * m) \div 2 = m
OBVIOUS

LEMMA OddOrEven ==
    ASSUME NEW n \in Nat, NEW i \in 1..(2 * n)
    PROVE  \E m \in 1..n : i = 2 * m - 1 \/ i = 2 * m
<1>1. PICK q, r : q = i \div 2 /\ r = i % 2
  OBVIOUS
<1>2. q \in Nat /\ r \in 0..1 /\ i = 2 * q + r
  BY <1>1
<1>3. CASE r = 0
  <2>1. q \in 1..n /\ i = 2 * q
    BY <1>2, <1>3
  <2> QED
    BY <2>1
<1>4. CASE r = 1
  <2>1. q + 1 \in 1..n /\ i = 2 * (q + 1) - 1
    BY <1>2, <1>4
  <2> QED
    BY <2>1
<1> QED
  BY <1>2, <1>3, <1>4

Pairs == Nat \X Nat

LEMMA BoundsAre ==
    ASSUME NEW items \in Seq(Pairs)
    PROVE  /\ Bounds(items) \in Seq(Nat) /\ Len(Bounds(items)) = 2 * Len(items)
           /\ \A m \in 1..Len(items) : /\ Bounds(items)[2 * m - 1] = items[m][1]
                                       /\ Bounds(items)[2 * m] = items[m][2] + 1
<1>p. PICK n, b : n = Len(items) /\ b = Bounds(items)
  OBVIOUS
<1>0. n \in Nat /\ \A m \in 1..n : items[m][1] \in Nat /\ items[m][2] \in Nat
  BY <1>p DEF Pairs
<1>1. b = [i \in 1..(2 * n) |-> IF i % 2 = 1 THEN items[(i + 1) \div 2][1]
                                              ELSE items[i \div 2][2] + 1]
  BY <1>p DEF Bounds
<1>2. ASSUME NEW m \in 1..n
      PROVE  b[2 * m - 1] = items[m][1] /\ b[2 * m] = items[m][2] + 1
  <2>1. PICK h, l : h = 2 * m - 1 /\ l = 2 * m
    OBVIOUS
  <2>2. m \in Nat \ {0}
    BY <1>0
  <2>3. h % 2 = 1 /\ (h + 1) \div 2 = m /\ l % 2 = 0 /\ l \div 2 = m
    BY <2>1, <2>2, Halves
  <2>4. h \in 1..(2 * n) /\ l \in 1..(2 * n)
    BY <1>0, <2>1
  <2>5. b[h] = items[m][1]
    BY <1>1, <2>3, <2>4
  <2>6. b[l] = items[m][2] + 1
    BY <1>1, <2>3, <2>4
  <2> QED
    BY <2>1, <2>5, <2>6
<1>3. \A i \in 1..(2 * n) : b[i] \in Nat
  <2> TAKE i \in 1..(2 * n)
  <2>1. PICK m \in 1..n : i = 2 * m - 1 \/ i = 2 * m
    BY <1>0, OddOrEven
  <2>2. items[m][1] \in Nat /\ items[m][2] + 1 \in Nat
    BY <1>0
  <2>3. b[2 * m - 1] \in Nat /\ b[2 * m] \in Nat
    BY <1>2, <2>2
  <2> QED
    BY <2>1, <2>3
<1>4. PICK l : l = 2 * n
  OBVIOUS
<1>5. l \in Nat /\ b \in [1..l -> Nat]
  BY <1>0, <1>1, <1>3, <1>4
<1>6. b \in Seq(Nat) /\ Len(b) = l
  BY <1>5
<1> QED
  BY <1>p, <1>2, <1>4, <1>6

NextSeen(r, item) ==
    IF r.last <= item[1]
    THEN [r EXCEPT !.last = LastOf(@, item[1], item[2])]
    ELSE [r EXCEPT !.ok = FALSE]

SeenRule(f, items) ==
    f = [i \in 0..Len(items) |-> IF i = 0 THEN [last |-> -1, ok |-> TRUE]
                                 ELSE NextSeen(f[i-1], items[i])]

Sight == [last : Int, ok : BOOLEAN]

LEMMA NextSeenIs ==
    ASSUME NEW r \in Sight, NEW item \in Pairs
    PROVE  LET q == NextSeen(r, item) IN
           /\ q \in Sight
           /\ r.last <= item[1] => q.ok = r.ok /\ item[2] <= q.last /\ q.last <= item[2] + 1
           /\ ~(r.last <= item[1]) => ~q.ok
<1>0. item[1] \in Nat /\ item[2] \in Nat
  BY DEF Pairs
<1>1. r.last \in Int /\ r.ok \in BOOLEAN /\ r = [last |-> r.last, ok |-> r.ok]
  BY DEF Sight
<1>q. PICK q : q = NextSeen(r, item)
  OBVIOUS
<1>2. CASE r.last <= item[1]
  <2>l. PICK l : l = LastOf(r.last, item[1], item[2])
    OBVIOUS
  <2>1. l \in Int /\ item[2] <= l /\ l <= item[2] + 1
    BY <1>0, <2>l DEF LastOf
  <2>2. q = [last |-> l, ok |-> r.ok]
    BY <1>1, <1>2, <1>q, <2>l DEF NextSeen
  <2> QED
    BY <1>1, <1>2, <1>q, <2>1, <2>2 DEF Sight
<1>3. CASE ~(r.last <= item[1])
  <2>1. q = [last |-> r.last, ok |-> FALSE]
    BY <1>1, <1>3, <1>q DEF NextSeen
  <2>2. q \in Sight /\ ~q.ok
    BY <1>1, <2>1 DEF Sight
  <2> QED
    BY <1>3, <1>q, <2>2
<1> QED
  BY <1>2, <1>3

LEMMA SeenRuns ==
    ASSUME NEW items \in Seq(Pairs)
    PROVE  /\ Seen(items)[0] = [last |-> -1, ok |-> TRUE]
           /\ \A i \in 1..Len(items) : Seen(items)[i] = NextSeen(Seen(items)[i-1], items[i])
           /\ \A i \in 0..Len(items) : Seen(items)[i] \in Sight
<1>p. PICK n, base : n = Len(items) /\ base = [last |-> -1, ok |-> TRUE]
  OBVIOUS
<1>0. n = Len(items) /\ n \in Nat /\ base = [last |-> -1, ok |-> TRUE] /\ base \in Sight
  BY <1>p DEF Sight
<1>1. ASSUME NEW i \in 1..n, NEW r \in Sight PROVE NextSeen(r, items[i]) \in Sight
  <2>1. items[i] \in Pairs
    BY <1>0
  <2> QED
    BY <2>1, NextSeenIs
<1>2. PICK h : h = [i \in 1..n |-> [r \in Sight |-> NextSeen(r, items[i])]]
  OBVIOUS
<1>3. h \in Rules(n, Sight)
  BY <1>0, <1>1, <1>2 DEF Rules
<1>l. PICK f : Loops(f, n, Sight, base, h)
  BY <1>0, <1>3, LoopExists
<1>4. f \in [0..n -> Sight] /\ \A i \in 0..n : f[i] = IF i = 0 THEN base ELSE h[i][f[i-1]]
  BY <1>l DEF Loops
<1>5. \A i \in 0..n : f[i] = IF i = 0 THEN base ELSE NextSeen(f[i-1], items[i])
  <2> TAKE i \in 0..n
  <2>1. CASE i = 0
    BY <1>4, <2>1
  <2>2. CASE i # 0
    <3>a. i \in 1..n /\ i - 1 \in 0..n
      BY <1>0, <2>2
    <3>1. i \in 1..n /\ f[i-1] \in Sight
      BY <1>4, <3>a
    <3> QED
      BY <1>2, <1>4, <2>2, <3>1
  <2> QED
    BY <2>1, <2>2
<1>6. SeenRule(f, items)
  BY <1>0, <1>4, <1>5 DEF SeenRule
<1>7. SeenRule(Seen(items), items)
  BY Zenon, <1>6 DEF Seen, SeenRule, NextSeen
<1>8. PICK g : g = Seen(items)
  OBVIOUS
<1>9. \A i \in 0..n : g[i] = IF i = 0 THEN base ELSE NextSeen(g[i-1], items[i])
  BY <1>0, <1>7, <1>8 DEF SeenRule
<1>10. g[0] = base /\ \A i \in 1..n : g[i] = NextSeen(g[i-1], items[i])
  BY <1>0, <1>9
<1>11. \A i \in 0..n : g[i] \in Sight
  <2>1. \A i \in 1..n : g[i-1] \in Sight => g[i] \in Sight
    BY <1>0, <1>1, <1>10
  <2>2. g[0] \in Sight
    BY <1>0, <1>10
  <2> QED
    BY <1>0, <2>1, <2>2, StaysIn
<1> QED
  BY <1>0, <1>8, <1>10, <1>11

(* The items the build writes: no range is empty, none repeats a block.    *)
Proper(items) ==
    /\ items \in Seq(Pairs)
    /\ \A i \in 1..Len(items) : items[i][1] <= items[i][2]
    /\ \A i, j \in 1..Len(items) : i < j => \/ items[i][2] < items[j][1]
                                           \/ items[j][2] < items[i][1]

InTurn(items, m) == \A i, j \in 1..m : i < j => items[i][2] < items[j][1]

SeenRight(r, items, m) ==
    /\ r.ok <=> InTurn(items, m)
    /\ m >= 1 /\ r.ok => items[m][2] <= r.last /\ r.last <= items[m][2] + 1
    /\ m = 0 => r.last = -1

LEMMA SeenStaysRight ==
    ASSUME NEW items, Proper(items), NEW m \in 1..Len(items), NEW r \in Sight,
           SeenRight(r, items, m - 1), NEW q, q = NextSeen(r, items[m])
    PROVE  SeenRight(q, items, m)
<1>p. PICK n, h : n = Len(items) /\ h = m - 1
  OBVIOUS
<1>0. /\ n \in Nat /\ m \in 1..n /\ h \in 0..n /\ h + 1 = m /\ m >= 1 /\ m # 0
      /\ \A i \in 1..n : /\ items[i] \in Pairs /\ items[i][1] \in Nat /\ items[i][2] \in Nat
                         /\ items[i][1] <= items[i][2]
      /\ \A i, j \in 1..n : i < j => \/ items[i][2] < items[j][1]
                                     \/ items[j][2] < items[i][1]
  BY <1>p DEF Proper, Pairs
<1>1. /\ q \in Sight
      /\ r.last <= items[m][1] => q.ok = r.ok /\ items[m][2] <= q.last /\ q.last <= items[m][2] + 1
      /\ ~(r.last <= items[m][1]) => ~q.ok
  BY <1>0, NextSeenIs
<1>2. r.last \in Int /\ r.ok \in BOOLEAN /\ q.last \in Int /\ q.ok \in BOOLEAN
  BY <1>1 DEF Sight
<1>3. /\ r.ok <=> InTurn(items, h)
      /\ h >= 1 /\ r.ok => items[h][2] <= r.last /\ r.last <= items[h][2] + 1
      /\ h = 0 => r.last = -1
  BY <1>p DEF SeenRight
<1>4. \A i \in 1..h : i \in 1..m /\ i \in 1..n /\ i < m
  BY <1>0
<1>5. InTurn(items, m) => InTurn(items, h)
  BY <1>4 DEF InTurn
<1>6. h >= 1 => h \in 1..h /\ h \in 1..m /\ h \in 1..n /\ h < m /\ m \in 1..m
  BY <1>0
<1>7. CASE r.last <= items[m][1]
  <2>1. ASSUME InTurn(items, h), r.ok PROVE InTurn(items, m)
    <3>1. ASSUME NEW i \in 1..h PROVE items[i][2] < items[m][1]
      <4>1. h \in 1..h /\ h \in 1..n /\ h < m /\ i \in 1..n /\ h >= 1 /\ i \in 1..h
        BY <1>0, <1>4, <1>6
      <4>2. items[h][2] <= r.last
        BY <1>3, <2>1, <4>1
      <4>3. ~(items[m][2] < items[h][1])
        BY <1>0, <1>2, <1>7, <4>1, <4>2
      <4>4. items[h][2] < items[m][1]
        BY <1>0, <4>1, <4>3
      <4>5. i = h \/ items[i][2] < items[h][1]
        BY <2>1, <4>1 DEF InTurn
      <4> QED
        BY <1>0, <4>1, <4>4, <4>5
    <3>2. \A j \in 1..m : j \in 1..h \/ j = m
      BY <1>0
    <3>3. ASSUME NEW i \in 1..m, NEW j \in 1..m, i < j PROVE items[i][2] < items[j][1]
      <4>1. i \in 1..h
        BY <1>0, <3>3
      <4>2. CASE j = m
        BY <3>1, <4>1, <4>2
      <4>3. CASE j \in 1..h
        BY <2>1, <3>3, <4>1, <4>3 DEF InTurn
      <4> QED
        BY <3>2, <4>2, <4>3
    <3> QED
      BY <3>3 DEF InTurn
  <2>2. q.ok <=> InTurn(items, m)
    BY <1>1, <1>2, <1>3, <1>5, <1>7, <2>1
  <2> QED
    BY <1>0, <1>1, <1>7, <2>2 DEF SeenRight
<1>8. CASE ~(r.last <= items[m][1])
  <2>1. ~q.ok
    BY <1>1, <1>8
  <2>2. ASSUME InTurn(items, m) PROVE FALSE
    <3>1. r.ok
      BY <1>3, <1>5, <2>2
    <3>2. h >= 1
      <4>1. CASE h = 0
        BY <1>0, <1>3, <1>8, <4>1
      <4> QED
        BY <1>0, <4>1
    <3>3. items[h][2] < items[m][1]
      BY <1>6, <2>2, <3>2 DEF InTurn
    <3>4. r.last <= items[h][2] + 1 /\ h \in 1..n
      BY <1>3, <1>6, <3>1, <3>2
    <3> QED
      BY <1>0, <1>2, <1>8, <3>3, <3>4
  <2> QED
    BY <1>0, <2>1, <2>2 DEF SeenRight
<1> QED
  BY <1>7, <1>8

(* monotonic says whether the items were in turn.                          *)
LEMMA MonotonicRight ==
    ASSUME NEW items, Proper(items)
    PROVE  /\ Seen(items)[Len(items)].ok \in BOOLEAN
           /\ Seen(items)[Len(items)].ok <=> InTurn(items, Len(items))
<1>p. PICK n, g : n = Len(items) /\ g = Seen(items)
  OBVIOUS
<1>0. n \in Nat /\ items \in Seq(Pairs)
  BY <1>p DEF Proper
<1>1. /\ g[0] = [last |-> -1, ok |-> TRUE]
      /\ \A i \in 1..n : g[i] = NextSeen(g[i-1], items[i])
      /\ \A i \in 0..n : g[i] \in Sight
  BY <1>0, <1>p, SeenRuns
<1> DEFINE B == {i \in 0..n : SeenRight(g[i], items, i)}
<1>2. SeenRight(g[0], items, 0)
  BY <1>1 DEF SeenRight, InTurn
<1>3. 0 \in B /\ B \in SUBSET (0..n)
  BY <1>0, <1>2
<1>4. ASSUME NEW i \in 1..n, i - 1 \in B PROVE i \in B
  <2>1. i - 1 \in 0..n /\ i \in 0..n
    BY <1>0
  <2>2. g[i-1] \in Sight /\ g[i] = NextSeen(g[i-1], items[i]) /\ SeenRight(g[i-1], items, i - 1)
    BY <1>1, <1>4, <2>1
  <2>3. SeenRight(g[i], items, i)
    BY <1>p, <2>2, SeenStaysRight
  <2> QED
    BY <2>1, <2>3
<1>5. B = 0..n
  <2>1. \A i \in 1..n : i - 1 \in B => i \in B
    BY <1>4
  <2> HIDE DEF B
  <2> QED
    BY <1>0, <1>3, <2>1, UpTo
<1>6. n \in 0..n
  BY <1>0
<1>7. SeenRight(g[n], items, n) /\ g[n] \in Sight
  BY <1>1, <1>5, <1>6
<1> QED
  BY <1>p, <1>7 DEF SeenRight, Sight

(* The numbers in the first m items.                                       *)
Covered(items, m) ==
    {y \in Nat : \E i \in 1..m : items[i][1] <= y /\ y <= items[i][2]}

SortedRight(q, items, m) ==
    /\ q \in Lists
    /\ Len(q) = 2 * m
    /\ \A y \in Nat : \E k : Cell(q, k, y) /\ (k % 2 = 1 <=> y \in Covered(items, m))

(* Two boundaries are sorted in.                                           *)
LEMMA SortedStaysRight ==
    ASSUME NEW items, Proper(items), NEW m \in 1..Len(items), NEW q, SortedRight(q, items, m - 1),
           NEW u, u = Insert(q, items[m][1]), NEW v, v = Insert(u, items[m][2] + 1)
    PROVE  SortedRight(v, items, m)
<1>p. PICK n, h, s, e : n = Len(items) /\ h = m - 1 /\ s = items[m][1] /\ e = items[m][2]
  OBVIOUS
<1>0. /\ n \in Nat /\ m \in 1..n /\ h \in 0..n /\ h + 1 = m
      /\ s \in Nat /\ e \in Nat /\ s <= e
      /\ \A i \in 1..n : items[i][1] \in Nat /\ items[i][2] \in Nat /\ items[i][1] <= items[i][2]
      /\ \A i, j \in 1..n : i < j => \/ items[i][2] < items[j][1]
                                     \/ items[j][2] < items[i][1]
  BY <1>p DEF Proper, Pairs
<1>1. q \in Seq(Nat) /\ Sorted(q) /\ Len(q) = 2 * h
  BY <1>p DEF SortedRight, Lists
<1>2. /\ u \in Seq(Nat) /\ Len(u) = Len(q) + 1 /\ Sorted(u)
      /\ \A y \in Nat : \A k : Cell(q, k, y) => Cell(u, k + (IF s <= y THEN 1 ELSE 0), y)
  BY <1>0, <1>1, <1>p, InsertRight
<1>3. e + 1 \in Nat
  BY <1>0
<1>4. /\ v \in Seq(Nat) /\ Len(v) = Len(u) + 1 /\ Sorted(v)
      /\ \A y \in Nat : \A k : Cell(u, k, y) => Cell(v, k + (IF e + 1 <= y THEN 1 ELSE 0), y)
  BY <1>2, <1>3, <1>p, InsertRight
<1>5. Len(v) = 2 * m
  <2>1. Len(q) = 2 * h /\ Len(u) = Len(q) + 1 /\ Len(v) = Len(u) + 1
    BY <1>1, <1>2, <1>4
  <2>2. h \in Nat /\ h + 1 = m
    BY <1>0
  <2> QED
    BY <2>1, <2>2
<1>6. ASSUME NEW y \in Nat
      PROVE  \E k : Cell(v, k, y) /\ (k % 2 = 1 <=> y \in Covered(items, m))
  <2>1. PICK k : Cell(q, k, y) /\ (k % 2 = 1 <=> y \in Covered(items, h))
    BY <1>p DEF SortedRight
  <2>2. k \in Nat
    BY <1>1, <2>1 DEF Cell
  <2>3. PICK i, j : i = k + (IF s <= y THEN 1 ELSE 0) /\ j = i + (IF e + 1 <= y THEN 1 ELSE 0)
    OBVIOUS
  <2>4. Cell(v, j, y)
    <3>1. Cell(u, i, y)
      BY <1>2, <2>1, <2>3
    <3> QED
      BY <1>4, <2>3, <3>1
  <2>5. y \in Covered(items, m) <=> y \in Covered(items, h) \/ (s <= y /\ y <= e)
    <3>1. \A g \in 1..m : g \in 1..h \/ g = m
      BY <1>0
    <3>2. m \in 1..m /\ \A g \in 1..h : g \in 1..m
      BY <1>0
    <3> QED
      BY <1>p, <3>1, <3>2 DEF Covered
  <2>6. CASE y < s
    <3>1. j = k /\ ~(s <= y /\ y <= e)
      BY <1>0, <2>2, <2>3, <2>6
    <3> QED
      BY <2>1, <2>4, <2>5, <3>1
  <2>7. CASE s <= y /\ y <= e
    <3>1. j = k + 1
      BY <1>0, <2>2, <2>3, <2>7
    <3>2. y \notin Covered(items, h)
      <4>1. ASSUME NEW g \in 1..h, items[g][1] <= y, y <= items[g][2] PROVE FALSE
        <5>1. g \in 1..n /\ g < m
          BY <1>0
        <5>2. items[g][2] < s \/ e < items[g][1]
          BY <1>0, <1>p, <5>1
        <5> QED
          BY <1>0, <2>7, <4>1, <5>1, <5>2
      <4> QED
        BY <4>1 DEF Covered
    <3>3. j % 2 = 1
      BY <2>1, <2>2, <3>1, <3>2
    <3> QED
      BY <2>4, <2>5, <2>7, <3>3
  <2>8. CASE e < y
    <3>1. j = k + 2 /\ ~(s <= y /\ y <= e)
      BY <1>0, <2>2, <2>3, <2>8
    <3>2. j % 2 = k % 2
      BY <2>2, <3>1
    <3> QED
      BY <2>1, <2>4, <2>5, <3>1, <3>2
  <2> QED
    BY <1>0, <2>6, <2>7, <2>8
<1> QED
  BY <1>4, <1>5, <1>6 DEF SortedRight, Lists

LEMMA SortingRight ==
    ASSUME NEW items, Proper(items)
    PROVE  SortedRight(Sorting(Bounds(items))[2 * Len(items)], items, Len(items))
<1>p. PICK n, b, g : n = Len(items) /\ b = Bounds(items) /\ g = Sorting(b)
  OBVIOUS
<1>0. n \in Nat /\ items \in Seq(Pairs)
  BY <1>p DEF Proper
<1>1. /\ b \in Seq(Nat) /\ Len(b) = 2 * n
      /\ \A m \in 1..n : b[2 * m - 1] = items[m][1] /\ b[2 * m] = items[m][2] + 1
  BY <1>0, <1>p, BoundsAre
<1>2. /\ g[0] = <<>> /\ \A i \in 1..(2 * n) : g[i] = Insert(g[i-1], b[i])
  BY <1>1, <1>p, SortingRuns
<1> DEFINE B == {m \in 0..n : SortedRight(g[2 * m], items, m)}
<1>3. SortedRight(g[0], items, 0)
  <2>1. <<>> \in Lists /\ Len(<<>>) = 2 * 0
    BY DEF Lists, Sorted
  <2>2. \A y \in Nat : Cell(<<>>, 0, y) /\ y \notin Covered(items, 0)
    BY DEF Cell, Covered
  <2>3. ~(0 % 2 = 1)
    OBVIOUS
  <2> QED
    BY <1>2, <2>1, <2>2, <2>3 DEF SortedRight
<1>4. 0 \in B /\ B \in SUBSET (0..n)
  <2>1. 2 * 0 = 0 /\ 0 \in 0..n
    BY <1>0
  <2> QED
    BY <1>3, <2>1
<1>5. ASSUME NEW m \in 1..n, m - 1 \in B PROVE m \in B
  <2>1. PICK i, j, h : i = 2 * m - 1 /\ j = 2 * m /\ h = 2 * (m - 1)
    OBVIOUS
  <2>2. i \in 1..(2 * n) /\ j \in 1..(2 * n) /\ i - 1 = h /\ j - 1 = i /\ m \in 0..n
    BY <1>0, <2>1
  <2>3. g[i] = Insert(g[h], items[m][1]) /\ g[j] = Insert(g[i], items[m][2] + 1)
    BY <1>1, <1>2, <2>1, <2>2
  <2>4. SortedRight(g[h], items, m - 1)
    BY <1>5, <2>1
  <2>5. SortedRight(g[j], items, m)
    BY <1>p, <2>3, <2>4, SortedStaysRight
  <2> QED
    BY <2>1, <2>2, <2>5
<1>6. B = 0..n
  <2>1. \A i \in 1..n : i - 1 \in B => i \in B
    BY <1>5
  <2> HIDE DEF B
  <2> QED
    BY <1>0, <1>4, <2>1, UpTo
<1>7. SortedRight(g[2 * n], items, n)
  <2>1. n \in 0..n
    BY <1>0
  <2>2. n \in B
    BY <1>6, <2>1
  <2> QED
    BY <2>2
<1> QED
  BY <1>p, <1>7

(* What is parsed is in its one form and holds the numbers of the text.    *)
LEMMA ParseRight ==
    ASSUME NEW items, Proper(items)
    PROVE  /\ Parse(items) \in RangeSets
           /\ AsSet(Parse(items).data) = Covered(items, Len(items))
           /\ Parse(items).monotonic <=> InTurn(items, Len(items))
<1>p. PICK n, s, q, o : /\ n = Len(items) /\ s = Sorting(Bounds(items))[2 * n]
                        /\ q = RemovePairs(s) /\ o = Seen(items)[n].ok
  OBVIOUS
<1>0. n \in Nat
  BY <1>p DEF Proper
<1>1. /\ s \in Seq(Nat) /\ Sorted(s) /\ Len(s) = 2 * n
      /\ \A y \in Nat : \E k : Cell(s, k, y) /\ (k % 2 = 1 <=> y \in Covered(items, n))
  BY <1>p, SortingRight DEF SortedRight, Lists
<1>2. o \in BOOLEAN /\ (o <=> InTurn(items, n))
  BY <1>p, MonotonicRight
<1>3. /\ q \in Seq(Nat) /\ Rising(q) /\ Len(q) % 2 = Len(s) % 2
      /\ \A x \in Nat : \A k : Cell(s, k, x) => \E j : Cell(q, j, x) /\ j % 2 = k % 2
  <2>1. s \in Seq(Nat) /\ Sorted(s)
    BY <1>1
  <2>2. q = RemovePairs(s)
    BY <1>p
  <2>3. /\ RemovePairs(s) \in Seq(Nat) /\ Rising(RemovePairs(s))
        /\ Len(RemovePairs(s)) % 2 = Len(s) % 2
        /\ \A x \in Nat : \A k : Cell(s, k, x) =>
              \E j : Cell(RemovePairs(s), j, x) /\ j % 2 = k % 2
    BY <2>1, PairsRemoved
  <2> QED
    BY Zenon, <2>2, <2>3
<1>4. Len(q) % 2 = 0
  BY <1>0, <1>1, <1>3, Twice
<1>5. Parse(items) = [data |-> q, monotonic |-> o]
  BY <1>p DEF Parse
<1>6. Canonical(q)
  BY <1>3, <1>4, RisingIsCanonical
<1>7. Parse(items) \in RangeSets
  BY <1>2, <1>3, <1>5, <1>6 DEF RangeSets
<1>8. \A y \in Nat : y \in AsSet(q) <=> y \in Covered(items, n)
  <2> TAKE y \in Nat
  <2>1. PICK k : Cell(s, k, y) /\ (k % 2 = 1 <=> y \in Covered(items, n))
    BY <1>1
  <2>2. PICK j : Cell(q, j, y) /\ j % 2 = k % 2
    BY <1>3, <2>1
  <2>3. y \in AsSet(q) <=> j % 2 = 1
    BY <1>3, <1>4, <2>2, CellDecides
  <2> QED
    BY <2>1, <2>2, <2>3
<1>9. \A y \in AsSet(q) : y \in Nat
  BY <1>5, <1>7, RangeSetIs
<1>10. \A y \in Covered(items, n) : y \in Nat
  BY DEF Covered
<1>11. AsSet(q) = Covered(items, n)
  BY <1>8, <1>9, <1>10
<1> QED
  BY <1>p, <1>2, <1>5, <1>7, <1>11

-----------------------------------------------------------------------------
(* to_string and what it writes.                                           *)

(* How far two lists agree.                                                *)
Agree(s, t, i) == i \in 0..Len(s) /\ i <= Len(t) /\ \A j \in 1..i : s[j] = t[j]

LEMMA NextParity ==
    ASSUME NEW h \in Nat, NEW i, i = h + 1
    PROVE  ~(i % 2 = 1 <=> h % 2 = 1)
OBVIOUS

LEMMA SeqFacts ==
    ASSUME NEW s \in Seq(Nat)
    PROVE  Len(s) \in Nat /\ \A j \in 1..Len(s) : s[j] \in Nat
OBVIOUS

LEMMA SameSeq ==
    ASSUME NEW s \in Seq(Nat), NEW t \in Seq(Nat), Len(s) = Len(t), \A j \in 1..Len(s) : s[j] = t[j]
    PROVE  s = t
OBVIOUS

LEMMA AgreesFurther ==
    ASSUME NEW s \in Seq(Nat), Rising(s), Len(s) % 2 = 0,
           NEW t \in Seq(Nat), Rising(t), Len(t) % 2 = 0, AsSet(s) = AsSet(t),
           NEW i \in 1..Len(s), Agree(s, t, i - 1)
    PROVE  Agree(s, t, i)
<1>p. PICK n, l, h : n = Len(s) /\ l = Len(t) /\ h = i - 1
  OBVIOUS
<1>0. /\ n \in Nat /\ l \in Nat /\ i \in 1..n /\ h \in 0..n /\ h + 1 = i
      /\ (\A j \in 1..n : s[j] \in Nat) /\ \A j \in 1..l : t[j] \in Nat
  <2>1. n \in Nat /\ l \in Nat /\ (\A j \in 1..n : s[j] \in Nat) /\ \A j \in 1..l : t[j] \in Nat
    BY <1>p, SeqFacts
  <2>2. i \in 1..n
    BY <1>p
  <2>3. h \in 0..n /\ h + 1 = i
    BY <1>p, <2>1, <2>2
  <2> QED
    BY <2>1, <2>2, <2>3
<1>1. h <= l /\ \A j \in 1..h : s[j] = t[j]
  BY <1>p DEF Agree
<1>2. Sorted(s) /\ Sorted(t)
  BY RisingIsSorted
<1>3. \A x \in Nat : \A j, k : Cell(s, j, x) /\ Cell(t, k, x) => (j % 2 = 1 <=> k % 2 = 1)
  <2> TAKE x \in Nat
  <2> TAKE j, k
  <2> HAVE Cell(s, j, x) /\ Cell(t, k, x)
  <2>1. x \in AsSet(s) <=> j % 2 = 1
    BY CellDecides
  <2>2. x \in AsSet(t) <=> k % 2 = 1
    BY CellDecides
  <2> QED
    BY <2>1, <2>2
<1>4. ~(i % 2 = 1 <=> h % 2 = 1)
  <2>1. h \in Nat /\ i = h + 1
    BY <1>0
  <2> QED
    BY <2>1, NextParity
<1>5. h >= 1 => h \in 1..h /\ h \in 1..n /\ h \in 1..l /\ s[h] = t[h] /\ s[h] < s[i]
  <2>1. h >= 1 => h \in 1..h /\ h \in 1..n /\ h \in 1..l /\ h < i
    BY <1>0, <1>1
  <2> QED
    BY <1>0, <1>1, <1>p, <2>1 DEF Rising
<1>6. Cell(s, i, s[i])
  <2>1. i + 1 <= n => i + 1 \in 1..n /\ i < i + 1
    BY <1>0
  <2>2. i + 1 <= n => s[i] < s[i+1]
    BY <1>0, <1>p, <2>1 DEF Rising
  <2>3. i \in 0..n /\ s[i] \in Nat /\ (i >= 1 => s[i] <= s[i])
    BY <1>0
  <2> QED
    BY <1>2, <1>p, <2>2, <2>3, CellAt
<1>7. i <= l
  <2>1. ASSUME l < i PROVE FALSE
    <3>1. h = l /\ h \in 0..l /\ ~(h + 1 <= l)
      BY <1>0, <1>1, <2>1
    <3>2. s[i] \in Nat /\ (h >= 1 => t[h] <= s[i])
      BY <1>0, <1>5
    <3>3. Cell(t, h, s[i])
      BY <1>2, <1>p, <3>1, <3>2, CellAt
    <3> QED
      BY <1>3, <1>4, <1>6, <3>2, <3>3
  <2> QED
    BY <1>0, <2>1
<1>8. i \in 1..l /\ h \in 0..l /\ t[i] \in Nat /\ s[i] \in Nat /\ i \in 0..l
  BY <1>0, <1>7
<1>9. ~(s[i] < t[i])
  <2>1. ASSUME s[i] < t[i] PROVE FALSE
    <3>1. (h >= 1 => t[h] <= s[i]) /\ h + 1 = i
      BY <1>0, <1>5
    <3>2. h + 1 <= Len(t) => s[i] < t[h + 1]
      BY <2>1, <3>1
    <3>3. Cell(t, h, s[i])
      BY <1>2, <1>8, <1>p, <3>1, <3>2, CellAt
    <3> QED
      BY <1>3, <1>4, <1>6, <1>8, <3>3
  <2> QED
    BY <2>1
<1>10. ~(t[i] < s[i])
  <2>1. ASSUME t[i] < s[i] PROVE FALSE
    <3>1. h >= 1 => t[h] < t[i]
      <4>1. h >= 1 => h \in 1..l /\ h < i
        BY <1>0, <1>5
      <4> QED
        BY <1>8, <1>p, <4>1 DEF Rising
    <3>2. h >= 1 => s[h] <= t[i]
      BY <1>0, <1>5, <1>8, <3>1
    <3>3. h + 1 <= Len(s) => t[i] < s[h + 1]
      BY <1>0, <2>1
    <3>4. Cell(s, h, t[i])
      BY <1>0, <1>2, <1>8, <1>p, <3>2, <3>3, CellAt
    <3>5. Cell(t, i, t[i])
      <4>1. i + 1 <= l => i + 1 \in 1..l /\ i < i + 1
        BY <1>0
      <4>2. i + 1 <= l => t[i] < t[i+1]
        BY <1>8, <1>p, <4>1 DEF Rising
      <4>3. t[i] <= t[i]
        BY <1>8
      <4> QED
        BY <1>2, <1>8, <1>p, <4>2, <4>3, CellAt
    <3> QED
      BY <1>3, <1>4, <1>8, <3>4, <3>5
  <2> QED
    BY <2>1
<1>11. s[i] = t[i]
  BY <1>8, <1>9, <1>10
<1>12. \A j \in 1..i : s[j] = t[j]
  <2>1. \A j \in 1..i : j \in 1..h \/ j = i
    BY <1>0
  <2> QED
    BY <1>1, <1>11, <2>1
<1> QED
  BY <1>0, <1>7, <1>12, <1>p DEF Agree

LEMMA AgreesAll ==
    ASSUME NEW s \in Seq(Nat), Rising(s), Len(s) % 2 = 0,
           NEW t \in Seq(Nat), Rising(t), Len(t) % 2 = 0, AsSet(s) = AsSet(t)
    PROVE  Agree(s, t, Len(s))
<1>p. PICK n : n = Len(s)
  OBVIOUS
<1>0. n \in Nat /\ Len(t) \in Nat
  BY <1>p, SeqFacts
<1> DEFINE B == {i \in 0..n : Agree(s, t, i)}
<1>1. 0 \in B /\ B \in SUBSET (0..n)
  <2>1. 0 \in 0..n /\ 0 <= Len(t)
    BY <1>0
  <2>2. Agree(s, t, 0)
    BY <1>p, <2>1 DEF Agree
  <2> QED
    BY <2>1, <2>2
<1>2. ASSUME NEW i \in 1..n, i - 1 \in B PROVE i \in B
  <2>1. i \in 0..n /\ i \in 1..Len(s) /\ Agree(s, t, i - 1)
    BY <1>0, <1>2, <1>p
  <2>2. Agree(s, t, i)
    BY <2>1, AgreesFurther
  <2> QED
    BY <2>1, <2>2
<1>3. B = 0..n
  <2>1. \A i \in 1..n : i - 1 \in B => i \in B
    BY <1>2
  <2> HIDE DEF B
  <2> QED
    BY <1>0, <1>1, <2>1, UpTo
<1>4. n \in 0..n
  BY <1>0
<1>5. n \in B
  BY <1>3, <1>4
<1> QED
  BY <1>5, <1>p

(* Two canonical lists of the same numbers are the same list: the == of    *)
(* RangeSets, which compares the lists, compares the sets.                 *)
THEOREM UniqueForm ==
    ASSUME NEW a \in RangeSets, NEW b \in RangeSets, AsSet(a.data) = AsSet(b.data)
    PROVE  a.data = b.data
<1>p. PICK s, t : s = a.data /\ t = b.data
  OBVIOUS
<1>1. /\ s \in Seq(Nat) /\ Rising(s) /\ Len(s) % 2 = 0 /\ Len(s) \in Nat
      /\ t \in Seq(Nat) /\ Rising(t) /\ Len(t) % 2 = 0 /\ Len(t) \in Nat
  BY <1>p, RangeSetIs
<1>2. AsSet(s) = AsSet(t)
  BY <1>p
<1>3. Agree(s, t, Len(s))
  BY <1>1, <1>2, AgreesAll
<1>4. Agree(t, s, Len(t))
  BY <1>1, <1>2, AgreesAll
<1>n. PICK n, l : n = Len(s) /\ l = Len(t)
  OBVIOUS
<1>5. n <= l /\ l <= n /\ \A j \in 1..n : s[j] = t[j]
  BY <1>3, <1>4, <1>n DEF Agree
<1>6. s = t
  <2>1. n = l
    <3>1. n \in Nat /\ l \in Nat
      BY <1>1, <1>n
    <3> QED
      BY <1>5, <3>1
  <2> QED
    BY <1>1, <1>5, <1>n, <2>1, SameSeq
<1> QED
  BY <1>6, <1>p

(* The m-th of the ranges of s.                                            *)
LEMMA RangeAt ==
    ASSUME NEW s \in Seq(Nat), Rising(s), Len(s) % 2 = 0, NEW m \in 1..(Len(s) \div 2)
    PROVE  /\ 2 * m - 1 \in 1..Len(s) /\ 2 * m \in 1..Len(s)
           /\ s[2 * m - 1] \in Nat /\ s[2 * m] \in Nat /\ s[2 * m - 1] < s[2 * m]
<1>p. PICK n, h : n = Len(s) /\ h = n \div 2
  OBVIOUS
<1>0. n \in Nat /\ h \in Nat /\ n = 2 * h /\ m \in 1..h
  <2>1. n \in Nat /\ n % 2 = 0 /\ m \in 1..h
    BY <1>p
  <2> QED
    BY <1>p, <2>1, EvenHalf
<1>q. PICK i, j : i = 2 * m - 1 /\ j = 2 * m
  OBVIOUS
<1>1. i \in 1..n /\ j \in 1..n /\ i < j
  BY <1>0, <1>q
<1>2. s[i] \in Nat /\ s[j] \in Nat /\ s[i] < s[j]
  BY <1>1, <1>p DEF Rising
<1> QED
  BY <1>1, <1>2, <1>p, <1>q

LEMMA RangesApart ==
    ASSUME NEW s \in Seq(Nat), Rising(s), Len(s) % 2 = 0, NEW m \in 1..(Len(s) \div 2),
           NEW k \in 1..(Len(s) \div 2), m < k
    PROVE  s[2 * m] < s[2 * k - 1]
<1>p. PICK i, j : i = 2 * m /\ j = 2 * k - 1
  OBVIOUS
<1>1. i \in 1..Len(s) /\ j \in 1..Len(s)
  BY <1>p, RangeAt
<1>2. m \in Nat /\ k \in Nat
  OBVIOUS
<1>3. i < j
  BY <1>2, <1>p
<1> QED
  BY <1>1, <1>3, <1>p DEF Rising

(* The numbers of a, range by range.                                       *)
LEMMA RangesCover ==
    ASSUME NEW s \in Seq(Nat), NEW x
    PROVE  x \in AsSet(s) <=> \E m \in 1..(Len(s) \div 2) : x \in s[2*m-1]..(s[2*m]-1)
<1>1. x \in AsSet(s) <=> \E r \in Ranges(s) : x \in r[1]..(r[2]-1)
  BY Zenon DEF AsSet
<1>2. ASSUME NEW r \in Ranges(s), x \in r[1]..(r[2]-1)
      PROVE  \E m \in 1..(Len(s) \div 2) : x \in s[2*m-1]..(s[2*m]-1)
  <2>1. PICK m \in 1..(Len(s) \div 2) : r = <<s[2*m-1], s[2*m]>>
    BY Zenon, <1>2 DEF Ranges
  <2>2. r[1] = s[2*m-1] /\ r[2] = s[2*m]
    BY <2>1
  <2>3. x \in s[2*m-1]..(s[2*m]-1)
    BY Zenon, <1>2, <2>2
  <2> QED
    BY Zenon, <2>1, <2>3
<1>3. ASSUME NEW m \in 1..(Len(s) \div 2), x \in s[2*m-1]..(s[2*m]-1)
      PROVE  \E r \in Ranges(s) : x \in r[1]..(r[2]-1)
  <2>1. PICK r : r = <<s[2*m-1], s[2*m]>>
    OBVIOUS
  <2>2. r \in Ranges(s)
    BY Zenon, <2>1 DEF Ranges
  <2>3. r[1] = s[2*m-1] /\ r[2] = s[2*m]
    BY <2>1
  <2>4. x \in r[1]..(r[2]-1)
    BY Zenon, <1>3, <2>3
  <2> QED
    BY Zenon, <2>2, <2>4
<1> QED
  BY Zenon, <1>1, <1>2, <1>3

LEMMA ItemsRight ==
    ASSUME NEW a \in RangeSets
    PROVE  /\ Proper(ToItems(a)) /\ InTurn(ToItems(a), Len(ToItems(a)))
           /\ Covered(ToItems(a), Len(ToItems(a))) = AsSet(a.data)
<1>p. PICK s, h, t : s = a.data /\ h = Len(s) \div 2 /\ t = ToItems(a)
  OBVIOUS
<1>1. /\ s \in Seq(Nat) /\ Rising(s) /\ Len(s) % 2 = 0 /\ AsSet(s) \subseteq Nat /\ Len(s) \in Nat
  BY <1>p, RangeSetIs
<1>2. h \in Nat
  BY <1>1, <1>p, EvenHalf
<1>3. t = [m \in 1..h |-> <<s[2 * m - 1], s[2 * m] - 1>>]
  BY <1>p DEF ToItems
<1>4. \A m \in 1..h : s[2 * m - 1] \in Nat /\ s[2 * m] \in Nat /\ s[2 * m - 1] < s[2 * m]
  BY <1>1, <1>p, RangeAt
<1>5. \A m \in 1..h : s[2 * m] - 1 \in Nat /\ s[2 * m - 1] <= s[2 * m] - 1
  BY <1>4
<1>6. \A m \in 1..h : /\ t[m] = <<s[2 * m - 1], s[2 * m] - 1>> /\ t[m] \in Pairs
                      /\ t[m][1] = s[2 * m - 1] /\ t[m][2] = s[2 * m] - 1
  BY <1>3, <1>4, <1>5 DEF Pairs
<1>7. t \in Seq(Pairs) /\ Len(t) = h
  BY <1>2, <1>3, <1>6
<1>8. ASSUME NEW i \in 1..h, NEW j \in 1..h, i < j PROVE t[i][2] < t[j][1]
  <2>1. s[2 * i] < s[2 * j - 1]
    BY <1>1, <1>8, <1>p, RangesApart
  <2> QED
    BY <1>4, <1>6, <2>1
<1>9. Proper(t)
  BY <1>5, <1>6, <1>7, <1>8 DEF Proper
<1>10. InTurn(t, h)
  BY <1>8 DEF InTurn
<1>11. \A x : x \in Covered(t, h) <=> x \in AsSet(s)
  <2> TAKE x
  <2>1. x \in AsSet(s) <=> \E m \in 1..h : x \in s[2*m-1]..(s[2*m]-1)
    BY <1>1, <1>p, RangesCover
  <2>2. x \in AsSet(s) => x \in Nat
    BY <1>1
  <2>3. \A m \in 1..h : x \in Nat => (x \in s[2*m-1]..(s[2*m]-1) <=> t[m][1] <= x /\ x <= t[m][2])
    BY <1>4, <1>5, <1>6
  <2> QED
    BY <2>1, <2>2, <2>3 DEF Covered
<1>12. Covered(t, h) = AsSet(s)
  BY <1>11
<1> QED
  BY <1>p, <1>7, <1>9, <1>10, <1>12

LEMMA RoundTripRight ==
    ASSUME NEW a \in RangeSets
    PROVE  Parse(ToItems(a)) = [a EXCEPT !.monotonic = TRUE]
<1>p. PICK t, q : t = ToItems(a) /\ q = Parse(t)
  OBVIOUS
<1>1. Proper(t) /\ InTurn(t, Len(t)) /\ Covered(t, Len(t)) = AsSet(a.data)
  BY <1>p, ItemsRight
<1>2. q \in RangeSets /\ AsSet(q.data) = Covered(t, Len(t)) /\ (q.monotonic <=> InTurn(t, Len(t)))
  BY <1>1, <1>p, ParseRight
<1>3. q.data = a.data
  BY <1>1, <1>2, UniqueForm
<1>4. q.monotonic \in BOOLEAN /\ q = [data |-> q.data, monotonic |-> q.monotonic]
      /\ a = [data |-> a.data, monotonic |-> a.monotonic]
  BY <1>2, RangeSetIs
<1>5. q.monotonic = TRUE
  BY <1>1, <1>2, <1>4
<1>6. [a EXCEPT !.monotonic = TRUE] = [data |-> a.data, monotonic |-> TRUE]
  <2>p. PICK s, o : s = a.data /\ o = a.monotonic
    OBVIOUS
  <2>1. a = [data |-> s, monotonic |-> o]
    BY <1>4, <2>p
  <2>2. ASSUME NEW v
        PROVE  [[data |-> s, monotonic |-> o] EXCEPT !.monotonic = v] = [data |-> s, monotonic |-> v]
    OBVIOUS
  <2> QED
    BY Zenon, <2>1, <2>2, <2>p
<1> QED
  BY <1>3, <1>4, <1>5, <1>6, <1>p

-----------------------------------------------------------------------------
(* extend.                                                                 *)

(* The item a range of s grows to.                                         *)
Wide(s, e, w) == << <<IF s - w > 0 THEN s - w ELSE 0, e + w - 1>> >>

LEMMA WideRight ==
    ASSUME NEW s \in Nat, NEW e \in Nat, s < e, NEW w \in Nat
    PROVE  /\ Parse(Wide(s, e, w)) \in RangeSets
           /\ AsSet(Parse(Wide(s, e, w)).data) = {x \in Nat : s - w <= x /\ x <= e + w - 1}
<1>p. PICK q, v, t : /\ q = (IF s - w > 0 THEN s - w ELSE 0) /\ v = e + w - 1
                     /\ t = Wide(s, e, w)
  OBVIOUS
<1>1. q \in Nat /\ v \in Nat /\ q <= v /\ \A x \in Nat : q <= x <=> s - w <= x
  BY <1>p
<1>2. t = << <<q, v>> >>
  BY <1>p DEF Wide
<1>3. t \in Seq(Pairs) /\ Len(t) = 1 /\ t[1] = <<q, v>> /\ t[1][1] = q /\ t[1][2] = v
  BY <1>1, <1>2 DEF Pairs
<1>4. \A i \in 1..1 : i = 1
  OBVIOUS
<1>5. Proper(t)
  BY <1>1, <1>3, <1>4 DEF Proper
<1>6. Covered(t, 1) = {x \in Nat : s - w <= x /\ x <= v}
  <2>1. 1 \in 1..1
    OBVIOUS
  <2> QED
    BY <1>1, <1>3, <1>4, <2>1 DEF Covered
<1>7. Parse(t) \in RangeSets /\ AsSet(Parse(t).data) = Covered(t, Len(t))
  BY <1>5, ParseRight
<1> QED
  BY <1>3, <1>6, <1>7, <1>p

WidenedRule(f, a, w) ==
    f = [k \in 0..(Len(a.data) \div 2) |->
           IF k = 0 THEN a
           ELSE Union(f[k-1], Parse(Wide(a.data[2 * k - 1], a.data[2 * k], w)))]

LEMMA WidenedRuns ==
    ASSUME NEW a \in RangeSets, NEW w \in Nat
    PROVE  /\ Widened(a, w)[0] = a
           /\ \A i \in 1..(Len(a.data) \div 2) : Widened(a, w)[i] = Union(Widened(a, w)[i-1], Parse(Wide(a.data[2 * i - 1], a.data[2 * i], w)))
           /\ \A i \in 0..(Len(a.data) \div 2) : Widened(a, w)[i] \in RangeSets
<1>p. PICK n, base : n = (Len(a.data) \div 2) /\ base = a
  OBVIOUS
<1>0. n = (Len(a.data) \div 2) /\ n \in Nat /\ base = a /\ base \in RangeSets
  <2>1. Len(a.data) \in Nat /\ Len(a.data) % 2 = 0
    BY RangeSetIs
  <2> QED
    BY <1>p, <2>1, EvenHalf
<1>n. n \in Nat
  BY <1>0
<1>1. ASSUME NEW i \in 1..n, NEW r \in RangeSets PROVE Union(r, Parse(Wide(a.data[2 * i - 1], a.data[2 * i], w))) \in RangeSets
  <2>1. a.data \in Seq(Nat) /\ Rising(a.data) /\ Len(a.data) % 2 = 0 /\ i \in 1..(Len(a.data) \div 2)
    BY <1>0, RangeSetIs
  <2>2. a.data[2 * i - 1] \in Nat /\ a.data[2 * i] \in Nat /\ a.data[2 * i - 1] < a.data[2 * i]
    BY <2>1, RangeAt
  <2>3. Parse(Wide(a.data[2 * i - 1], a.data[2 * i], w)) \in RangeSets
    BY <2>2, WideRight
  <2> QED
    BY <2>3, UnionRight
<1>2. PICK h : h = [i \in 1..n |-> [r \in RangeSets |-> Union(r, Parse(Wide(a.data[2 * i - 1], a.data[2 * i], w)))]]
  OBVIOUS
<1>3. h \in Rules(n, RangeSets)
  BY <1>0, <1>1, <1>2 DEF Rules
<1>l. PICK f : Loops(f, n, RangeSets, base, h)
  BY <1>0, <1>3, LoopExists
<1>4. f \in [0..n -> RangeSets] /\ \A i \in 0..n : f[i] = IF i = 0 THEN base ELSE h[i][f[i-1]]
  BY <1>l DEF Loops
<1>5. \A i \in 0..n : f[i] = IF i = 0 THEN base ELSE Union(f[i-1], Parse(Wide(a.data[2 * i - 1], a.data[2 * i], w)))
  <2> TAKE i \in 0..n
  <2>1. CASE i = 0
    BY <1>4, <2>1
  <2>2. CASE i # 0
    <3>a. i \in 1..n /\ i - 1 \in 0..n
      BY <1>n, <2>2
    <3>1. i \in 1..n /\ f[i-1] \in RangeSets
      BY <1>4, <3>a
    <3> QED
      BY <1>2, <1>4, <2>2, <3>1
  <2> QED
    BY <2>1, <2>2
<1>6. WidenedRule(f, a, w)
  BY <1>0, <1>4, <1>5 DEF WidenedRule
<1>7. WidenedRule(Widened(a, w), a, w)
  BY Zenon, <1>6 DEF Widened, WidenedRule, Wide
<1>8. PICK g : g = Widened(a, w)
  OBVIOUS
<1>9. \A i \in 0..n : g[i] = IF i = 0 THEN base ELSE Union(g[i-1], Parse(Wide(a.data[2 * i - 1], a.data[2 * i], w)))
  BY <1>0, <1>7, <1>8 DEF WidenedRule
<1>10. g[0] = base /\ \A i \in 1..n : g[i] = Union(g[i-1], Parse(Wide(a.data[2 * i - 1], a.data[2 * i], w)))
  BY <1>n, <1>9
<1>11. \A i \in 0..n : g[i] \in RangeSets
  <2>1. \A i \in 1..n : g[i-1] \in RangeSets => g[i] \in RangeSets
    BY <1>0, <1>1, <1>10
  <2>2. g[0] \in RangeSets
    BY <1>0, <1>10
  <2> QED
    BY <1>0, <2>1, <2>2, StaysIn
<1> QED
  BY <1>0, <1>8, <1>10, <1>11

(* The numbers at a distance of at most w from one of the first k ranges.  *)
Nearby(s, k, w) ==
    {x \in Nat : \E m \in 1..k : s[2 * m - 1] - w <= x /\ x <= s[2 * m] + w - 1}

LEMMA WidenedRight ==
    ASSUME NEW a \in RangeSets, NEW w \in Nat
    PROVE  /\ Extend(a, w) \in RangeSets
           /\ AsSet(Extend(a, w).data) =
                AsSet(a.data) \cup Nearby(a.data, Len(a.data) \div 2, w)
<1>p. PICK s, n, g : s = a.data /\ n = (Len(s) \div 2) /\ g = Widened(a, w)
  OBVIOUS
<1>1. s \in Seq(Nat) /\ Rising(s) /\ Len(s) % 2 = 0 /\ AsSet(s) \subseteq Nat /\ Len(s) \in Nat
  BY <1>p, RangeSetIs
<1>0. n \in Nat
  BY <1>1, <1>p, EvenHalf
<1>2. /\ g[0] = a
      /\ \A k \in 1..n : g[k] = Union(g[k-1], Parse(Wide(s[2 * k - 1], s[2 * k], w)))
      /\ \A k \in 0..n : g[k] \in RangeSets
  BY <1>p, WidenedRuns
<1> DEFINE B == {k \in 0..n : AsSet(g[k].data) = AsSet(s) \cup Nearby(s, k, w)}
<1>3. 0 \in B /\ B \in SUBSET (0..n)
  <2>1. Nearby(s, 0, w) = {}
    BY DEF Nearby
  <2>2. 0 \in 0..n
    BY <1>0
  <2> QED
    BY <1>2, <1>p, <2>1, <2>2
<1>4. ASSUME NEW k \in 1..n, k - 1 \in B PROVE k \in B
  <2>h. PICK h : h = k - 1
    OBVIOUS
  <2>1. h \in 0..n /\ k \in 0..n /\ (\A m \in 1..k : m \in 1..h \/ m = k) /\ k \in 1..k
        /\ \A m \in 1..h : m \in 1..k
    BY <1>0, <2>h
  <2>2. PICK e, f : e = s[2 * k - 1] /\ f = s[2 * k]
    OBVIOUS
  <2>3. e \in Nat /\ f \in Nat /\ e < f
    BY <1>1, <1>p, <2>2, RangeAt
  <2>4. PICK q : q = Parse(Wide(e, f, w))
    OBVIOUS
  <2>5. q \in RangeSets /\ AsSet(q.data) = {x \in Nat : e - w <= x /\ x <= f + w - 1}
    BY <2>3, <2>4, WideRight
  <2>6. g[k] = Union(g[h], q) /\ g[h] \in RangeSets
    BY <1>2, <2>1, <2>2, <2>4, <2>h
  <2>7. AsSet(g[k].data) = AsSet(g[h].data) \cup AsSet(q.data)
    BY <2>5, <2>6, UnionRight
  <2>8. AsSet(g[h].data) = AsSet(s) \cup Nearby(s, h, w)
    BY <1>4, <2>h
  <2>9. Nearby(s, k, w) = Nearby(s, h, w) \cup AsSet(q.data)
    BY <2>1, <2>2, <2>5 DEF Nearby
  <2>10. AsSet(g[k].data) = AsSet(s) \cup Nearby(s, k, w)
    BY <2>7, <2>8, <2>9
  <2> QED
    BY <2>1, <2>10
<1>5. B = 0..n
  <2>1. \A k \in 1..n : k - 1 \in B => k \in B
    BY <1>4
  <2> HIDE DEF B
  <2> QED
    BY <1>0, <1>3, <2>1, UpTo
<1>6. n \in 0..n
  BY <1>0
<1>7. n \in B
  BY <1>5, <1>6
<1>8. Extend(a, w) = g[n]
  BY <1>p DEF Extend
<1> QED
  BY <1>2, <1>6, <1>7, <1>8, <1>p

LEMMA NearbyIs ==
    ASSUME NEW s \in Seq(Nat), Rising(s), Len(s) % 2 = 0, NEW w \in Nat, NEW x
    PROVE  x \in AsSet(s) \cup Nearby(s, Len(s) \div 2, w) <=>
             x \in Nat /\ \E y \in AsSet(s) : x - w <= y /\ y <= x + w
<1>p. PICK n : n = Len(s) \div 2
  OBVIOUS
<1>1. \A m \in 1..n : s[2 * m - 1] \in Nat /\ s[2 * m] \in Nat /\ s[2 * m - 1] < s[2 * m]
  BY <1>p, RangeAt
<1>2. \A y : y \in AsSet(s) <=> \E m \in 1..n : y \in s[2*m-1]..(s[2*m]-1)
  BY <1>p, RangesCover
<1>3. \A y \in AsSet(s) : y \in Nat
  BY <1>1, <1>2
<1>4. ASSUME x \in AsSet(s) PROVE x \in Nat /\ \E y \in AsSet(s) : x - w <= y /\ y <= x + w
  <2>1. x \in Nat
    BY <1>3, <1>4
  <2>2. x - w <= x /\ x <= x + w
    BY <2>1
  <2> QED
    BY <1>4, <2>1, <2>2
<1>5. ASSUME x \in Nearby(s, n, w)
      PROVE  x \in Nat /\ \E y \in AsSet(s) : x - w <= y /\ y <= x + w
  <2>1. PICK m \in 1..n : s[2 * m - 1] - w <= x /\ x <= s[2 * m] + w - 1
    BY <1>5 DEF Nearby
  <2>2. x \in Nat
    BY <1>5 DEF Nearby
  <2>p. PICK e, f : e = s[2 * m - 1] /\ f = s[2 * m]
    OBVIOUS
  <2>3. e \in Nat /\ f \in Nat /\ e < f /\ e - w <= x /\ x <= f + w - 1
    BY <1>1, <2>1, <2>p
  <2>4. PICK y : y = IF x < e THEN e ELSE IF f <= x THEN f - 1 ELSE x
    OBVIOUS
  <2>5. y \in e..(f - 1) /\ x - w <= y /\ y <= x + w
    BY <2>2, <2>3, <2>4
  <2>6. y \in AsSet(s)
    BY <1>2, <2>5, <2>p
  <2> QED
    BY <2>2, <2>5, <2>6
<1>6. ASSUME x \in Nat, NEW y \in AsSet(s), x - w <= y, y <= x + w
      PROVE  x \in Nearby(s, n, w)
  <2>1. PICK m \in 1..n : y \in s[2*m-1]..(s[2*m]-1)
    BY <1>2, <1>6
  <2>2. s[2*m-1] - w <= x /\ x <= s[2*m] + w - 1
    <3>p. PICK e, f : e = s[2 * m - 1] /\ f = s[2 * m]
      OBVIOUS
    <3>1. e \in Nat /\ f \in Nat /\ y \in Int /\ e <= y /\ y <= f - 1
      BY <1>1, <2>1, <3>p
    <3>2. e - w <= x /\ x <= f + w - 1
      BY <1>6, <3>1
    <3> QED
      BY <3>2, <3>p
  <2> QED
    BY <1>6, <2>1, <2>2 DEF Nearby
<1> QED
  BY <1>4, <1>5, <1>6, <1>p

LEMMA ExtendRight ==
    ASSUME NEW a \in RangeSets, NEW w \in Nat
    PROVE  /\ Extend(a, w) \in RangeSets
           /\ AsSet(Extend(a, w).data) =
                {x \in Nat : \E y \in AsSet(a.data) : x - w <= y /\ y <= x + w}
<1>p. PICK s, r : s = a.data /\ r = Extend(a, w)
  OBVIOUS
<1>1. s \in Seq(Nat) /\ Rising(s) /\ Len(s) % 2 = 0
  BY <1>p, RangeSetIs
<1>2. r \in RangeSets /\ AsSet(r.data) = AsSet(s) \cup Nearby(s, Len(s) \div 2, w)
  BY <1>p, WidenedRight
<1>3. \A x : x \in AsSet(r.data) <=> x \in Nat /\ \E y \in AsSet(s) : x - w <= y /\ y <= x + w
  BY <1>1, <1>2, NearbyIs
<1>4. AsSet(r.data) = {x \in Nat : \E y \in AsSet(s) : x - w <= y /\ y <= x + w}
  BY <1>3
<1> QED
  BY <1>2, <1>4, <1>p

-----------------------------------------------------------------------------
(* The specification.                                                      *)

Within(a) == a \in RangeSets /\ AsSet(a.data) \subseteq 0..(Limit - 1)

(* The inductive invariant: both RangeSets are in form and in bounds, and  *)
(* the attribute of a parsed one is right.                                 *)
RangeInv == Within(self) /\ Within(other) /\ MonotonicExact

LEMMA TextsAreProper ==
    ASSUME NEW t \in Texts
    PROVE  Proper(t) /\ DOMAIN t = 1..Len(t) /\ Covered(t, Len(t)) \subseteq 0..(Limit - 1)
<1>1. PICK n \in 0..MaxItems : t \in [1..n -> Items]
  BY DEF Texts
<1>2. n \in Nat /\ Limit \in Nat
  BY LimitAssumption
<1>3. \A i \in 1..n : t[i] \in Items
  BY <1>1
<1>4. \A i \in 1..n : /\ t[i] \in Pairs /\ t[i][1] \in 0..(Limit - 1) /\ t[i][2] \in 0..(Limit - 1)
                      /\ t[i][1] <= t[i][2]
  BY <1>2, <1>3 DEF Items, Pairs
<1>5. DOMAIN t = 1..n
  BY <1>1
<1>6. t \in Seq(Pairs) /\ Len(t) = n
  BY <1>1, <1>2, <1>4
<1>7. \A i, j \in 1..n : i < j => t[i][2] < t[j][1] \/ t[j][2] < t[i][1]
  BY <1>5 DEF Texts
<1>8. Proper(t)
  BY <1>4, <1>6, <1>7 DEF Proper
<1>9. \A x \in Covered(t, n) : x \in 0..(Limit - 1)
  <2> TAKE x \in Covered(t, n)
  <2>1. PICK i \in 1..n : t[i][1] <= x /\ x <= t[i][2]
    BY DEF Covered
  <2>2. x \in Nat
    BY DEF Covered
  <2>3. t[i][2] \in 0..(Limit - 1)
    BY <1>4
  <2> QED
    BY <1>2, <2>1, <2>2, <2>3
<1> QED
  BY <1>5, <1>6, <1>8, <1>9

LEMMA ParsedWithin ==
    ASSUME NEW t \in Texts PROVE Within(Parse(t))
<1>1. Proper(t) /\ Covered(t, Len(t)) \subseteq 0..(Limit - 1)
  BY TextsAreProper
<1> QED
  BY <1>1, ParseRight DEF Within

LEMMA InvInit == Init => RangeInv /\ Sets!Init
<1> SUFFICES ASSUME Init PROVE RangeInv /\ Sets!Init
  OBVIOUS
<1>1. text \in Texts /\ self = Parse(text) /\ other \in Parsed /\ answer = 0
      /\ called = <<"parse", 0>>
  BY DEF Init
<1>2. Within(self)
  BY <1>1, ParsedWithin
<1>3. PICK t \in Texts : other = Parse(t)
  BY <1>1 DEF Parsed
<1>4. Within(other)
  BY <1>3, ParsedWithin
<1>5. self.monotonic \in BOOLEAN
  BY <1>2, RangeSetIs DEF Within
<1>6. DOMAIN text = 1..Len(text) /\ (self.monotonic <=> InTurn(text, Len(text)))
  BY <1>1, TextsAreProper, ParseRight
<1>7. MonotonicExact
  BY <1>5, <1>6 DEF MonotonicExact, InTurn
<1>8. Sets!Init
  BY <1>1, <1>2, <1>4 DEF Within, Sets!Init, Sets!Numbers
<1> QED
  BY <1>2, <1>4, <1>7, <1>8 DEF RangeInv

(* An operation that replaces self by a RangeSet of the right numbers.     *)
LEMMA BecomesRight ==
    ASSUME RangeInv, NEW a \in RangeSets, NEW name, name # "parse", NEW n, Becomes(a, name, n)
    PROVE  RangeInv' /\ Sets!Becomes(AsSet(a.data), name, n)
<1>1. /\ AsSet(a.data) \subseteq 0..(Limit - 1) /\ self' = a /\ answer' = 0
      /\ called' = <<name, n>> /\ other' = other
  BY DEF Becomes, Called
<1>2. Within(self)' /\ Within(other)'
  BY <1>1 DEF RangeInv, Within
<1>3. called'[1] # "parse"
  BY <1>1
<1>4. MonotonicExact'
  BY <1>3 DEF MonotonicExact
<1>5. Sets!Becomes(AsSet(a.data), name, n)
  BY <1>1 DEF Sets!Becomes, Sets!Numbers
<1> QED
  BY <1>2, <1>4, <1>5 DEF RangeInv

LEMMA AnswersRight ==
    ASSUME RangeInv, NEW name, name # "parse", NEW v, answer' = v, Called(name, 0),
           UNCHANGED <<self, other>>
    PROVE  RangeInv' /\ Sets!Answers(v, name)
<1>1. called' = <<name, 0>> /\ self' = self /\ other' = other
  BY DEF Called
<1>2. Within(self)' /\ Within(other)'
  BY <1>1 DEF RangeInv, Within
<1>3. called'[1] # "parse"
  BY <1>1
<1>4. MonotonicExact'
  BY <1>3 DEF MonotonicExact
<1>5. Sets!Answers(v, name)
  BY <1>1 DEF Sets!Answers
<1> QED
  BY <1>2, <1>4, <1>5 DEF RangeInv

(* BlockSets counts as RangeLib does.                                      *)
LEMMA SameCardinality == \A S : Sets!Cardinality(S) = Cardinality(S)
BY Zenon DEF Sets!Cardinality, Cardinality

LEMMA InvNext == RangeInv /\ [Next]_vars => RangeInv' /\ [Sets!Next]_(Sets!vars)
<1> SUFFICES ASSUME RangeInv, [Next]_vars PROVE RangeInv' /\ [Sets!Next]_(Sets!vars)
  OBVIOUS
<1>0. /\ self \in RangeSets /\ AsSet(self.data) \subseteq 0..(Limit - 1)
      /\ other \in RangeSets /\ AsSet(other.data) \subseteq 0..(Limit - 1)
      /\ Limit \in Nat
  BY LimitAssumption DEF RangeInv, Within
<1>1. CASE UNCHANGED vars
  <2>1. UNCHANGED <<self, other, answer, called, text>>
    BY <1>1 DEF vars
  <2>2. RangeInv'
    BY <2>1 DEF RangeInv, Within, MonotonicExact
  <2>3. UNCHANGED Sets!vars
    BY <2>1 DEF Sets!vars
  <2> QED
    BY <2>2, <2>3
<1>2. CASE Exchange
  <2>1. self' = other /\ other' = self /\ answer' = 0 /\ called' = <<"swap", 0>>
    BY <1>2 DEF Exchange, Called
  <2>2. Within(self)' /\ Within(other)'
    BY <2>1 DEF RangeInv, Within
  <2>3. called'[1] # "parse"
    BY <2>1
  <2>4. MonotonicExact'
    BY <2>3 DEF MonotonicExact
  <2>5. Sets!Swap
    BY <2>1 DEF Sets!Swap
  <2> QED
    BY <2>2, <2>4, <2>5 DEF RangeInv, Sets!Next
<1>3. CASE UnionOp
  <2>1. PICK a : a = Union(self, other)
    OBVIOUS
  <2>2. a \in RangeSets /\ AsSet(a.data) = AsSet(self.data) \cup AsSet(other.data)
    BY <1>0, <2>1, UnionRight
  <2>3. Becomes(a, "union", 0)
    BY <1>3, <2>1 DEF UnionOp
  <2>4. RangeInv' /\ Sets!Becomes(AsSet(a.data), "union", 0)
    BY <2>2, <2>3, BecomesRight
  <2>5. Sets!Union
    BY <2>2, <2>4 DEF Sets!Union
  <2> QED
    BY <2>4, <2>5 DEF Sets!Next
<1>4. CASE IntersectOp
  <2>1. PICK a : a = Intersect(self, other)
    OBVIOUS
  <2>2. a \in RangeSets /\ AsSet(a.data) = AsSet(self.data) \cap AsSet(other.data)
    BY <1>0, <2>1, IntersectRight
  <2>3. Becomes(a, "intersect", 0)
    BY <1>4, <2>1 DEF IntersectOp
  <2>4. RangeInv' /\ Sets!Becomes(AsSet(a.data), "intersect", 0)
    BY <2>2, <2>3, BecomesRight
  <2>5. Sets!Intersect
    BY <2>2, <2>4 DEF Sets!Intersect
  <2> QED
    BY <2>4, <2>5 DEF Sets!Next
<1>5. CASE SubtractOp
  <2>1. PICK a : a = Subtract(self, other)
    OBVIOUS
  <2>2. a \in RangeSets /\ AsSet(a.data) = AsSet(self.data) \ AsSet(other.data)
    BY <1>0, <2>1, SubtractRight
  <2>3. Becomes(a, "subtract", 0)
    BY <1>5, <2>1 DEF SubtractOp
  <2>4. RangeInv' /\ Sets!Becomes(AsSet(a.data), "subtract", 0)
    BY <2>2, <2>3, BecomesRight
  <2>5. Sets!Subtract
    BY <2>2, <2>4 DEF Sets!Subtract
  <2> QED
    BY <2>4, <2>5 DEF Sets!Next
<1>6. CASE ExtendOp
  <2>n. PICK n \in 0..Limit : Becomes(Extend(self, n), "extend", n)
    BY <1>6 DEF ExtendOp
  <2>1. PICK a, A : a = Extend(self, n) /\ A = AsSet(self.data)
    OBVIOUS
  <2>2. n \in Nat
    BY <1>0, <2>n
  <2>3. a \in RangeSets /\ AsSet(a.data) = {x \in Nat : \E y \in A : x - n <= y /\ y <= x + n}
    BY <1>0, <2>1, <2>2, ExtendRight
  <2>4. {x \in Nat : \E y \in A : x - n <= y /\ y <= x + n}
          = {x \in 0..(Limit + n) : \E y \in A : x - n <= y /\ y <= x + n}
    <3>1. ASSUME NEW x \in Nat, NEW y \in A, x - n <= y PROVE x \in 0..(Limit + n)
      <4>1. y \in 0..(Limit - 1)
        BY <1>0, <2>1
      <4> QED
        BY <1>0, <2>2, <3>1, <4>1
    <3>2. \A x \in 0..(Limit + n) : x \in Nat
      BY <1>0, <2>2
    <3> QED
      BY <3>1, <3>2
  <2>5. Becomes(a, "extend", n)
    BY <2>1, <2>n
  <2>6. RangeInv' /\ Sets!Becomes(AsSet(a.data), "extend", n)
    BY <2>3, <2>5, BecomesRight
  <2>7. Sets!Extend(n)
    BY <2>1, <2>3, <2>4, <2>6 DEF Sets!Extend
  <2> QED
    BY <2>6, <2>7, <2>n DEF Sets!Next
<1>7. CASE FirstOp
  <2>n. PICK n \in 0..Limit : Becomes(First(self, n), "first", n)
    BY <1>7 DEF FirstOp
  <2>1. PICK a, A : a = First(self, n) /\ A = AsSet(self.data)
    OBVIOUS
  <2>2. n \in Nat
    BY <1>0, <2>n
  <2>3. a \in RangeSets /\ AsSet(a.data) = {x \in A : Cardinality({y \in A : y < x}) < n}
    BY <1>0, <2>1, <2>2, FirstRight
  <2>4. Becomes(a, "first", n)
    BY <2>1, <2>n
  <2>5. RangeInv' /\ Sets!Becomes(AsSet(a.data), "first", n)
    BY <2>3, <2>4, BecomesRight
  <2>e. AsSet(a.data) = {x \in AsSet(self.data) : Cardinality({y \in AsSet(self.data) : y < x}) < n}
    BY Zenon, <2>1, <2>3
  <2>6. Sets!First(n)
    BY Zenon, <2>5, <2>e, SameCardinality DEF Sets!First
  <2> QED
    BY <2>5, <2>6, <2>n DEF Sets!Next
<1>8. CASE MapWithinOp
  <2>1. PICK a, A, B : a = MapWithin(self, other) /\ A = AsSet(self.data) /\ B = AsSet(other.data)
    OBVIOUS
  <2>2. B \subseteq A /\ Becomes(a, "map_within", 0)
    BY <1>8, <2>1 DEF MapWithinOp
  <2>3. a \in RangeSets /\ AsSet(a.data) = {Cardinality({y \in A : y < x}) : x \in B}
    BY <1>0, <2>1, <2>2, MapWithinRight
  <2>4. RangeInv' /\ Sets!Becomes(AsSet(a.data), "map_within", 0)
    BY <2>2, <2>3, BecomesRight
  <2>e. AsSet(a.data) = {Cardinality({y \in AsSet(self.data) : y < x}) : x \in AsSet(other.data)}
    BY Zenon, <2>1, <2>3
  <2>s. AsSet(other.data) \subseteq AsSet(self.data)
    BY <2>1, <2>2
  <2>5. Sets!MapWithin
    BY Zenon, <2>4, <2>e, <2>s, SameCardinality DEF Sets!MapWithin
  <2> QED
    BY <2>4, <2>5 DEF Sets!Next
<1>9. CASE SizeOp
  <2>1. answer' = Size(self) /\ Called("size", 0) /\ UNCHANGED <<self, other>>
    BY <1>9 DEF SizeOp
  <2>2. Size(self) = Cardinality(AsSet(self.data))
    BY <1>0, SizeRight
  <2>3. RangeInv' /\ Sets!Answers(Cardinality(AsSet(self.data)), "size")
    BY <2>1, <2>2, AnswersRight
  <2>4. Sets!Size
    BY Zenon, <2>3, SameCardinality DEF Sets!Size
  <2> QED
    BY <2>3, <2>4 DEF Sets!Next
<1>10. CASE OverlapsOp
  <2>1. PICK v : v = IF Overlaps(self, other) THEN 1 ELSE 0
    OBVIOUS
  <2>2. answer' = v /\ Called("overlaps", 0) /\ UNCHANGED <<self, other>>
    BY <1>10, <2>1 DEF OverlapsOp
  <2>3. Overlaps(self, other) <=> AsSet(self.data) \cap AsSet(other.data) # {}
    BY <1>0, OverlapsRight
  <2>4. v = IF AsSet(self.data) \cap AsSet(other.data) # {} THEN 1 ELSE 0
    BY <2>1, <2>3
  <2>5. RangeInv' /\ Sets!Answers(v, "overlaps")
    BY <2>2, AnswersRight
  <2>6. Sets!Overlaps
    BY <2>4, <2>5 DEF Sets!Overlaps
  <2> QED
    BY <2>5, <2>6 DEF Sets!Next
<1> QED
  BY <1>1, <1>2, <1>3, <1>4, <1>5, <1>6, <1>7, <1>8, <1>9, <1>10 DEF Next

LEMMA InvForm == RangeInv => FormExact
<1> SUFFICES ASSUME RangeInv PROVE FormExact
  OBVIOUS
<1>1. self \in RangeSets /\ other \in RangeSets /\ MonotonicExact
  BY DEF RangeInv, Within
<1>2. CanonicalForm
  BY <1>1, RangeSetIs DEF CanonicalForm
<1>3. RoundTrip
  BY <1>1, RoundTripRight DEF RoundTrip
<1> QED
  BY <1>1, <1>2, <1>3 DEF FormExact

(* Whatever operations are called on whatever texts, in whatever order: no *)
(* RangeSet has ranges that touch or overlap, each is what its text is     *)
(* parsed to, and monotonic is exactly what the choice of imgdiff takes it *)
(* for.                                                                    *)
THEOREM RangesKeepTheirForm == Spec => []FormExact
<1>1. Spec => []RangeInv
  <2>1. Init => RangeInv
    BY InvInit
  <2>2. RangeInv /\ [Next]_vars => RangeInv'
    BY InvNext
  <2> QED
    BY <2>1, <2>2, PTL DEF Spec
<1> QED
  BY <1>1, InvForm, PTL

(* rangelib.py implements sets of integers: every operation on boundaries  *)
(* has the set, the size or the answer that the operation on sets has.     *)
THEOREM RangesAreSets == Spec => ImplementsSets
<1>1. Spec => []RangeInv
  <2>1. Init => RangeInv
    BY InvInit
  <2>2. RangeInv /\ [Next]_vars => RangeInv'
    BY InvNext
  <2> QED
    BY <2>1, <2>2, PTL DEF Spec
<1>2. Init => Sets!Init
  BY InvInit
<1>3. RangeInv /\ [Next]_vars => [Sets!Next]_(Sets!vars)
  BY InvNext
<1> QED
  BY <1>1, <1>2, <1>3, PTL DEF Spec, ImplementsSets, Sets!Spec

=============================================================================
