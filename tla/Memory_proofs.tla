---------------------------- MODULE Memory_proofs ----------------------------
(***************************************************************************)
(* The page allocator hands out a page once, blocks have the size that is  *)
(* asked for, and the blocks of a heap tile its pages, for a memory, pages *)
(* and requests of any size and any number of processes and threads.       *)
(*                                                                         *)
(* The nodes above n are n divided by the powers of two; what is needed of *)
(* them is proved first, by induction over the levels.                     *)
(***************************************************************************)
EXTENDS Memory, FiniteSetTheorems, SequenceTheorems, WellFoundedInduction, TLAPS

-----------------------------------------------------------------------------
(***************************************************************************)
(* Induction, on a set.                                                    *)
(***************************************************************************)

\* A set of numbers that is not empty has a least element.
LEMMA LeastNumber ==
    ASSUME NEW T \in SUBSET Nat, T # {}
    PROVE  \E x \in T : \A y \in T : x <= y
<1>1. IsWellFoundedOn(OpToRel(<, Nat), Nat)
  BY NatLessThanWellFounded
<1>2. PICK x \in T : \A y \in T : ~(<<y, x>> \in OpToRel(<, Nat))
  BY <1>1, WFMin
<1>3. \A y \in T : ~(y < x)
  BY <1>2 DEF OpToRel
<1> QED BY <1>3

\* Induction over the numbers, with a set in place of a predicate.
LEMMA SetInduction ==
    ASSUME NEW S, 0 \in S, \A n \in Nat : n \in S => n + 1 \in S
    PROVE  \A n \in Nat : n \in S
<1> DEFINE T == Nat \ S
<1> SUFFICES ASSUME T # {} PROVE FALSE
  OBVIOUS
<1>1. PICK x \in T : \A y \in T : x <= y
  BY LeastNumber
<1>2. x # 0 /\ x - 1 \in Nat /\ x - 1 \notin T
  BY <1>1
<1> QED BY <1>2

-----------------------------------------------------------------------------
(***************************************************************************)
(* Powers of two.                                                          *)
(***************************************************************************)

\* g are the powers up to N.
ArePowers(g, N) == g = [k \in 0..N |-> IF k = 0 THEN 1 ELSE 2 * g[k - 1]]

\* There is a function that satisfies the recursion of Pow2.
LEMMA PowersExist ==
    ASSUME NEW N \in Nat
    PROVE  \E g : ArePowers(g, N)
<1> DEFINE S == { n \in Nat : \E g : ArePowers(g, n) }
<1>1. 0 \in S
  <2> DEFINE g == [k \in 0..0 |-> 1]
  <2>1. g = [k \in 0..0 |-> IF k = 0 THEN 1 ELSE 2 * g[k - 1]]
    OBVIOUS
  <2>2. ArePowers(g, 0)
    BY <2>1 DEF ArePowers
  <2> QED BY <2>2
<1>2. ASSUME NEW n \in Nat, n \in S PROVE n + 1 \in S
  <2>1. PICK g : g = [k \in 0..n |-> IF k = 0 THEN 1 ELSE 2 * g[k - 1]]
    BY <1>2 DEF ArePowers
  <2> DEFINE h == [k \in 0..(n + 1) |-> IF k = n + 1 THEN 2 * g[n] ELSE g[k]]
  <2>2. ASSUME NEW k \in 0..(n + 1) PROVE h[k] = IF k = 0 THEN 1 ELSE 2 * h[k - 1]
    <3>1. CASE k = n + 1
      BY <3>1
    <3>2. CASE k # n + 1
      <4>1. k \in 0..n
        BY <3>2
      <4>2. g[k] = IF k = 0 THEN 1 ELSE 2 * g[k - 1]
        BY <2>1, <4>1
      <4> QED BY <4>1, <4>2
    <3> QED BY <3>1, <3>2
  <2>3. h = [k \in 0..(n + 1) |-> h[k]]
    OBVIOUS
  <2> HIDE DEF h
  <2>4. h = [k \in 0..(n + 1) |-> IF k = 0 THEN 1 ELSE 2 * h[k - 1]]
    BY <2>2, <2>3
  <2>5. ArePowers(h, n + 1)
    BY <2>4 DEF ArePowers
  <2> QED BY <2>5
<1>3. N \in S
  <2> HIDE DEF S
  <2> QED BY <1>1, <1>2, SetInduction
<1> QED BY <1>3

\* What the recursion of Pow2 says.
LEMMA Pow2Steps ==
    /\ Pow2[0] = 1
    /\ \A k \in 0..(heapLevel - 1) : Pow2[k + 1] = 2 * Pow2[k]
<1>1. heapLevel \in Nat
  BY BuddyAssumption
<1>2. \E g : g = [k \in 0..heapLevel |-> IF k = 0 THEN 1 ELSE 2 * g[k - 1]]
  BY <1>1, PowersExist DEF ArePowers
<1>3. Pow2 = [k \in 0..heapLevel |-> IF k = 0 THEN 1 ELSE 2 * Pow2[k - 1]]
  BY <1>2 DEF Pow2
<1>4. ASSUME NEW k \in 0..(heapLevel - 1) PROVE Pow2[k + 1] = 2 * Pow2[k]
  <2>1. k + 1 \in 0..heapLevel /\ k + 1 # 0 /\ (k + 1) - 1 = k
    BY <1>1
  <2> QED BY <1>3, <2>1
<1> QED BY <1>1, <1>3, <1>4

\* Powers of two are positive numbers.
LEMMA Pow2Type ==
    \A k \in 0..heapLevel : Pow2[k] \in Nat \ {0}
<1> DEFINE S == { n \in Nat : n <= heapLevel => Pow2[n] \in Nat \ {0} }
<1>1. 0 \in S
  BY Pow2Steps
<1>2. ASSUME NEW n \in Nat, n \in S PROVE n + 1 \in S
  BY <1>2, Pow2Steps, BuddyAssumption
<1>3. \A n \in Nat : n \in S
  <2> HIDE DEF S
  <2> QED BY <1>1, <1>2, SetInduction
<1> QED BY <1>3, BuddyAssumption

\* They grow with the exponent.
LEMMA Pow2Monotonic ==
    ASSUME NEW i \in 0..heapLevel, NEW j \in 0..heapLevel, i <= j
    PROVE  Pow2[i] <= Pow2[j]
<1> DEFINE S == { n \in Nat : i + n <= heapLevel => Pow2[i] <= Pow2[i + n] }
<1>1. 0 \in S
  BY Pow2Type
<1>2. ASSUME NEW n \in Nat, n \in S PROVE n + 1 \in S
  <2>1. SUFFICES ASSUME i + (n + 1) <= heapLevel
                 PROVE  Pow2[i] <= Pow2[i + (n + 1)]
    OBVIOUS
  <2>2. i + n \in 0..(heapLevel - 1) /\ i + (n + 1) = (i + n) + 1
    BY <2>1, BuddyAssumption
  <2>3. Pow2[i + (n + 1)] = 2 * Pow2[i + n]
    BY <2>2, Pow2Steps
  <2> QED BY <1>2, <2>2, <2>3, Pow2Type, BuddyAssumption
<1>3. j - i \in S
  <2> HIDE DEF S
  <2> QED BY <1>1, <1>2, SetInduction
<1> QED BY <1>3

\* The sizes of the tree in powers of two.
LEMMA Sizes2 ==
    /\ NUMBER_OF_PAGES \in Nat \ {0}
    /\ Pow2[heapLevel] = 2 * NUMBER_OF_PAGES
    /\ HEAPSIZE = Pow2[heapLevel] - 1
    /\ Node = 1..(Pow2[heapLevel] - 1)
    /\ \A page \in Page : Leaf(page) \in Node
<1>1. heapLevel - 1 \in 0..(heapLevel - 1) /\ (heapLevel - 1) + 1 = heapLevel
  BY BuddyAssumption
<1>2. Pow2[heapLevel] = 2 * NUMBER_OF_PAGES
  BY <1>1, Pow2Steps DEF NUMBER_OF_PAGES
<1>3. NUMBER_OF_PAGES \in Nat \ {0}
  BY <1>1, Pow2Type, BuddyAssumption DEF NUMBER_OF_PAGES
<1> QED BY <1>2, <1>3 DEF HEAPSIZE, Node, Page, Leaf

(***************************************************************************)
(* Division.                                                               *)
(***************************************************************************)

\* What division gives.
LEMMA Quotient ==
    ASSUME NEW x \in Nat, NEW m \in Nat \ {0}
    PROVE  /\ x \div m \in Nat /\ x \div m <= x
           /\ m * (x \div m) <= x /\ x < m * (x \div m) + m
           /\ x < m => x \div m = 0
OBVIOUS

\* What characterises a quotient.
LEMMA QuotientIs ==
    ASSUME NEW x \in Nat, NEW m \in Nat \ {0}, NEW q \in Nat,
           m * q <= x, x < m * q + m
    PROVE  x \div m = q
OBVIOUS

\* Halving a quotient divides by twice as much: a node's parent.
LEMMA HalfOfQuotient ==
    ASSUME NEW x \in Nat, NEW m \in Nat \ {0}
    PROVE  (x \div m) \div 2 = x \div (2 * m)
OBVIOUS

\* Dividing by two powers in a row.
LEMMA QuotientOfQuotient ==
    ASSUME NEW x \in Nat, NEW i \in 0..heapLevel, NEW j \in 0..heapLevel,
           i + j <= heapLevel
    PROVE  (x \div Pow2[i]) \div Pow2[j] = x \div Pow2[i + j]
<1> DEFINE S == { n \in Nat : i + n <= heapLevel =>
                      (x \div Pow2[i]) \div Pow2[n] = x \div Pow2[i + n] }
           y == x \div Pow2[i]
<1>0. y \in Nat
  BY Pow2Type, Quotient
<1> HIDE DEF y
<1>1. 0 \in S
  <2>1. y \div 1 = y
    BY <1>0
  <2> QED BY <2>1, Pow2Steps DEF y
<1>2. ASSUME NEW n \in Nat, n \in S PROVE n + 1 \in S
  <2>1. SUFFICES ASSUME i + (n + 1) <= heapLevel
                 PROVE  y \div Pow2[n + 1] = x \div Pow2[i + (n + 1)]
    BY DEF y
  <2>2. /\ i + n \in 0..(heapLevel - 1) /\ i + (n + 1) = (i + n) + 1
        /\ n \in 0..(heapLevel - 1) /\ n \in 0..heapLevel /\ i + n \in 0..heapLevel
    BY <2>1, BuddyAssumption
  <2>3. Pow2[i + (n + 1)] = 2 * Pow2[i + n] /\ Pow2[n + 1] = 2 * Pow2[n]
    BY <2>2, Pow2Steps
  <2>4. y \div Pow2[n] = x \div Pow2[i + n]
    BY <1>2, <2>2, BuddyAssumption DEF y
  <2>5. (y \div Pow2[n]) \div 2 = y \div Pow2[n + 1]
    BY <1>0, <2>2, <2>3, Pow2Type, HalfOfQuotient
  <2>6. (x \div Pow2[i + n]) \div 2 = x \div Pow2[i + (n + 1)]
    BY <2>2, <2>3, Pow2Type, HalfOfQuotient
  <2> QED BY <2>4, <2>5, <2>6
<1>3. j \in S
  <2> HIDE DEF S
  <2> QED BY <1>1, <1>2, SetInduction
<1> QED BY <1>3

-----------------------------------------------------------------------------
(***************************************************************************)
(* The tree.                                                               *)
(***************************************************************************)

\* a is n or above it.
On(a, n) == a = n \/ a \in Above[n]

\* The nodes above n are its quotients by powers of two.
LEMMA AboveIs ==
    ASSUME NEW n \in Node
    PROVE  /\ Above[n] \subseteq Node
           /\ \A k \in 1..heapLevel : n \div Pow2[k] # 0 => n \div Pow2[k] \in Above[n]
           /\ \A a \in Above[n] : \E k \in 1..heapLevel : a = n \div Pow2[k]
<1>1. n \in Nat /\ n <= HEAPSIZE /\ HEAPSIZE \in Nat
  BY Sizes2, Pow2Type, BuddyAssumption DEF Node
<1>2. Above[n] = { n \div Pow2[k] : k \in 1..heapLevel } \ {0}
  BY DEF Above
<1>3. \A k \in 1..heapLevel : n \div Pow2[k] \in Nat /\ n \div Pow2[k] <= n
  <2>1. ASSUME NEW k \in 1..heapLevel PROVE Pow2[k] \in Nat \ {0}
    BY Pow2Type, BuddyAssumption
  <2> QED BY <1>1, <2>1, Quotient
<1>4. Above[n] \subseteq Node
  BY <1>1, <1>2, <1>3 DEF Node
<1> QED BY <1>2, <1>4

\* So are the nodes on its path, n included.
LEMMA OnIs ==
    ASSUME NEW n \in Node, NEW a
    PROVE  On(a, n) <=> a # 0 /\ \E k \in 0..heapLevel : a = n \div Pow2[k]
<1>1. n \in Nat /\ n # 0
  BY Sizes2, Pow2Type, BuddyAssumption DEF Node
<1>2. n \div Pow2[0] = n
  BY <1>1, Pow2Steps
<1>3. ASSUME On(a, n)
      PROVE  a # 0 /\ \E k \in 0..heapLevel : a = n \div Pow2[k]
  <2>1. CASE a = n
    BY <1>1, <1>2, <2>1, BuddyAssumption
  <2>2. CASE a \in Above[n]
    <3>1. PICK k \in 1..heapLevel : a = n \div Pow2[k]
      BY <2>2, AboveIs
    <3>2. a # 0
      BY <2>2, AboveIs DEF Node
    <3>3. k \in 0..heapLevel
      BY BuddyAssumption
    <3> QED BY <3>1, <3>2, <3>3
  <2> QED BY <1>3, <2>1, <2>2 DEF On
<1>4. ASSUME a # 0, NEW k \in 0..heapLevel, a = n \div Pow2[k]
      PROVE  On(a, n)
  <2>1. CASE k = 0
    BY <1>2, <1>4, <2>1 DEF On
  <2>2. CASE k # 0
    <3>1. k \in 1..heapLevel
      BY <2>2, BuddyAssumption
    <3> QED BY <1>4, <3>1, AboveIs DEF On
  <2> QED BY <2>1, <2>2
<1> QED BY <1>3, <1>4

\* What is above what is above n is above n.
LEMMA AboveTransitive ==
    ASSUME NEW n \in Node, NEW b \in Above[n], NEW a \in Above[b]
    PROVE  a \in Above[n]
<1>1. n \in Nat /\ b \in Node /\ b \in Nat
  BY AboveIs, Sizes2, Pow2Type, BuddyAssumption DEF Node
<1>2. PICK k \in 1..heapLevel : b = n \div Pow2[k]
  BY AboveIs
<1>3. PICK j \in 1..heapLevel : a = b \div Pow2[j]
  BY <1>1, AboveIs
<1>4. a # 0
  BY <1>1, AboveIs DEF Node
<1>5. heapLevel \in Nat /\ k \in 0..heapLevel /\ j \in 0..heapLevel
  BY BuddyAssumption
<1>6. CASE k + j <= heapLevel
  <2>1. a = n \div Pow2[k + j]
    BY <1>1, <1>2, <1>3, <1>5, <1>6, QuotientOfQuotient
  <2>2. k + j \in 1..heapLevel
    BY <1>5, <1>6
  <2> QED BY <1>4, <2>1, <2>2, AboveIs
<1>7. CASE k + j > heapLevel
  <2> DEFINE i == heapLevel - k
  <2>1. i \in 0..heapLevel /\ k + i = heapLevel /\ i <= j
    BY <1>5, <1>7
  <2> HIDE DEF i
  <2>2. b \div Pow2[i] = n \div Pow2[heapLevel]
    BY <1>1, <1>2, <1>5, <2>1, QuotientOfQuotient
  <2>3. n \div Pow2[heapLevel] = 0
    <3>1. n < Pow2[heapLevel] /\ Pow2[heapLevel] \in Nat \ {0}
      BY <1>5, Sizes2, Pow2Type DEF Node
    <3> QED BY <1>1, <3>1, Quotient
  <2>4. b < Pow2[i] /\ Pow2[i] <= Pow2[j]
    <3>1. b < Pow2[i] * (b \div Pow2[i]) + Pow2[i]
      BY <1>1, <2>1, Pow2Type, Quotient
    <3> QED BY <1>1, <1>5, <2>1, <2>2, <2>3, <3>1, Pow2Type, Pow2Monotonic
  <2>5. b \div Pow2[j] = 0
    BY <1>1, <1>5, <2>1, <2>4, Pow2Type, Quotient
  <2> QED BY <1>3, <1>4, <2>5
<1> QED BY <1>5, <1>6, <1>7

\* Two nodes on a path are on one another's.
LEMMA PathOrdered ==
    ASSUME NEW n \in Node, NEW a, NEW b, On(a, n), On(b, n)
    PROVE  a = b \/ a \in Above[b] \/ b \in Above[a]
<1>1. n \in Nat /\ heapLevel \in Nat
  BY Sizes2, Pow2Type, BuddyAssumption DEF Node
<1>2. a \in Node /\ b \in Node
  BY AboveIs DEF On
<1>3. ASSUME NEW c \in Node, NEW d \in Node, NEW i \in 0..heapLevel,
             NEW j \in 0..heapLevel, c = n \div Pow2[i], d = n \div Pow2[j], i < j
      PROVE  d \in Above[c]
  <2>1. /\ j - i \in 1..heapLevel /\ j - i \in 0..heapLevel
        /\ i + (j - i) = j /\ i + (j - i) <= heapLevel
    BY <1>1, <1>3
  <2>2. d = c \div Pow2[j - i]
    BY <1>1, <1>3, <2>1, QuotientOfQuotient
  <2>3. d # 0
    BY DEF Node
  <2> QED BY <2>1, <2>2, <2>3, AboveIs
<1>4. PICK i \in 0..heapLevel : a = n \div Pow2[i]
  BY OnIs
<1>5. PICK j \in 0..heapLevel : b = n \div Pow2[j]
  BY OnIs
<1>6. i < j \/ j < i \/ i = j
  BY <1>1
<1> QED BY <1>2, <1>3, <1>4, <1>5, <1>6

\* Only nodes on one path have a page in common.
LEMMA PagesShared ==
    ASSUME NEW a \in Node, NEW b \in Node, PagesOf[a] \cap PagesOf[b] # {}
    PROVE  a = b \/ a \in Above[b] \/ b \in Above[a]
<1>1. PICK page \in PagesOf[a] : page \in PagesOf[b]
  OBVIOUS
<1>2. page \in Page /\ Leaf(page) \in Subtree[a] /\ Leaf(page) \in Subtree[b]
  BY <1>1 DEF PagesOf
<1>3. Leaf(page) \in Node
  BY <1>2, Sizes2
<1>4. On(a, Leaf(page)) /\ On(b, Leaf(page))
  BY <1>2 DEF Subtree, On
<1> QED BY <1>3, <1>4, PathOrdered

\* The way down.
LEMMA TowardsIs ==
    ASSUME NEW n \in Node, NEW a \in Above[n]
    PROVE  /\ Towards(a, n) \in {LCHILD(a), RCHILD(a)}
           /\ Towards(a, n) \in Node /\ On(Towards(a, n), n)
<1>1. n \in Nat /\ heapLevel \in Nat /\ a \in Nat \ {0}
  BY AboveIs, Sizes2, Pow2Type, BuddyAssumption DEF Node
<1>2. PICK k \in 1..heapLevel : a = n \div Pow2[k]
  BY AboveIs
<1> DEFINE c == n \div Pow2[k - 1]
<1>3. k - 1 \in 0..heapLevel /\ k - 1 \in 0..(heapLevel - 1) /\ (k - 1) + 1 = k
  BY <1>1
<1>4. Pow2[k] = 2 * Pow2[k - 1] /\ Pow2[k - 1] \in Nat \ {0}
  BY <1>3, Pow2Steps, Pow2Type
<1>5. c \div 2 = a /\ c \in Nat
  <2>1. c \div 2 = n \div (2 * Pow2[k - 1])
    BY <1>1, <1>4, HalfOfQuotient
  <2>2. c \in Nat
    BY <1>1, <1>4, Quotient
  <2> QED BY <1>2, <1>4, <2>1, <2>2
<1>6. c \in {LCHILD(a), RCHILD(a)} /\ c # 0
  BY <1>1, <1>5 DEF LCHILD, RCHILD
<1>7. On(c, n)
  BY <1>3, <1>6, OnIs
<1>8. c \in Node /\ n \in Subtree[c]
  BY <1>7, AboveIs DEF On, Subtree
<1> HIDE DEF c
<1>9. /\ Towards(a, n) \in {LCHILD(a), RCHILD(a)}
      /\ n \in Subtree[Towards(a, n)]
  BY <1>6, <1>8 DEF Towards
<1>10. LCHILD(a) \in Node /\ RCHILD(a) \in Node
  BY <1>1, <1>6, <1>8, Sizes2 DEF Node, LCHILD, RCHILD
<1>11. Towards(a, n) \in Node
  BY <1>9, <1>10
<1> QED BY <1>9, <1>11 DEF Subtree, On

\* The nodes of a level.
LEMMA LevelNodes ==
    ASSUME NEW level \in 1..heapLevel
    PROVE  NodesOf(level) \subseteq Node
<1>1. level - 1 \in 0..heapLevel /\ level \in 0..heapLevel /\ heapLevel \in 0..heapLevel
  BY BuddyAssumption
<1>2. Pow2[level] <= Pow2[heapLevel]
  BY <1>1, Pow2Monotonic, BuddyAssumption
<1>3. /\ Pow2[level - 1] \in Nat \ {0} /\ Pow2[level] \in Nat
      /\ Pow2[heapLevel] \in Nat
  BY <1>1, Pow2Type
<1> QED BY <1>2, <1>3, Sizes2 DEF NodesOf

\* Exponents add up.
LEMMA Pow2Product ==
    ASSUME NEW i \in 0..heapLevel, NEW j \in 0..heapLevel, i + j <= heapLevel
    PROVE  Pow2[i + j] = Pow2[i] * Pow2[j]
<1> DEFINE S == { n \in Nat : i + n <= heapLevel =>
                                 Pow2[i + n] = Pow2[i] * Pow2[n] }
<1>1. 0 \in S
  BY Pow2Steps, Pow2Type
<1>2. ASSUME NEW n \in Nat, n \in S PROVE n + 1 \in S
  <2>1. SUFFICES ASSUME i + (n + 1) <= heapLevel
                 PROVE  Pow2[i + (n + 1)] = Pow2[i] * Pow2[n + 1]
    OBVIOUS
  <2>2. /\ i + n \in 0..(heapLevel - 1) /\ i + (n + 1) = (i + n) + 1
        /\ n \in 0..(heapLevel - 1) /\ n \in 0..heapLevel /\ i + n \in 0..heapLevel
    BY <2>1, BuddyAssumption
  <2>3. Pow2[i + (n + 1)] = 2 * Pow2[i + n] /\ Pow2[n + 1] = 2 * Pow2[n]
    BY <2>2, Pow2Steps
  <2>4. Pow2[i + n] = Pow2[i] * Pow2[n]
    BY <1>2, <2>2, BuddyAssumption
  <2>5. ASSUME NEW x \in Nat, NEW y \in Nat PROVE 2 * (x * y) = x * (2 * y)
    OBVIOUS
  <2> QED BY <2>2, <2>3, <2>4, <2>5, Pow2Type
<1>3. j \in S
  <2> HIDE DEF S
  <2> QED BY <1>1, <1>2, SetInduction
<1> QED BY <1>3

\* A node whose path turns right below a is not the first of its level, and the
\* one before it is below a too.
LEMMA LeftNeighbour ==
    ASSUME NEW level \in 1..heapLevel, NEW n \in NodesOf(level),
           NEW a \in Above[n], On(RCHILD(a), n)
    PROVE  n - 1 \in NodesOf(level) /\ a \in Above[n - 1]
<1>1. /\ n \in Node /\ n \in Nat /\ heapLevel \in Nat \ {0}
      /\ n < Pow2[heapLevel] /\ Pow2[heapLevel] \in Nat \ {0}
  BY LevelNodes, Sizes2, Pow2Type, BuddyAssumption DEF Node
<1>2. a \in Nat \ {0}
  BY <1>1, AboveIs, Sizes2 DEF Node
<1>3. PICK k \in 0..heapLevel : 2 * a + 1 = n \div Pow2[k]
  BY <1>1, OnIs DEF RCHILD
<1>4. Pow2[k] \in Nat \ {0}
  BY Pow2Type
<1>5. Pow2[k] * (2 * a + 1) <= n /\ n < Pow2[k] * (2 * a + 1) + Pow2[k]
  BY <1>1, <1>3, <1>4, Quotient
<1>6. k \in 0..(heapLevel - 1)
  <2>1. n \div Pow2[heapLevel] = 0
    BY <1>1, Quotient
  <2> QED BY <1>1, <1>2, <1>3, <2>1
<1>7. Pow2[k + 1] = 2 * Pow2[k] /\ k + 1 \in 1..heapLevel
  BY <1>1, <1>6, Pow2Steps
<1>8. /\ (2 * Pow2[k]) * a <= n - 1
      /\ n - 1 < (2 * Pow2[k]) * a + 2 * Pow2[k]
  <2>1. ASSUME NEW x \in Nat PROVE x * (2 * a + 1) = (2 * x) * a + x
    BY <1>2
  <2>2. Pow2[k] * (2 * a + 1) = (2 * Pow2[k]) * a + Pow2[k] /\ (2 * Pow2[k]) * a \in Nat
    BY <1>2, <1>4, <2>1
  <2> QED BY <1>1, <1>4, <1>5, <2>2
<1>9. n - 1 \in Nat /\ (n - 1) \div Pow2[k + 1] = a
  <2>1. n - 1 \in Nat
    BY <1>1 DEF Node
  <2>2. 2 * Pow2[k] \in Nat \ {0}
    BY <1>4
  <2> QED BY <1>2, <1>7, <1>8, <2>1, <2>2, QuotientIs
<1>10. /\ level - 1 \in 0..heapLevel /\ level \in 0..heapLevel
       /\ Pow2[level - 1] \in Nat \ {0} /\ Pow2[level] \in Nat \ {0}
       /\ n \in Pow2[level - 1] .. (Pow2[level] - 1)
  BY <1>1, Pow2Type DEF NodesOf
<1>11. n # Pow2[level - 1]
  <2> SUFFICES ASSUME n = Pow2[level - 1] PROVE FALSE
    OBVIOUS
  <2>1. k <= level - 1
    <3> SUFFICES ASSUME k >= level PROVE FALSE
      BY <1>10
    <3>1. Pow2[level] <= Pow2[k]
      BY <1>10, Pow2Monotonic
    <3>2. n \div Pow2[k] = 0
      BY <1>1, <1>4, <1>10, <3>1, Quotient
    <3> QED BY <1>2, <1>3, <3>2
  <2> DEFINE j == (level - 1) - k
  <2>2. j \in 0..heapLevel /\ k + j = level - 1 /\ k + j <= heapLevel
    <3>1. k \in Nat /\ level \in Nat /\ heapLevel \in Nat /\ level <= heapLevel
      BY <1>1
    <3> QED BY <2>1, <3>1
  <2> HIDE DEF j
  <2>3. n = Pow2[k] * Pow2[j]
    BY <2>2, Pow2Product
  <2>4. Pow2[j] \in Nat \ {0}
    BY <2>2, Pow2Type
  <2>5. n \div Pow2[k] = Pow2[j]
    BY <1>1, <1>4, <2>3, <2>4, QuotientIs
  <2>6. CASE j = 0
    BY <1>2, <1>3, <2>5, <2>6, Pow2Steps
  <2>7. CASE j # 0
    <3>1. /\ j - 1 \in 0..(heapLevel - 1) /\ (j - 1) + 1 = j
          /\ j - 1 \in 0..heapLevel
      BY <1>1, <2>2, <2>7
    <3>2. Pow2[j] = 2 * Pow2[j - 1] /\ Pow2[j - 1] \in Nat
      BY <3>1, Pow2Steps, Pow2Type
    <3> QED BY <1>2, <1>3, <2>5, <3>2
  <2> QED BY <2>6, <2>7
<1>12. n - 1 \in NodesOf(level)
  BY <1>10, <1>11 DEF NodesOf
<1>13. n - 1 \in Node
  BY <1>12, LevelNodes
<1>14. a \in Above[n - 1]
  BY <1>2, <1>7, <1>9, <1>13, AboveIs
<1> QED BY <1>12, <1>14

-----------------------------------------------------------------------------
(***************************************************************************)
(* getLevel.                                                               *)
(***************************************************************************)

\* g are the numbers of halvings of 1..N.
AreHalvings(g, N) ==
    g = [p \in 1..N |-> IF p <= 1 THEN 0 ELSE 1 + g[(p \div 2) + (p % 2)]]

\* There is a function that satisfies the recursion of Halvings.
LEMMA HalvingsExist ==
    ASSUME NEW N \in Nat
    PROVE  \E g : AreHalvings(g, N)
<1> DEFINE S == { n \in Nat : \E g : AreHalvings(g, n) }
<1>1. 0 \in S
  <2> DEFINE g == [p \in 1..0 |-> 0]
  <2>1. g = [p \in 1..0 |-> IF p <= 1 THEN 0 ELSE 1 + g[(p \div 2) + (p % 2)]]
    OBVIOUS
  <2>2. AreHalvings(g, 0)
    BY <2>1 DEF AreHalvings
  <2> QED BY <2>2
<1>2. ASSUME NEW n \in Nat, n \in S PROVE n + 1 \in S
  <2>1. PICK g : g = [p \in 1..n |->
                         IF p <= 1 THEN 0 ELSE 1 + g[(p \div 2) + (p % 2)]]
    BY <1>2 DEF AreHalvings
  <2> DEFINE half(p) == (p \div 2) + (p % 2)
             h == [p \in 1..(n + 1) |->
                      IF p = n + 1 THEN IF p <= 1 THEN 0 ELSE 1 + g[half(p)]
                      ELSE g[p]]
  <2>2. ASSUME NEW p \in 1..(n + 1)
        PROVE  h[p] = IF p <= 1 THEN 0 ELSE 1 + h[half(p)]
    <3>1. p > 1 => half(p) \in 1..n /\ half(p) # n + 1
      OBVIOUS
    <3>2. p > 1 => h[half(p)] = g[half(p)]
      BY <3>1
    <3>3. CASE p = n + 1
      BY <3>2, <3>3
    <3>4. CASE p # n + 1
      <4>1. p \in 1..n
        BY <3>4
      <4>2. g[p] = IF p <= 1 THEN 0 ELSE 1 + g[half(p)]
        BY <2>1, <4>1
      <4>3. h[p] = g[p]
        BY <3>4
      <4> QED BY <3>2, <4>2, <4>3
    <3> QED BY <3>3, <3>4
  <2>3. h = [p \in 1..(n + 1) |-> h[p]]
    OBVIOUS
  <2> HIDE DEF h
  <2>4. h = [p \in 1..(n + 1) |->
                IF p <= 1 THEN 0 ELSE 1 + h[(p \div 2) + (p % 2)]]
    BY <2>2, <2>3
  <2>5. AreHalvings(h, n + 1)
    BY <2>4 DEF AreHalvings
  <2> QED BY <2>5
<1>3. N \in S
  <2> HIDE DEF S
  <2> QED BY <1>1, <1>2, SetInduction
<1> QED BY <1>3

\* What the loop of getLevel says.
LEMMA HalvingsStep ==
    ASSUME NEW pages \in 1..NUMBER_OF_PAGES
    PROVE  Halvings[pages] = IF pages <= 1 THEN 0
                             ELSE 1 + Halvings[(pages \div 2) + (pages % 2)]
<1>1. NUMBER_OF_PAGES \in Nat
  BY Sizes2
<1>2. \E g : g = [p \in 1..NUMBER_OF_PAGES |->
                     IF p <= 1 THEN 0 ELSE 1 + g[(p \div 2) + (p % 2)]]
  BY <1>1, HalvingsExist DEF AreHalvings
<1>3. Halvings = [p \in 1..NUMBER_OF_PAGES |->
                     IF p <= 1 THEN 0 ELSE 1 + Halvings[(p \div 2) + (p % 2)]]
  BY <1>2 DEF Halvings
<1> QED BY <1>3

\* Halving, rounded up, is the logarithm, rounded up.
LEMMA HalvingsIs ==
    ASSUME NEW pages \in 1..NUMBER_OF_PAGES
    PROVE  /\ Halvings[pages] \in 0..(heapLevel - 1)
           /\ pages <= Pow2[Halvings[pages]]
           /\ Pow2[Halvings[pages]] < 2 * pages
<1>1. NUMBER_OF_PAGES \in Nat /\ heapLevel \in Nat \ {0}
  BY Sizes2, BuddyAssumption
\* by induction on a power that is large enough
<1> DEFINE Good(p, k) == /\ Halvings[p] \in 0..k
                         /\ p <= Pow2[Halvings[p]]
                         /\ Pow2[Halvings[p]] < 2 * p
           S == { k \in Nat : k <= heapLevel - 1 =>
                     \A p \in 1..NUMBER_OF_PAGES : p <= Pow2[k] => Good(p, k) }
<1>2. 0 \in S
  <2>1. ASSUME NEW p \in 1..NUMBER_OF_PAGES, p <= Pow2[0] PROVE Good(p, 0)
    <3>1. p = 1
      BY <2>1, Pow2Steps
    <3>2. Halvings[1] = 0
      BY <3>1, HalvingsStep
    <3> QED BY <3>1, <3>2, Pow2Steps
  <2> QED BY <2>1
<1>3. ASSUME NEW k \in Nat, k \in S PROVE k + 1 \in S
  <2>1. SUFFICES ASSUME k + 1 <= heapLevel - 1, NEW p \in 1..NUMBER_OF_PAGES,
                        p <= Pow2[k + 1]
                 PROVE  Good(p, k + 1)
    OBVIOUS
  <2>2. k \in 0..(heapLevel - 1) /\ k <= heapLevel - 1 /\ k \in 0..heapLevel
    BY <1>1, <2>1
  <2>3. Pow2[k + 1] = 2 * Pow2[k] /\ Pow2[k] \in Nat
    BY <2>2, Pow2Steps, Pow2Type
  <2>4. CASE p <= 1
    <3>1. p = 1 /\ Halvings[1] = 0
      BY <2>4, HalvingsStep
    <3> QED BY <3>1, Pow2Steps
  <2>5. CASE p > 1
    <3> DEFINE q == (p \div 2) + (p % 2)
    <3>1. q \in 1..NUMBER_OF_PAGES /\ q <= Pow2[k] /\ p <= 2 * q /\ 2 * q <= p + 1
      BY <1>1, <2>1, <2>3, <2>5
    <3>2. Halvings[p] = 1 + Halvings[q]
      BY <2>5, HalvingsStep
    <3> HIDE DEF q
    <3>3. Good(q, k)
      BY <1>3, <2>2, <3>1
    <3>4. Halvings[q] \in 0..(heapLevel - 1) /\ Halvings[q] \in 0..heapLevel
      BY <1>1, <2>2, <3>3
    <3>5. Pow2[Halvings[q] + 1] = 2 * Pow2[Halvings[q]] /\ Pow2[Halvings[q]] \in Nat
      BY <3>4, Pow2Steps, Pow2Type
    <3>6. Halvings[p] \in 0..(k + 1) /\ Pow2[Halvings[p]] = 2 * Pow2[Halvings[q]]
      BY <2>2, <3>2, <3>3, <3>4, <3>5
    <3>7. p <= Pow2[Halvings[p]]
      BY <3>1, <3>3, <3>5, <3>6
    \* either 2 q = p or p is odd, and a power that is odd is 1
    <3>8. Pow2[Halvings[q]] < p
      <4>1. Pow2[Halvings[q]] <= p
        BY <3>1, <3>3, <3>5
      <4>2. CASE Halvings[q] = 0
        BY <2>5, <4>2, Pow2Steps
      <4>3. CASE Halvings[q] # 0
        <5> DEFINE m == Halvings[q] - 1
        <5>1. m \in 0..(heapLevel - 1) /\ m \in 0..heapLevel /\ m + 1 = Halvings[q]
          BY <1>1, <3>4, <4>3
        <5> HIDE DEF m
        <5>2. Pow2[Halvings[q]] = 2 * Pow2[m] /\ Pow2[m] \in Nat
          BY <5>1, Pow2Steps, Pow2Type
        <5>3. 2 * q = p \/ p % 2 = 1
          BY DEF q
        <5>4. ASSUME NEW x \in Nat, NEW y \in Nat, y % 2 = 1 PROVE 2 * x # y
          BY <5>4
        <5> QED BY <3>1, <3>3, <4>1, <5>2, <5>3, <5>4
      <4> QED BY <4>2, <4>3
    <3>9. Pow2[Halvings[p]] < 2 * p
      BY <3>5, <3>6, <3>8
    <3> QED BY <3>6, <3>7, <3>9
  <2> QED BY <2>4, <2>5
<1>4. heapLevel - 1 \in S
  <2> HIDE DEF S
  <2>1. heapLevel - 1 \in Nat
    BY <1>1
  <2> QED BY <1>2, <1>3, <2>1, SetInduction
<1>5. pages <= Pow2[heapLevel - 1]
  BY DEF NUMBER_OF_PAGES
<1> QED BY <1>1, <1>4, <1>5

-----------------------------------------------------------------------------
(***************************************************************************)
(* The pages of a node are a run of as many as its level has.              *)
(***************************************************************************)

\* Order and products.
LEMMA LessByFactor ==
    ASSUME NEW m \in Nat \ {0}, NEW a \in Nat, NEW b \in Nat
    PROVE  /\ m * a < m * b => a < b
           /\ a <= b => m * a <= m * b
           /\ m * (a + 1) = m * a + m
           /\ m * a \in Nat
OBVIOUS

\* A node is on one level.
LEMMA LevelsDisjoint ==
    ASSUME NEW i \in 1..heapLevel, NEW j \in 1..heapLevel,
           NEW n \in NodesOf(i), n \in NodesOf(j)
    PROVE  i = j
<1>1. ASSUME NEW k \in 1..heapLevel, NEW l \in 1..heapLevel, k < l,
             n \in NodesOf(k), n \in NodesOf(l)
      PROVE  FALSE
  <2>1. k \in 0..heapLevel /\ l - 1 \in 0..heapLevel /\ k <= l - 1
    BY <1>1, BuddyAssumption
  <2>2. Pow2[k] <= Pow2[l - 1]
    BY <2>1, Pow2Monotonic
  <2>3. Pow2[k] \in Nat /\ Pow2[l - 1] \in Nat
    BY <2>1, Pow2Type
  <2>4. Pow2[l - 1] <= n /\ n < Pow2[k] /\ n \in Int
    <3>1. k - 1 \in 0..heapLevel /\ l \in 0..heapLevel
      BY BuddyAssumption
    <3> QED BY <1>1, <2>3, <3>1, Pow2Type DEF NodesOf
  <2> QED BY <2>2, <2>3, <2>4
<1>2. i < j \/ j < i \/ i = j
  OBVIOUS
<1> QED BY <1>1, <1>2

\* The node k levels above a leaf.
LEMMA LevelOfQuotient ==
    ASSUME NEW x \in NodesOf(heapLevel), NEW k \in 0..(heapLevel - 1)
    PROVE  x \div Pow2[k] \in NodesOf(heapLevel - k)
<1>1. heapLevel \in Nat \ {0}
  BY BuddyAssumption
<1> DEFINE i == heapLevel - k
           q == x \div Pow2[k]
<1>2. /\ i \in 0..heapLevel /\ i - 1 \in 0..heapLevel /\ k \in 0..heapLevel
      /\ k + i = heapLevel /\ k + (i - 1) = heapLevel - 1
      /\ k + i <= heapLevel /\ k + (i - 1) <= heapLevel
      /\ heapLevel \in 0..heapLevel /\ heapLevel - 1 \in 0..heapLevel
  BY <1>1
<1> HIDE DEF i
<1>3. /\ Pow2[heapLevel] = Pow2[k] * Pow2[i]
      /\ Pow2[heapLevel - 1] = Pow2[k] * Pow2[i - 1]
  BY <1>2, Pow2Product
<1>4. /\ Pow2[k] \in Nat \ {0} /\ Pow2[i] \in Nat /\ Pow2[i - 1] \in Nat
      /\ Pow2[heapLevel] \in Nat /\ Pow2[heapLevel - 1] \in Nat
  BY <1>2, Pow2Type
<1>5. /\ x \in Nat /\ Pow2[k] * Pow2[i - 1] <= x /\ x < Pow2[k] * Pow2[i]
  BY <1>3, <1>4 DEF NodesOf
<1>6. q \in Nat /\ Pow2[k] * q <= x /\ x < Pow2[k] * q + Pow2[k]
  BY <1>4, <1>5, Quotient
<1> HIDE DEF q
<1>7. Pow2[k] * q + Pow2[k] = Pow2[k] * (q + 1) /\ Pow2[k] * q \in Nat
  BY <1>4, <1>6, LessByFactor
<1>8. Pow2[k] * q < Pow2[k] * Pow2[i]
  BY <1>4, <1>5, <1>6, <1>7, LessByFactor
<1>9. Pow2[k] * Pow2[i - 1] < Pow2[k] * (q + 1)
  BY <1>4, <1>5, <1>6, <1>7, LessByFactor
<1>10. q < Pow2[i] /\ Pow2[i - 1] < q + 1
  BY <1>4, <1>6, <1>8, <1>9, LessByFactor
<1> QED BY <1>4, <1>6, <1>10 DEF NodesOf, i, q

\* The last level has one node for each page.
LEMMA LeafLevel ==
    ASSUME NEW x
    PROVE  x \in NodesOf(heapLevel) <=> x \in Int /\ x - NUMBER_OF_PAGES \in Page
<1>1. NodesOf(heapLevel) = NUMBER_OF_PAGES .. (2 * NUMBER_OF_PAGES - 1)
  BY Sizes2 DEF NodesOf, NUMBER_OF_PAGES
<1> QED BY <1>1, Sizes2 DEF Page

\* The leaves below a node are those that its level's quotient leads to.
LEMMA LeafBelow ==
    ASSUME NEW level \in 1..heapLevel, NEW n \in NodesOf(level),
           NEW x \in NodesOf(heapLevel)
    PROVE  On(n, x) <=> x \div Pow2[heapLevel - level] = n
<1>1. heapLevel \in Nat \ {0} /\ heapLevel \in 1..heapLevel
  BY BuddyAssumption
<1>2. x \in Node /\ n \in Node
  BY <1>1, LevelNodes
<1>3. n # 0 /\ x \in Nat
  BY <1>2, Sizes2 DEF Node
<1>4. ASSUME x \div Pow2[heapLevel - level] = n PROVE On(n, x)
  <2>1. heapLevel - level \in 0..heapLevel
    BY <1>1
  <2> QED BY <1>2, <1>3, <1>4, <2>1, OnIs
<1>5. ASSUME On(n, x) PROVE x \div Pow2[heapLevel - level] = n
  <2>1. PICK k \in 0..heapLevel : n = x \div Pow2[k]
    BY <1>2, <1>5, OnIs
  <2>2. k # heapLevel
    <3>1. x < Pow2[heapLevel] /\ Pow2[heapLevel] \in Nat \ {0}
      BY <1>2, <1>1, Sizes2, Pow2Type DEF Node
    <3>2. x \div Pow2[heapLevel] = 0
      BY <1>3, <3>1, Quotient
    <3> QED BY <1>3, <2>1, <3>2
  <2>3. k \in 0..(heapLevel - 1) /\ heapLevel - k \in 1..heapLevel
    BY <1>1, <2>2
  <2>4. n \in NodesOf(heapLevel - k)
    BY <2>1, <2>3, LevelOfQuotient
  <2>5. level = heapLevel - k
    BY <2>3, <2>4, LevelsDisjoint
  <2>6. heapLevel - level = k
    BY <1>1, <2>3, <2>5
  <2> QED BY <2>1, <2>6
<1> QED BY <1>4, <1>5

\* The pages of a node are consecutive, as many as its level says.
LEMMA BlockOf ==
    ASSUME NEW level \in 1..heapLevel, NEW n \in NodesOf(level)
    PROVE  /\ FirstPage(n) \in Nat
           /\ PagesOf[n] = FirstPage(n) .. (FirstPage(n) + Pow2[heapLevel - level] - 1)
<1>1. heapLevel \in Nat \ {0} /\ heapLevel \in 1..heapLevel
  BY BuddyAssumption
<1> DEFINE d == heapLevel - level
           m == Pow2[d]
           N == NUMBER_OF_PAGES
           b == m * n - N
<1>2. /\ d \in 0..heapLevel /\ level \in 0..heapLevel /\ level - 1 \in 0..heapLevel
      /\ d + level = heapLevel /\ d + (level - 1) = heapLevel - 1
      /\ d + level <= heapLevel /\ d + (level - 1) <= heapLevel
  BY <1>1
<1>3. Pow2[heapLevel] = m * Pow2[level] /\ N = m * Pow2[level - 1]
  BY <1>2, Pow2Product DEF NUMBER_OF_PAGES
<1>4. m \in Nat \ {0} /\ Pow2[level] \in Nat /\ Pow2[level - 1] \in Nat
  BY <1>2, Pow2Type
<1>5. n \in Node /\ n \in Nat /\ Pow2[level - 1] <= n /\ n + 1 <= Pow2[level]
  BY <1>4, LevelNodes DEF NodesOf
<1>6. N \in Nat \ {0} /\ Pow2[heapLevel] = 2 * N
  BY Sizes2
<1>7. /\ m * n \in Nat /\ m * n + m = m * (n + 1)
      /\ m * Pow2[level - 1] <= m * n /\ m * (n + 1) <= m * Pow2[level]
  <2> HIDE DEF m
  <2>1. m * n \in Nat /\ m * n + m = m * (n + 1)
    BY <1>4, <1>5, LessByFactor
  <2>2. m * Pow2[level - 1] <= m * n
    BY <1>4, <1>5, LessByFactor
  <2>3. m * (n + 1) <= m * Pow2[level]
    <3>1. n + 1 \in Nat
      BY <1>5
    <3> QED BY <1>4, <1>5, <3>1, LessByFactor
  <2> QED BY <2>1, <2>2, <2>3
<1>8. b \in Nat /\ N <= m * n /\ m * n + m <= 2 * N
  BY <1>3, <1>6, <1>7
<1>9. ASSUME NEW page
      PROVE  page \in PagesOf[n] <=> page \in b..(b + m - 1)
  <2>1. page \in PagesOf[n] <=> page \in Page /\ On(n, Leaf(page))
    <3>1. page \in Page => Leaf(page) \in Node
      BY Sizes2
    <3> QED BY <1>5, <3>1 DEF PagesOf, Subtree, On
  <2>2. ASSUME page \in Page
        PROVE  On(n, Leaf(page)) <=> Leaf(page) \div m = n
    <3>1. Leaf(page) \in NodesOf(heapLevel)
      BY <1>6, <2>2, LeafLevel DEF Leaf, Page
    <3> QED BY <3>1, LeafBelow
  <2>3. ASSUME page \in Page
        PROVE  Leaf(page) \div m = n <=> page \in b..(b + m - 1)
    <3>1. Leaf(page) \in Nat /\ Leaf(page) = page + N /\ page \in Nat
      BY <1>6, <2>3 DEF Leaf, Page
    <3>2. ASSUME Leaf(page) \div m = n PROVE page \in b..(b + m - 1)
      <4>1. m * n <= Leaf(page) /\ Leaf(page) < m * n + m
        BY <1>4, <3>1, <3>2, Quotient
      <4> QED BY <1>4, <1>6, <1>7, <1>8, <3>1, <4>1
    <3>3. ASSUME page \in b..(b + m - 1) PROVE Leaf(page) \div m = n
      <4>1. m * n <= Leaf(page) /\ Leaf(page) < m * n + m
        BY <1>4, <1>6, <1>7, <1>8, <3>1, <3>3
      <4> QED BY <1>4, <1>5, <3>1, <4>1, QuotientIs
    <3> QED BY <3>2, <3>3
  <2>4. page \in b..(b + m - 1) => page \in Page
    BY <1>4, <1>6, <1>7, <1>8 DEF Page
  <2> QED BY <2>1, <2>2, <2>3, <2>4
<1>10. PagesOf[n] = b..(b + m - 1)
  BY <1>9
<1> HIDE DEF b, m
<1>11. FirstPage(n) = b
  <2>1. b \in PagesOf[n] /\ \A o \in PagesOf[n] : b <= o
    BY <1>4, <1>8, <1>10
  <2>2. ASSUME NEW c \in PagesOf[n], \A o \in PagesOf[n] : c <= o PROVE c = b
    <3>1. c <= b /\ b <= c /\ c \in Int /\ b \in Int
      BY <1>4, <1>8, <1>10, <2>1, <2>2
    <3> QED BY <3>1
  <2> QED BY <2>1, <2>2 DEF FirstPage
<1> QED BY <1>8, <1>10, <1>11 DEF m, d

-----------------------------------------------------------------------------
(***************************************************************************)
(* allocPage.                                                              *)
(***************************************************************************)

\* First returns the least element.
LEMMA FirstIs ==
    ASSUME NEW S \in SUBSET Nat, S # {}
    PROVE  First(S) \in S /\ \A o \in S : First(S) <= o
<1>1. \E n \in S : \A o \in S : n <= o
  BY LeastNumber
<1> QED BY <1>1 DEF First

\* What is above a node has a smaller index.
LEMMA AboveSmaller ==
    ASSUME NEW n \in Node, NEW a \in Above[n]
    PROVE  a < n
<1>1. n \in Nat /\ a \in Nat \ {0} /\ heapLevel \in Nat
  BY AboveIs, Sizes2, Pow2Type, BuddyAssumption DEF Node
<1>2. PICK k \in 1..heapLevel : a = n \div Pow2[k]
  BY AboveIs
<1>3. k \in 0..heapLevel /\ 1 \in 0..heapLevel /\ 1 <= k /\ 0 \in 0..(heapLevel - 1)
  BY <1>1
<1>4. Pow2[1] <= Pow2[k] /\ Pow2[k] \in Nat \ {0}
  BY <1>3, Pow2Monotonic, Pow2Type
<1>5. Pow2[1] = 2
  BY <1>3, Pow2Steps
<1>6. Pow2[k] * a <= n
  BY <1>1, <1>2, <1>4, Quotient
<1>7. ASSUME NEW m \in Nat, m >= 2 PROVE m * a >= 2 * a
  BY <1>1, <1>7
<1> QED BY <1>1, <1>4, <1>5, <1>6, <1>7

\* A node that allocPage returns is the first that can be taken.
LEMMA AllocFound ==
    ASSUME NEW occ, NEW pages, allocPage(occ, pages).node # NULL
    PROVE  LET n == allocPage(occ, pages).node IN
           /\ pages \in 1..NUMBER_OF_PAGES
           /\ getLevel(pages) \in 1..heapLevel
           /\ n \in Takeable(occ, getLevel(pages))
           /\ \A o \in Takeable(occ, getLevel(pages)) : n <= o
           /\ allocPage(occ, pages).occ = MarksAfterAlloc(occ, n)
<1> DEFINE T == Takeable(occ, getLevel(pages))
<1>1. pages \in 1..NUMBER_OF_PAGES /\ T # {}
  BY DEF allocPage
<1>2. allocPage(occ, pages) = [node |-> First(T), occ |-> MarksAfterAlloc(occ, First(T))]
  BY <1>1 DEF allocPage
<1>3. getLevel(pages) \in 1..heapLevel
  BY <1>1, HalvingsIs, BuddyAssumption DEF getLevel
<1>4. T \subseteq NodesOf(getLevel(pages))
  BY DEF Takeable
<1>5. T \subseteq Nat
  BY <1>3, <1>4, LevelNodes, Sizes2 DEF Node
<1> HIDE DEF T
<1>6. First(T) \in T /\ \A o \in T : First(T) <= o
  BY <1>1, <1>5, FirstIs
<1> QED BY <1>1, <1>2, <1>3, <1>6 DEF T

\* The pages of the block that is handed out are enough and not twice as many.
LEMMA AllocSize ==
    ASSUME NEW occ, NEW pages, allocPage(occ, pages).node # NULL
    PROVE  LET n == allocPage(occ, pages).node IN
           /\ n \in Node
           /\ FirstPage(n) \in Nat
           /\ \E size \in Nat \ {0} :
                 /\ pages <= size /\ size < 2 * pages
                 /\ PagesOf[n] = FirstPage(n) .. (FirstPage(n) + size - 1)
<1> DEFINE n == allocPage(occ, pages).node
           level == getLevel(pages)
<1>1. pages \in 1..NUMBER_OF_PAGES /\ level \in 1..heapLevel /\ n \in Takeable(occ, level)
  BY AllocFound
<1>2. n \in NodesOf(level)
  BY <1>1 DEF Takeable
<1>3. n \in Node
  BY <1>1, <1>2, LevelNodes
<1>4. heapLevel - level = Halvings[pages]
  BY <1>1, HalvingsIs, BuddyAssumption DEF getLevel
<1> HIDE DEF n, level
<1>5. /\ FirstPage(n) \in Nat
      /\ PagesOf[n] = FirstPage(n) .. (FirstPage(n) + Pow2[Halvings[pages]] - 1)
  BY <1>1, <1>2, <1>4, BlockOf
<1>6. /\ pages <= Pow2[Halvings[pages]] /\ Pow2[Halvings[pages]] < 2 * pages
      /\ Pow2[Halvings[pages]] \in Nat \ {0}
  <2>1. Halvings[pages] \in 0..heapLevel
    BY <1>1, HalvingsIs, BuddyAssumption
  <2> QED BY <1>1, <2>1, HalvingsIs, Pow2Type
<1> QED BY <1>3, <1>5, <1>6 DEF n

\* getLevel rounds as it should, whatever the marks are: a block that would be
\* handed out has room for the pages asked for and is less than twice as large.
THEOREM BlocksFit == Spec => []BlockFits
<1>1. BlockFits
  <2> SUFFICES ASSUME NEW pages \in 1..NUMBER_OF_PAGES,
                      allocPage(occupied, pages).node # NULL
               PROVE  LET node == allocPage(occupied, pages).node
                      IN  /\ pages <= Cardinality(PagesOf[node])
                          /\ Cardinality(PagesOf[node]) < 2 * pages
    BY DEF BlockFits
  <2> DEFINE n == allocPage(occupied, pages).node
             b == FirstPage(n)
  <2>1. PICK size \in Nat \ {0} :
            /\ pages <= size /\ size < 2 * pages
            /\ PagesOf[n] = b .. (b + size - 1)
    BY AllocSize
  <2>2. b \in Nat
    BY AllocSize
  <2> HIDE DEF n, b
  <2>3. Cardinality(b .. (b + size - 1)) = size
    <3>1. Cardinality(b .. (b + size - 1)) =
              IF b > b + size - 1 THEN 0 ELSE (b + size - 1) - b + 1
      BY <2>2, FS_Interval
    <3> QED BY <2>2, <3>1
  <2> QED BY <2>1, <2>3 DEF n
<1> QED BY <1>1, PTL

(***************************************************************************)
(* The marks.  A node that is not EMPTY has none above it that is.         *)
(***************************************************************************)
MarksSound(occ) ==
    /\ occ \in [Node -> Mark]
    /\ \A n \in Node : occ[n] # "EMPTY" => \A a \in Above[n] : occ[a] # "EMPTY"

\* The mark of each node after an allocation.
LEMMA MarksAfterAllocAt ==
    ASSUME NEW occ, NEW n \in Node, NEW o \in Node
    PROVE  MarksAfterAlloc(occ, n)[o] =
              IF o = n THEN "BUDDY_FULL"
              ELSE IF o \in Above[n] THEN Marked(occ, n, o) ELSE occ[o]
<1>1. n \notin Above[n]
  BY AboveSmaller, Sizes2 DEF Node
<1>2. MarksAfterAlloc(occ, n)[o] = CASE o = n -> "BUDDY_FULL"
                                     [] o \in Above[n] -> Marked(occ, n, o)
                                     [] OTHER -> occ[o]
  BY DEF MarksAfterAlloc
<1> QED BY <1>1, <1>2, Zenon

\* An allocation leaves marks.
LEMMA MarksAfterAllocType ==
    ASSUME NEW occ \in [Node -> Mark], NEW n \in Node
    PROVE  MarksAfterAlloc(occ, n) \in [Node -> Mark]
<1>1. \A o \in Node : MarksAfterAlloc(occ, n)[o] \in Mark
  BY MarksAfterAllocAt DEF Marked, Mark
<1> DEFINE mark(o) == CASE o = n -> "BUDDY_FULL"
                        [] o \in Above[n] -> Marked(occ, n, o)
                        [] OTHER -> occ[o]
<1>2. MarksAfterAlloc(occ, n) = [o \in Node |-> mark(o)]
  BY Zenon DEF MarksAfterAlloc
<1> HIDE DEF mark
<1> QED BY <1>1, <1>2

\* The nodes above the block end up not EMPTY: one that is EMPTY, with the way
\* to the right, would have had a block farther left.
LEMMA MarkedAbove ==
    ASSUME NEW occ, MarksSound(occ), NEW level \in 1..heapLevel,
           NEW n \in Takeable(occ, level), \A o \in Takeable(occ, level) : n <= o,
           NEW a \in Above[n]
    PROVE  Marked(occ, n, a) # "EMPTY"
<1>1. n \in NodesOf(level) /\ n \in Node /\ n \in Nat
  BY LevelNodes, Sizes2 DEF Takeable, Node
<1>2. a \in Node
  BY <1>1, AboveIs
<1>3. CASE Towards(a, n) = LCHILD(a)
  BY <1>3 DEF Marked
<1>4. CASE Towards(a, n) # LCHILD(a)
  <2>1. On(RCHILD(a), n)
    BY <1>1, <1>4, TowardsIs
  <2>2. n - 1 \in NodesOf(level) /\ a \in Above[n - 1]
    BY <1>1, <2>1, LeftNeighbour
  <2>3. n - 1 \in Node
    BY <2>2, LevelNodes
  <2>4. occ[a] # "EMPTY"
    <3> SUFFICES ASSUME occ[a] = "EMPTY" PROVE FALSE
      OBVIOUS
    <3>1. occ[n - 1] = "EMPTY"
      BY <2>2, <2>3 DEF MarksSound
    <3>2. ASSUME NEW c \in Above[n - 1] PROVE occ[c] # "BUDDY_FULL"
      <4>1. c \in Node /\ On(c, n - 1) /\ On(a, n - 1)
        BY <2>2, <2>3, AboveIs DEF On
      <4>2. c = a \/ c \in Above[a] \/ a \in Above[c]
        BY <2>3, <4>1, PathOrdered
      <4>3. CASE c = a
        BY <4>3
      <4>4. CASE c \in Above[a]
        BY <1>1, <4>4, AboveTransitive DEF Takeable
      <4>5. CASE a \in Above[c]
        BY <4>1, <4>5 DEF MarksSound
      <4> QED BY <4>2, <4>3, <4>4, <4>5
    <3>3. n - 1 \in Takeable(occ, level)
      BY <2>2, <3>1, <3>2 DEF Takeable
    <3> QED BY <1>1, <3>3
  <2> QED BY <1>4, <2>4 DEF Marked
<1> QED BY <1>3, <1>4

\* H are nodes that have been handed out.
Holds(occ, H) ==
    /\ MarksSound(occ)
    /\ H \subseteq Node
    /\ \A h \in H : occ[h] = "BUDDY_FULL"

\* What allocPage hands out has no page in common with what it handed out
\* before, and the marks remember both.
LEMMA AllocHolds ==
    ASSUME NEW occ, NEW H, Holds(occ, H), NEW pages,
           allocPage(occ, pages).node # NULL
    PROVE  LET n == allocPage(occ, pages).node IN
           /\ n \in Node
           /\ Holds(allocPage(occ, pages).occ, H \cup {n})
           /\ \A h \in H : PagesOf[h] \cap PagesOf[n] = {}
<1> DEFINE n == allocPage(occ, pages).node
           new == allocPage(occ, pages).occ
           level == getLevel(pages)
<1>1. /\ level \in 1..heapLevel /\ n \in Takeable(occ, level)
      /\ \A o \in Takeable(occ, level) : n <= o
      /\ new = MarksAfterAlloc(occ, n)
  BY AllocFound
<1> HIDE DEF n, new, level
<1>2. n \in NodesOf(level) /\ occ[n] = "EMPTY" /\ \A a \in Above[n] : occ[a] # "BUDDY_FULL"
  BY <1>1 DEF Takeable
<1>3. n \in Node
  BY <1>1, <1>2, LevelNodes
<1>4. ASSUME NEW o \in Node
      PROVE  new[o] = IF o = n THEN "BUDDY_FULL"
                      ELSE IF o \in Above[n] THEN Marked(occ, n, o) ELSE occ[o]
  BY <1>1, <1>3, MarksAfterAllocAt
<1>5. \A a \in Above[n] : Marked(occ, n, a) # "EMPTY"
  BY <1>1, MarkedAbove DEF Holds
<1>6. \A o \in Node : occ[o] # "EMPTY" => new[o] # "EMPTY"
  BY <1>4, <1>5
<1>7. \A a \in Above[n] : new[a] # "EMPTY"
  BY <1>3, <1>4, <1>5, AboveIs
<1>8. ASSUME NEW o \in Node, new[o] # "EMPTY", NEW a \in Above[o]
      PROVE  new[a] # "EMPTY"
  <2>1. a \in Node
    BY AboveIs
  <2>2. CASE o = n
    BY <1>7, <2>2
  <2>3. CASE o \in Above[n]
    BY <1>3, <1>7, <2>3, AboveTransitive
  <2>4. CASE o # n /\ o \notin Above[n]
    BY <1>4, <1>6, <1>8, <2>1, <2>4 DEF Holds, MarksSound
  <2> QED BY <2>2, <2>3, <2>4
<1>9. MarksSound(new)
  BY <1>1, <1>3, <1>8, MarksAfterAllocType DEF MarksSound, Holds
<1>10. ASSUME NEW h \in H
       PROVE  new[h] = "BUDDY_FULL" /\ PagesOf[h] \cap PagesOf[n] = {}
  <2>1. h \in Node /\ occ[h] = "BUDDY_FULL"
    BY DEF Holds
  <2>2. h # n /\ h \notin Above[n]
    BY <1>2, <2>1
  <2>3. n \notin Above[h]
    BY <1>2, <2>1 DEF Holds, MarksSound
  <2> QED BY <1>3, <1>4, <2>1, <2>2, <2>3, PagesShared
<1>11. new[n] = "BUDDY_FULL"
  BY <1>3, <1>4
<1>12. Holds(new, H \cup {n})
  BY <1>3, <1>9, <1>10, <1>11 DEF Holds
<1> QED BY <1>3, <1>10, <1>12 DEF n, new

-----------------------------------------------------------------------------
(***************************************************************************)
(* Type correctness.                                                       *)
(***************************************************************************)
Thread == [t : Node, user : Node, kernel : Node]
Block == [base : Nat, size : Nat, free : BOOLEAN, asked : Nat]
\* A run of pages is in the block of its node.
Run == { r \in [node : Node, pages : Nat \ {0}] :
            /\ FirstPage(r.node) \in Nat
            /\ FirstPage(r.node) .. (FirstPage(r.node) + r.pages - 1)
                 \subseteq PagesOf[r.node] }
Process == [alive : BOOLEAN, info : Node, slot : Node,
            threads : [Spot -> Thread \cup {NoThread}],
            heap : Seq(Block), runs : Seq(Run)]

MemoryTypes ==
    /\ occupied \in [Node -> Mark]
    /\ processes \in Seq(Process)
    /\ status \in {"ok", "noMemory"}

\* allocPage leaves marks and returns a node or NULL.
LEMMA AllocType ==
    ASSUME NEW occ \in [Node -> Mark], NEW pages
    PROVE  /\ allocPage(occ, pages).occ \in [Node -> Mark]
           /\ allocPage(occ, pages).node # NULL => allocPage(occ, pages).node \in Node
<1>1. CASE allocPage(occ, pages).node # NULL
  <2>1. allocPage(occ, pages).node \in Node
    BY <1>1, AllocSize
  <2>2. allocPage(occ, pages).occ = MarksAfterAlloc(occ, allocPage(occ, pages).node)
    BY <1>1, AllocFound
  <2> QED BY <2>1, <2>2, MarksAfterAllocType
<1>2. CASE allocPage(occ, pages).node = NULL
  <2> DEFINE S == IF pages \in 1..NUMBER_OF_PAGES
                  THEN Takeable(occ, getLevel(pages)) ELSE {}
  <2>1. CASE S = {}
    BY <1>2, <2>1 DEF allocPage
  <2>2. CASE S # {}
    <3>1. pages \in 1..NUMBER_OF_PAGES /\ getLevel(pages) \in 1..heapLevel
      BY <2>2, HalvingsIs, BuddyAssumption DEF getLevel
    <3>2. S \subseteq Node
      BY <3>1, LevelNodes DEF Takeable
    <3>3. S \subseteq Nat /\ 0 \notin S
      BY <3>2, Sizes2 DEF Node
    <3>4. allocPage(occ, pages).node = First(S)
      BY <2>2 DEF allocPage
    <3> HIDE DEF S
    <3>5. First(S) \in S
      BY <2>2, <3>3, FirstIs
    <3> QED BY <1>2, <3>3, <3>4, <3>5 DEF NULL
  <2> QED BY <2>1, <2>2
<1> QED BY <1>1, <1>2

\* deallocPage writes marks, whatever the page.
LEMMA DeallocType ==
    ASSUME NEW occ \in [Node -> Mark], NEW page
    PROVE  deallocPage(occ, page) \in [Node -> Mark]
<1> DEFINE leaf == Leaf(IF page = NUMBER_OF_PAGES THEN 0 ELSE page)
           mark(o) == CASE o = leaf -> "EMPTY"
                        [] o \in Above[leaf] -> Freed(occ, leaf, o)
                        [] OTHER -> occ[o]
<1> HIDE DEF leaf
<1>1. \A o \in Node : Freed(occ, leaf, o) \in Mark
  BY DEF Freed, Mark
<1>2. \A o \in Node : mark(o) \in {"EMPTY", Freed(occ, leaf, o), occ[o]}
  BY Zenon
<1>3. deallocPage(occ, page) = [o \in Node |-> mark(o)]
  BY Zenon DEF deallocPage, MarksAfterDealloc, leaf
<1> HIDE DEF mark
<1>4. \A o \in Node : mark(o) \in Mark
  BY <1>1, <1>2 DEF Mark
<1> QED BY <1>3, <1>4

\* What several allocPage in a row return.
LEMMA ThenIs ==
    ASSUME NEW occ, NEW nodes, NEW pages
    PROVE  Then([occ |-> occ, nodes |-> nodes], pages)
             = [occ |-> allocPage(occ, pages).occ,
                nodes |-> Append(nodes, allocPage(occ, pages).node)]
BY DEF Then

\* The allocations of a thread, and of a process, one by one.
After1(occ) == allocPage(occ, 1)
After2(occ) == allocPage(After1(occ).occ, 2)
After3(occ) == allocPage(After2(occ).occ, 2)
ProcessPages == After1(After3(After1(occupied).occ).occ)

\* The three allocations of createThread one after the other.
LEMMA ThreadPagesIs ==
    ASSUME NEW occ, NEW nodes
    PROVE  ThreadPages([occ |-> occ, nodes |-> nodes])
             = [occ |-> After3(occ).occ,
                nodes |-> Append(Append(Append(nodes, After1(occ).node),
                                        After2(occ).node), After3(occ).node)]
<1>1. Then([occ |-> occ, nodes |-> nodes], 1)
        = [occ |-> After1(occ).occ, nodes |-> Append(nodes, After1(occ).node)]
  BY ThenIs DEF After1
<1>2. \A s : Then([occ |-> After1(occ).occ, nodes |-> s], 2)
        = [occ |-> After2(occ).occ, nodes |-> Append(s, After2(occ).node)]
  BY ThenIs DEF After2
<1>3. \A s : Then([occ |-> After2(occ).occ, nodes |-> s], 2)
        = [occ |-> After3(occ).occ, nodes |-> Append(s, After3(occ).node)]
  BY ThenIs DEF After3
<1> QED BY <1>1, <1>2, <1>3 DEF ThreadPages

\* Sequences that are built element by element.
LEMMA Appended ==
    ASSUME NEW a, NEW b, NEW c, NEW d, NEW e
    PROVE  /\ Append(<<>>, a) = <<a>>
           /\ Append(<<a>>, b) = <<a, b>>
           /\ Append(<<a, b>>, c) = <<a, b, c>>
           /\ Append(<<a, b, c>>, d) = <<a, b, c, d>>
           /\ Append(<<a, b, c, d>>, e) = <<a, b, c, d, e>>
<1> DEFINE S == {a, b, c, d, e}
<1>1. ASSUME NEW s \in Seq(S), NEW x \in S, NEW t \in Seq(S),
             Len(t) = Len(s) + 1, t[Len(s) + 1] = x,
             \A i \in 1..Len(s) : t[i] = s[i]
      PROVE  Append(s, x) = t
  BY <1>1, SeqEqual, AppendProperties
<1>2. /\ a \in S /\ b \in S /\ c \in S /\ d \in S /\ e \in S
      /\ <<>> \in Seq(S) /\ <<a>> \in Seq(S) /\ <<a, b>> \in Seq(S)
      /\ <<a, b, c>> \in Seq(S) /\ <<a, b, c, d>> \in Seq(S)
      /\ <<a, b, c, d, e>> \in Seq(S)
  OBVIOUS
<1> HIDE DEF S
<1>3. Append(<<>>, a) = <<a>>
  BY <1>1, <1>2
<1>4. Append(<<a>>, b) = <<a, b>>
  <2>1. ASSUME NEW s, NEW t, s = <<a>>, t = <<a, b>> PROVE Append(s, b) = t
    <3>1. /\ s \in Seq(S) /\ t \in Seq(S) /\ Len(s) = 1 /\ Len(t) = 2
          /\ t[1] = s[1] /\ t[2] = b
      BY <1>2, <2>1
    <3>2. Len(t) = Len(s) + 1 /\ t[Len(s) + 1] = b /\ b \in S
      BY <1>2, <3>1
    <3>3. \A i \in 1..Len(s) : t[i] = s[i]
      BY <3>1
    <3> QED BY <1>1, <3>1, <3>2, <3>3
  <2> QED BY <2>1
<1>5. Append(<<a, b>>, c) = <<a, b, c>>
  <2>1. ASSUME NEW s, NEW t, s = <<a, b>>, t = <<a, b, c>> PROVE Append(s, c) = t
    <3>1. /\ s \in Seq(S) /\ t \in Seq(S) /\ Len(s) = 2 /\ Len(t) = 3
          /\ t[1] = s[1] /\ t[2] = s[2] /\ t[3] = c
      BY <1>2, <2>1
    <3>2. Len(t) = Len(s) + 1 /\ t[Len(s) + 1] = c /\ c \in S
      BY <1>2, <3>1
    <3>3. \A i \in 1..Len(s) : t[i] = s[i]
      BY <3>1
    <3> QED BY <1>1, <3>1, <3>2, <3>3
  <2> QED BY <2>1
<1>6. Append(<<a, b, c>>, d) = <<a, b, c, d>>
  <2>1. ASSUME NEW s, NEW t, s = <<a, b, c>>, t = <<a, b, c, d>> PROVE Append(s, d) = t
    <3>1. /\ s \in Seq(S) /\ t \in Seq(S) /\ Len(s) = 3 /\ Len(t) = 4
          /\ t[1] = s[1] /\ t[2] = s[2] /\ t[3] = s[3] /\ t[4] = d
      BY <1>2, <2>1
    <3>2. Len(t) = Len(s) + 1 /\ t[Len(s) + 1] = d /\ d \in S
      BY <1>2, <3>1
    <3>3. \A i \in 1..Len(s) : t[i] = s[i]
      BY <3>1
    <3> QED BY <1>1, <3>1, <3>2, <3>3
  <2> QED BY <2>1
<1>7. Append(<<a, b, c, d>>, e) = <<a, b, c, d, e>>
  <2>1. ASSUME NEW s, NEW t, s = <<a, b, c, d>>, t = <<a, b, c, d, e>> PROVE Append(s, e) = t
    <3>1. /\ s \in Seq(S) /\ t \in Seq(S) /\ Len(s) = 4 /\ Len(t) = 5
          /\ t[1] = s[1] /\ t[2] = s[2] /\ t[3] = s[3] /\ t[4] = s[4] /\ t[5] = e
      BY <1>2, <2>1
    <3>2. Len(t) = Len(s) + 1 /\ t[Len(s) + 1] = e /\ e \in S
      BY <1>2, <3>1
    <3>3. \A i \in 1..Len(s) : t[i] = s[i]
      BY <3>1
    <3> QED BY <1>1, <3>1, <3>2, <3>3
  <2> QED BY <2>1
<1> QED BY <1>3, <1>4, <1>5, <1>6, <1>7

\* What createThread gets, and when a piece is missing.
LEMMA ThreadGot ==
    LET got == ThreadPages(Nothing) IN
    /\ got.occ = After3(occupied).occ
    /\ got.nodes = <<After1(occupied).node, After2(occupied).node,
                     After3(occupied).node>>
    /\ Contains(got.nodes, NULL) <=> \/ After1(occupied).node = NULL
                                     \/ After2(occupied).node = NULL
                                     \/ After3(occupied).node = NULL
<1> DEFINE a == After1(occupied).node
           b == After2(occupied).node
           c == After3(occupied).node
<1>1. ThreadPages(Nothing) = [occ |-> After3(occupied).occ,
                              nodes |-> Append(Append(Append(<<>>, a), b), c)]
  BY ThreadPagesIs DEF Nothing
<1> HIDE DEF a, b, c
<1>2. ThreadPages(Nothing) = [occ |-> After3(occupied).occ, nodes |-> <<a, b, c>>]
  BY <1>1, Appended
<1>3. Contains(<<a, b, c>>, NULL) <=> a = NULL \/ b = NULL \/ c = NULL
  BY DEF Contains
<1> QED BY <1>2, <1>3 DEF a, b, c

\* What createProcess gets, and when a piece is missing.
LEMMA ProcessGot ==
    LET got == Then(ThreadPages(Then(Nothing, 1)), 1)
        occ == After1(occupied).occ
    IN
    /\ got.occ = ProcessPages.occ
    /\ got.nodes = <<After1(occupied).node, After1(occ).node, After2(occ).node,
                     After3(occ).node, ProcessPages.node>>
    /\ Contains(got.nodes, NULL) <=> \/ After1(occupied).node = NULL
                                     \/ After1(occ).node = NULL
                                     \/ After2(occ).node = NULL
                                     \/ After3(occ).node = NULL
                                     \/ ProcessPages.node = NULL
<1> DEFINE occ == After1(occupied).occ
           a == After1(occupied).node
           b == After1(occ).node
           c == After2(occ).node
           d == After3(occ).node
           e == ProcessPages.node
           s == Append(Append(Append(Append(<<>>, a), b), c), d)
<1>1. Then(Nothing, 1) = [occ |-> occ, nodes |-> Append(<<>>, a)]
  BY ThenIs DEF Nothing, After1
<1>2. ThreadPages(Then(Nothing, 1)) = [occ |-> After3(occ).occ, nodes |-> s]
  BY <1>1, ThreadPagesIs
<1>3. Then([occ |-> After3(occ).occ, nodes |-> s], 1)
        = [occ |-> ProcessPages.occ, nodes |-> Append(s, e)]
  BY ThenIs DEF ProcessPages, After1
<1> HIDE DEF a, b, c, d, e
<1>4. Append(s, e) = <<a, b, c, d, e>>
  <2>1. /\ Append(<<>>, a) = <<a>> /\ Append(<<a>>, b) = <<a, b>>
        /\ Append(<<a, b>>, c) = <<a, b, c>>
        /\ Append(<<a, b, c>>, d) = <<a, b, c, d>>
        /\ Append(<<a, b, c, d>>, e) = <<a, b, c, d, e>>
    BY Appended
  <2> QED BY <2>1, Zenon
<1>5. Contains(<<a, b, c, d, e>>, NULL) <=>
          a = NULL \/ b = NULL \/ c = NULL \/ d = NULL \/ e = NULL
  BY DEF Contains
<1> HIDE DEF s
<1>6. Then(ThreadPages(Then(Nothing, 1)), 1)
        = [occ |-> ProcessPages.occ, nodes |-> <<a, b, c, d, e>>]
  BY <1>2, <1>3, <1>4
<1> QED BY <1>5, <1>6 DEF a, b, c, d, e

(***************************************************************************)
(* What an operation leaves, with its allocations named: one lemma for     *)
(* each operation that takes pages.                                        *)
(***************************************************************************)

\* A thread that has been given its pages.
LEMMA ThreadOfType ==
    ASSUME NEW nodes, nodes[1] \in Node, nodes[2] \in Node, nodes[3] \in Node
    PROVE  /\ ThreadOf(nodes) \in Thread
           /\ ThreadOf(nodes) = [t |-> nodes[1], user |-> nodes[2], kernel |-> nodes[3]]
BY DEF ThreadOf, Thread

\* createProcess in terms of its five allocations.
LEMMA CreateProcessDoes ==
    ASSUME MemoryTypes, CreateProcess, ~NoMemory
    PROVE  LET occ == After1(occupied).occ
               th == [t |-> After1(occ).node, user |-> After2(occ).node,
                      kernel |-> After3(occ).node]
               q == [alive |-> TRUE, info |-> After1(occupied).node,
                     slot |-> ProcessPages.node,
                     threads |-> [k \in Spot |-> IF k = 0 THEN th ELSE NoThread],
                     heap |-> <<>>, runs |-> <<>>]
           IN  /\ After1(occupied).node # NULL /\ After1(occ).node # NULL
               /\ After2(occ).node # NULL /\ After3(occ).node # NULL
               /\ ProcessPages.node # NULL
               /\ occupied' = ProcessPages.occ
               /\ processes' = Append(processes, q)
               /\ threadEnded' = threadEnded /\ status' = status
<1> DEFINE got == Then(ThreadPages(Then(Nothing, 1)), 1)
           occ == After1(occupied).occ
           nodes == got.nodes
           s == SubSeq(nodes, 2, 4)
<1>1. ~Contains(nodes, NULL)
  BY DEF CreateProcess
<1>2. /\ occupied' = got.occ
      /\ processes' = Append(processes,
              [alive |-> TRUE, info |-> nodes[1], slot |-> nodes[5],
               threads |-> [k \in Spot |-> IF k = 0 THEN ThreadOf(s) ELSE NoThread],
               heap |-> <<>>, runs |-> <<>>])
      /\ threadEnded' = threadEnded /\ status' = status
  BY <1>1 DEF CreateProcess
<1>3. /\ got.occ = ProcessPages.occ
      /\ nodes = <<After1(occupied).node, After1(occ).node, After2(occ).node,
                   After3(occ).node, ProcessPages.node>>
      /\ After1(occupied).node # NULL /\ After1(occ).node # NULL
      /\ After2(occ).node # NULL /\ After3(occ).node # NULL
      /\ ProcessPages.node # NULL
  BY <1>1, ProcessGot
<1> HIDE DEF nodes, got, occ
<1>4. ASSUME NEW a, NEW b, NEW c, NEW d, NEW e, nodes = <<a, b, c, d, e>>
      PROVE  /\ nodes[1] = a /\ nodes[5] = e
             /\ s[1] = b /\ s[2] = c /\ s[3] = d
  <2>1. nodes \in Seq({a, b, c, d, e}) /\ Len(nodes) = 5
    BY <1>4
  <2>2. \A i \in 1..3 : s[i] = nodes[2 + i - 1]
    BY <2>1, SubSeqProperties
  <2> QED BY <1>4, <2>2
<1>5. /\ nodes[1] = After1(occupied).node /\ nodes[5] = ProcessPages.node
      /\ s[1] = After1(occ).node /\ s[2] = After2(occ).node
      /\ s[3] = After3(occ).node
  BY <1>3, <1>4
<1>6. ThreadOf(s) = [t |-> After1(occ).node, user |-> After2(occ).node,
                     kernel |-> After3(occ).node]
  BY <1>5 DEF ThreadOf
<1> QED BY <1>2, <1>3, <1>5, <1>6 DEF occ

\* createThread in terms of its three allocations.
LEMMA CreateThreadDoes ==
    ASSUME MemoryTypes, NEW p \in DOMAIN processes, CreateThread(p), ~NoMemory
    PROVE  LET th == [t |-> After1(occupied).node, user |-> After2(occupied).node,
                      kernel |-> After3(occupied).node]
           IN  /\ After1(occupied).node # NULL /\ After2(occupied).node # NULL
               /\ After3(occupied).node # NULL
               /\ occupied' = After3(occupied).occ
               /\ \/ processes' = processes
                  \/ \E k \in Spot : /\ processes[p].threads[k] = NoThread
                                     /\ processes' =
                                           [processes EXCEPT ![p].threads[k] = th]
               /\ threadEnded' = threadEnded /\ status' = status
<1> DEFINE got == ThreadPages(Nothing)
           free == { k \in Spot : processes[p].threads[k] = NoThread }
           th == [t |-> After1(occupied).node, user |-> After2(occupied).node,
                  kernel |-> After3(occupied).node]
<1>1. ~Contains(got.nodes, NULL)
  BY DEF CreateThread
<1>2. /\ occupied' = got.occ
      /\ processes' = IF free = {} THEN processes
                      ELSE [processes EXCEPT ![p].threads[First(free)] =
                                                ThreadOf(got.nodes)]
      /\ threadEnded' = threadEnded /\ status' = status
  BY <1>1 DEF CreateThread
<1>3. /\ got.occ = After3(occupied).occ
      /\ got.nodes = <<After1(occupied).node, After2(occupied).node,
                       After3(occupied).node>>
      /\ After1(occupied).node # NULL /\ After2(occupied).node # NULL
      /\ After3(occupied).node # NULL
  BY <1>1, ThreadGot
<1>4. ThreadOf(got.nodes) = th
  BY <1>3 DEF ThreadOf
<1>5. free # {} => First(free) \in free
  <2>1. free \subseteq Nat
    BY DEF Spot
  <2> HIDE DEF free
  <2> QED BY <2>1, FirstIs
<1> HIDE DEF th
<1>6. free # {} => /\ First(free) \in Spot
                   /\ processes[p].threads[First(free)] = NoThread
                   /\ processes' = [processes EXCEPT ![p].threads[First(free)] = th]
  BY <1>2, <1>4, <1>5
<1>7. free = {} => processes' = processes
  BY <1>2
<1> HIDE DEF free
<1>8. \/ processes' = processes
      \/ \E k \in Spot : /\ processes[p].threads[k] = NoThread
                         /\ processes' = [processes EXCEPT ![p].threads[k] = th]
  BY <1>6, <1>7
<1> QED BY <1>2, <1>3, <1>8 DEF th

-----------------------------------------------------------------------------
(***************************************************************************)
(* Who has what: the pairs of a process and one of its pieces.             *)
(***************************************************************************)
Owned(ps) == UNION { { <<p, a>> : a \in PiecesOf(ps[p]) } : p \in DOMAIN ps }

Disjoint(a, b) == PagesOf[a] \cap PagesOf[b] = {}

HeldBy(X) == { x[2][3] : x \in X }

\* The marks protect the pieces of X, and no two have a page in common.
Safe(occ, X) ==
    /\ Holds(occ, HeldBy(X))
    /\ \A x, y \in X : x # y => Disjoint(x[2][3], y[2][3])

\* Fewer pieces are safe as well.
LEMMA SafeLess ==
    ASSUME NEW occ, NEW X, NEW Y, Safe(occ, X), Y \subseteq X
    PROVE  Safe(occ, Y)
BY DEF Safe, HeldBy, Holds

\* allocPage makes one more piece safe.
LEMMA SafeMore ==
    ASSUME NEW occ, NEW X, Safe(occ, X), NEW pages,
           allocPage(occ, pages).node # NULL,
           NEW p, NEW f, NEW k
    PROVE  Safe(allocPage(occ, pages).occ,
                X \cup {<<p, <<f, k, allocPage(occ, pages).node>>>>})
<1> DEFINE n == allocPage(occ, pages).node
           new == allocPage(occ, pages).occ
           z == <<p, <<f, k, n>>>>
<1>1. /\ n \in Node
      /\ Holds(new, HeldBy(X) \cup {n})
      /\ \A h \in HeldBy(X) : PagesOf[h] \cap PagesOf[n] = {}
  BY AllocHolds DEF Safe
<1> HIDE DEF n, new
<1>2. z[2][3] = n
  OBVIOUS
<1> HIDE DEF z
<1>3. HeldBy(X \cup {z}) = HeldBy(X) \cup {n}
  BY <1>2 DEF HeldBy
<1>4. \A x \in X : x[2][3] \in HeldBy(X)
  BY DEF HeldBy
<1>5. ASSUME NEW x \in X \cup {z}, NEW y \in X \cup {z}, x # y
      PROVE  Disjoint(x[2][3], y[2][3])
  <2>1. CASE x \in X /\ y \in X
    BY <1>5, <2>1 DEF Safe
  <2>2. CASE x \in X /\ y = z
    BY <1>1, <1>2, <1>4, <2>2 DEF Disjoint
  <2>3. CASE x = z /\ y \in X
    BY <1>1, <1>2, <1>4, <2>3 DEF Disjoint
  <2> QED BY <1>5, <2>1, <2>2, <2>3
<1>6. Safe(new, X \cup {z})
  BY <1>1, <1>3, <1>5 DEF Safe
<1> QED BY <1>6 DEF z, n, new

\* The pieces of a process with a thread written into its array.
LEMMA PiecesOfThread ==
    ASSUME NEW threads, NEW k \in Spot, NEW th,
           threads = [o \in Spot |-> threads[o]]
    PROVE  PiecesOfThreads([threads EXCEPT ![k] = th])
             \subseteq PiecesOfThreads(threads)
                       \cup { <<f, k, th[f]>> : f \in ThreadFields }
<1> DEFINE new == [threads EXCEPT ![k] = th]
<1>1. \A o \in Spot : new[o] = IF o = k THEN th ELSE threads[o]
  OBVIOUS
<1> HIDE DEF new
<1>2. ASSUME NEW o \in Spot, new[o] # NoThread, NEW f \in ThreadFields
      PROVE  <<f, o, new[o][f]>> \in PiecesOfThreads(threads)
                       \cup { <<g, k, th[g]>> : g \in ThreadFields }
  <2>1. CASE o = k
    BY <1>1, <2>1
  <2>2. CASE o # k
    BY <1>1, <1>2, <2>2 DEF PiecesOfThreads
  <2> QED BY <2>1, <2>2
<1>3. \A x \in PiecesOfThreads(new) : \E o \in Spot : \E f \in ThreadFields :
          new[o] # NoThread /\ x = <<f, o, new[o][f]>>
  BY DEF PiecesOfThreads
<1> QED BY <1>2, <1>3 DEF new

\* The pieces of a heap that has grown.
LEMMA PiecesOfRun ==
    ASSUME NEW S, NEW runs \in Seq(S), NEW r \in S
    PROVE  PiecesOfHeap(Append(runs, r))
             \subseteq PiecesOfHeap(runs) \cup {<<"heap", Len(runs) + 1, r.node>>}
<1> DEFINE new == Append(runs, r)
<1>1. /\ DOMAIN new = 1..(Len(runs) + 1) /\ DOMAIN runs = 1..Len(runs)
      /\ \A o \in DOMAIN runs : new[o] = runs[o]
      /\ new[Len(runs) + 1] = r /\ Len(runs) \in Nat
  OBVIOUS
<1> HIDE DEF new
<1> QED BY <1>1 DEF PiecesOfHeap, new

\* A process in place of another.
LEMMA OwnedChanged ==
    ASSUME NEW ps, NEW p \in DOMAIN ps, NEW q, NEW Z,
           \A a \in PiecesOf(q) : a \in PiecesOf(ps[p]) \/ <<p, a>> \in Z
    PROVE  Owned([ps EXCEPT ![p] = q]) \subseteq Owned(ps) \cup Z
<1> SUFFICES ASSUME NEW new, new = [ps EXCEPT ![p] = q]
             PROVE  Owned(new) \subseteq Owned(ps) \cup Z
  OBVIOUS
<1>1. DOMAIN new = DOMAIN ps /\ \A o \in DOMAIN ps : new[o] = IF o = p THEN q ELSE ps[o]
  OBVIOUS
<1>2. ASSUME NEW o \in DOMAIN ps, NEW a \in PiecesOf(new[o])
      PROVE  <<o, a>> \in Owned(ps) \cup Z
  BY <1>1, <1>2 DEF Owned
<1>3. \A x \in Owned(new) : \E o \in DOMAIN ps : \E a \in PiecesOf(new[o]) : x = <<o, a>>
  BY <1>1 DEF Owned
<1>4. ASSUME NEW x \in Owned(new) PROVE x \in Owned(ps) \cup Z
  <2>1. PICK o \in DOMAIN ps : \E a \in PiecesOf(new[o]) : x = <<o, a>>
    BY <1>3
  <2> QED BY <1>2, <2>1
<1> QED BY <1>4

\* What is owned when a process is added.
LEMMA OwnedAppended ==
    ASSUME NEW S, NEW ps \in Seq(S), NEW q \in S, NEW Z,
           \A a \in PiecesOf(q) : <<Len(ps) + 1, a>> \in Z
    PROVE  Owned(Append(ps, q)) \subseteq Owned(ps) \cup Z
<1> DEFINE new == Append(ps, q)
<1>1. /\ DOMAIN new = 1..(Len(ps) + 1) /\ DOMAIN ps = 1..Len(ps)
      /\ \A o \in DOMAIN ps : new[o] = ps[o]
      /\ new[Len(ps) + 1] = q /\ Len(ps) \in Nat
  OBVIOUS
<1> HIDE DEF new
<1>2. ASSUME NEW o \in DOMAIN new, NEW a \in PiecesOf(new[o])
      PROVE  <<o, a>> \in Owned(ps) \cup Z
  <2>1. CASE o \in DOMAIN ps
    BY <1>1, <1>2, <2>1 DEF Owned
  <2>2. CASE o = Len(ps) + 1
    BY <1>1, <1>2, <2>2
  <2> QED BY <1>1, <2>1, <2>2
<1>3. \A x \in Owned(new) : \E o \in DOMAIN new : \E a \in PiecesOf(new[o]) : x = <<o, a>>
  BY DEF Owned
<1> QED BY <1>2, <1>3 DEF new

-----------------------------------------------------------------------------
(***************************************************************************)
(* Heaps.                                                                  *)
(***************************************************************************)

\* align4 rounds up.
LEMMA AlignIs ==
    ASSUME NEW size \in Nat \ {0}
    PROVE  align4(size) \in Nat \ {0} /\ size <= align4(size)
<1>1. size - 1 \in Nat
  OBVIOUS
<1>2. (size - 1) \div 4 \in Nat /\ size - 1 < 4 * ((size - 1) \div 4) + 4
  BY <1>1
<1> QED BY <1>2 DEF align4

\* The pages asked for have room for the bytes.
LEMMA PagesAsked ==
    ASSUME NEW size \in Nat \ {0}
    PROVE  /\ NUMBER_OF_PAGES_TO_ALLOC(size) \in Nat \ {0}
           /\ size <= NUMBER_OF_PAGES_TO_ALLOC(size) * PAGE_SIZE
<1> DEFINE q == size \div PAGE_SIZE
           m == size % PAGE_SIZE
<1>1. PAGE_SIZE \in Nat \ {0}
  BY MemoryAssumption
<1>2. q \in Nat /\ m \in Nat /\ size = PAGE_SIZE * q + m /\ m < PAGE_SIZE
  BY <1>1
<1>3. PAGE_SIZE * q = q * PAGE_SIZE /\ (q + 1) * PAGE_SIZE = PAGE_SIZE * q + PAGE_SIZE
  BY <1>1, <1>2
<1>4. q = 0 => PAGE_SIZE * q = 0
  BY <1>1
<1>5. NUMBER_OF_PAGES_TO_ALLOC(size) = IF m = 0 THEN q ELSE q + 1
  BY DEF NUMBER_OF_PAGES_TO_ALLOC
<1> HIDE DEF q, m
<1>6. CASE m = 0
  BY <1>1, <1>2, <1>3, <1>4, <1>5, <1>6
<1>7. CASE m # 0
  <2>1. NUMBER_OF_PAGES_TO_ALLOC(size) = q + 1
    BY <1>5, <1>7
  <2>2. PAGE_SIZE * q \in Nat
    BY <1>1, <1>2
  <2>3. size <= PAGE_SIZE * q + PAGE_SIZE
    BY <1>1, <1>2, <2>2
  <2> QED BY <1>2, <1>3, <2>1, <2>3
<1> QED BY <1>6, <1>7

\* The pages that extendHeap asks for, and the block and the run it adds.
PagesFor(size) == NUMBER_OF_PAGES_TO_ALLOC(size + BLOCK_STRUCT_SIZE)
NewRun(node, size) == [node |-> node, pages |-> PagesFor(size)]
NewBlock(node, size) ==
    FreeBlock(FirstPage(node) * PAGE_SIZE,
              PagesFor(size) * PAGE_SIZE - BLOCK_STRUCT_SIZE)

\* extendHeap adds a run of pages and a block.
LEMMA ExtendDoes ==
    ASSUME NEW h, NEW size,
           h = [occ |-> h.occ, heap |-> h.heap, runs |-> h.runs, ok |-> TRUE]
    PROVE  LET e == extendHeap(h, size)
               a == allocPage(h.occ, PagesFor(size))
           IN  /\ a.node = NULL => e.ok = FALSE
               /\ a.node # NULL =>
                    /\ e = [occ |-> e.occ, heap |-> e.heap, runs |-> e.runs, ok |-> TRUE]
                    /\ e.occ = a.occ
                    /\ e.heap = Append(h.heap, NewBlock(a.node, size))
                    /\ e.runs = Append(h.runs, NewRun(a.node, size))
<1> DEFINE e == extendHeap(h, size)
           a == allocPage(h.occ, PagesFor(size))
           b == NewBlock(a.node, size)
           r == NewRun(a.node, size)
           t == [occ |-> a.occ, ok |-> TRUE, runs |-> Append(h.runs, r),
                 heap |-> Append(h.heap, b)]
           f == [h EXCEPT !.ok = FALSE]
<1>1. e = IF a.node = NULL THEN f ELSE t
  BY DEF extendHeap, PagesFor, NewRun, NewBlock
<1> HIDE DEF a, b, r, e
<1>2. /\ t = [occ |-> t.occ, heap |-> t.heap, runs |-> t.runs, ok |-> TRUE]
      /\ t.occ = a.occ /\ t.heap = Append(h.heap, b) /\ t.runs = Append(h.runs, r)
  OBVIOUS
<1>3. f.ok = FALSE
  OBVIOUS
<1> HIDE DEF t, f
<1> QED BY <1>1, <1>2, <1>3 DEF a, b, r, e

\* The block that extendHeap adds fills the pages asked for and has room for
\* the request.
LEMMA NewRunFits ==
    ASSUME NEW occ, NEW size \in Nat \ {0},
           allocPage(occ, PagesFor(size)).node # NULL
    PROVE  LET node == allocPage(occ, PagesFor(size)).node IN
           /\ NewRun(node, size) \in Run
           /\ NewBlock(node, size) \in Block
           /\ size <= NewBlock(node, size).size
           /\ NewBlock(node, size).asked = 0
           /\ NewBlock(node, size).base = FirstPage(node) * PAGE_SIZE
           /\ NewBlock(node, size).size = PagesFor(size) * PAGE_SIZE - BLOCK_STRUCT_SIZE
<1> DEFINE node == allocPage(occ, PagesFor(size)).node
           pages == PagesFor(size)
           bytes == pages * PAGE_SIZE
<1>1. PAGE_SIZE \in Nat /\ BLOCK_STRUCT_SIZE \in Nat
  BY MemoryAssumption
<1>2. pages \in Nat \ {0} /\ size + BLOCK_STRUCT_SIZE <= bytes
  BY <1>1, PagesAsked DEF PagesFor
<1>3. /\ node \in Node /\ FirstPage(node) \in Nat
      /\ \E n \in Nat \ {0} :
            pages <= n /\ PagesOf[node] = FirstPage(node) .. (FirstPage(node) + n - 1)
  BY AllocSize
<1> HIDE DEF node, pages
<1>4. bytes \in Nat /\ FirstPage(node) * PAGE_SIZE \in Nat
  BY <1>1, <1>2, <1>3
<1>5. FirstPage(node) .. (FirstPage(node) + pages - 1) \subseteq PagesOf[node]
  BY <1>2, <1>3
<1>6. [node |-> node, pages |-> pages] \in Run
  BY <1>2, <1>3, <1>5 DEF Run
<1> HIDE DEF bytes
<1>7. bytes - BLOCK_STRUCT_SIZE \in Nat /\ size <= bytes - BLOCK_STRUCT_SIZE
  BY <1>1, <1>2, <1>4
<1>8. FreeBlock(FirstPage(node) * PAGE_SIZE, bytes - BLOCK_STRUCT_SIZE) \in Block
  BY <1>4, <1>7 DEF FreeBlock, Block
<1>9. NewRun(node, size) \in Run /\ NewBlock(node, size) \in Block
  BY <1>6, <1>8 DEF NewRun, NewBlock, pages, bytes
<1>10. /\ NewBlock(node, size).size = bytes - BLOCK_STRUCT_SIZE
       /\ NewBlock(node, size).asked = 0
       /\ NewBlock(node, size).base = FirstPage(node) * PAGE_SIZE
  BY DEF NewBlock, FreeBlock, bytes, pages
<1> QED BY <1>7, <1>9, <1>10 DEF node, bytes, pages

\* A sequence with an element inserted.
LEMMA InsertedAt ==
    ASSUME NEW S, NEW s \in Seq(S), NEW e \in S, NEW i \in 1..(Len(s) + 1)
    PROVE  /\ InsertAt(s, i, e) \in Seq(S)
           /\ Len(InsertAt(s, i, e)) = Len(s) + 1
           /\ \A j \in 1..(i - 1) : InsertAt(s, i, e)[j] = s[j]
           /\ InsertAt(s, i, e)[i] = e
           /\ \A j \in (i + 1)..(Len(s) + 1) : InsertAt(s, i, e)[j] = s[j - 1]
<1> DEFINE a == SubSeq(s, 1, i - 1)
           z == SubSeq(s, i, Len(s))
           m == a \o <<e>>
<1>1. Len(s) \in Nat /\ i \in Nat \ {0}
  OBVIOUS
<1>2. /\ a \in Seq(S) /\ Len(a) = i - 1
      /\ \A j \in 1..(i - 1) : a[j] = s[j]
  BY <1>1, SubSeqProperties
<1>3. /\ z \in Seq(S) /\ Len(z) = Len(s) - i + 1
      /\ \A j \in 1..(Len(s) - i + 1) : z[j] = s[i + j - 1]
  BY <1>1, SubSeqProperties
<1>4. <<e>> \in Seq(S) /\ Len(<<e>>) = 1 /\ <<e>>[1] = e
  OBVIOUS
<1> HIDE DEF a, z
<1>5. /\ m \in Seq(S) /\ Len(m) = i
      /\ \A j \in 1..(i - 1) : m[j] = s[j]
      /\ m[i] = e
  BY <1>1, <1>2, <1>4, ConcatProperties
<1> HIDE DEF m
<1>6. /\ m \o z \in Seq(S) /\ Len(m \o z) = Len(s) + 1
      /\ \A j \in 1..i : (m \o z)[j] = m[j]
      /\ \A j \in (i + 1)..(Len(s) + 1) : (m \o z)[j] = z[j - i]
  BY <1>1, <1>3, <1>5, ConcatProperties
<1>7. \A j \in (i + 1)..(Len(s) + 1) : z[j - i] = s[j - 1]
  BY <1>1, <1>3
<1>8. InsertAt(s, i, e) = m \o z
  BY DEF InsertAt, m, a, z
<1> QED BY <1>1, <1>5, <1>6, <1>7, <1>8

(***************************************************************************)
(* What mallock makes of the block it takes: the block alone, or two in    *)
(* its place.                                                              *)
(***************************************************************************)
Taken(b, size) == [base |-> b.base, size |-> b.size, free |-> FALSE, asked |-> size]

\* The bytes of a block.
LEMMA ExtentIs ==
    ASSUME NEW b \in Block
    PROVE  /\ Extent(b) = b.base .. (b.base + BLOCK_STRUCT_SIZE + b.size - 1)
           /\ b.base \in Nat /\ b.size \in Nat /\ b.asked \in Nat
BY DEF Extent, Block

\* mallock's last assignments: the block is not free, and somebody's.
LEMMA TakenAt ==
    ASSUME NEW heap \in Seq(Block), NEW i \in DOMAIN heap, NEW size \in Nat
    PROVE  LET g == Take(heap, i, size) IN
           /\ g \in Seq(Block) /\ Len(g) = Len(heap)
           /\ g[i] = Taken(heap[i], size)
           /\ \A j \in DOMAIN heap : j # i => g[j] = heap[j]
<1> DEFINE g == Take(heap, i, size)
<1>1. heap[i] \in Block
  OBVIOUS
<1>2. heap[i] = [base |-> heap[i].base, size |-> heap[i].size,
                 free |-> heap[i].free, asked |-> heap[i].asked]
  BY <1>1 DEF Block
<1>3. ASSUME NEW b, NEW c, NEW d,
             b = [base |-> b.base, size |-> b.size, free |-> b.free, asked |-> b.asked],
             c = [b EXCEPT !.free = FALSE], d = [c EXCEPT !.asked = size]
      PROVE  d = Taken(b, size)
  BY <1>3 DEF Taken
<1>4. /\ Len(g) = Len(heap) /\ DOMAIN g = DOMAIN heap
      /\ \A j \in DOMAIN heap : j # i => g[j] = heap[j]
      /\ g[i] = [[heap[i] EXCEPT !.free = FALSE] EXCEPT !.asked = size]
  BY DEF Take
<1>5. g = [j \in DOMAIN heap |-> g[j]]
  BY DEF Take
<1> HIDE DEF g
<1>6. g[i] = Taken(heap[i], size)
  BY <1>2, <1>3, <1>4
<1>7. Taken(heap[i], size) \in Block
  BY <1>1 DEF Taken, Block
<1>8. \A j \in DOMAIN heap : g[j] \in Block
  BY <1>4, <1>6, <1>7
<1>9. g \in [1..Len(heap) -> Block]
  BY <1>8, <1>5
<1>10. g \in Seq(Block)
  BY <1>9
<1> QED BY <1>4, <1>6, <1>10 DEF g

\* A block that is handed out whole.
LEMMA GrantWhole ==
    ASSUME NEW heap \in Seq(Block), NEW i \in DOMAIN heap, NEW size \in Nat \ {0},
           ~(heap[i].size > align4(size) + 4 + BLOCK_STRUCT_SIZE)
    PROVE  LET g == Grant(heap, i, size) IN
           /\ g \in Seq(Block) /\ Len(g) = Len(heap)
           /\ g[i] = Taken(heap[i], size)
           /\ \A j \in DOMAIN heap : j # i => g[j] = heap[j]
<1> DEFINE g == Grant(heap, i, size)
<1>1. g = Take(heap, i, size)
  BY DEF Grant
<1> HIDE DEF g
<1>2. size \in Nat
  OBVIOUS
<1>3. /\ g \in Seq(Block) /\ Len(g) = Len(heap)
      /\ g[i] = Taken(heap[i], size)
      /\ \A j \in DOMAIN heap : j # i => g[j] = heap[j]
  BY <1>1, <1>2, TakenAt
<1> QED BY <1>3 DEF g

\* A block that is split.
LEMMA GrantSplit ==
    ASSUME NEW heap \in Seq(Block), NEW i \in DOMAIN heap, NEW size \in Nat \ {0},
           heap[i].size > align4(size) + 4 + BLOCK_STRUCT_SIZE
    PROVE  LET g == Grant(heap, i, size)
               s == align4(size)
           IN
           /\ g \in Seq(Block) /\ Len(g) = Len(heap) + 1
           /\ \A j \in 1..(i - 1) : g[j] = heap[j]
           /\ g[i] = [base |-> heap[i].base, size |-> s, free |-> FALSE, asked |-> size]
           /\ g[i + 1] = FreeBlock(heap[i].base + BLOCK_STRUCT_SIZE + s,
                                   heap[i].size - (s + BLOCK_STRUCT_SIZE))
           /\ \A j \in (i + 2)..(Len(heap) + 1) : g[j] = heap[j - 1]
<1> DEFINE g == Grant(heap, i, size)
           s == align4(size)
           cut == [heap EXCEPT ![i].size = s]
           rest == FreeBlock(heap[i].base + BLOCK_STRUCT_SIZE + s,
                             heap[i].size - (s + BLOCK_STRUCT_SIZE))
           both == InsertAt(cut, i + 1, rest)
<1>1. s \in Nat /\ BLOCK_STRUCT_SIZE \in Nat
  BY AlignIs, MemoryAssumption
<1>2. g = Take(both, i, size)
  BY DEF Grant, split_block
<1>3. heap[i] \in Block /\ Len(heap) \in Nat /\ i \in 1..Len(heap)
  OBVIOUS
<1>4. heap[i] = [base |-> heap[i].base, size |-> heap[i].size,
                 free |-> heap[i].free, asked |-> heap[i].asked]
  BY <1>3 DEF Block
<1>5. /\ heap[i].base \in Nat /\ heap[i].size \in Nat /\ heap[i].free \in BOOLEAN
      /\ heap[i].asked \in Nat
  BY <1>3 DEF Block
<1>6. heap[i].size > s + 4 + BLOCK_STRUCT_SIZE
  OBVIOUS
<1> HIDE DEF g, s
<1>7. ASSUME NEW b, NEW c,
             b = [base |-> b.base, size |-> b.size, free |-> b.free, asked |-> b.asked],
             c = [b EXCEPT !.size = s]
      PROVE  c = [base |-> b.base, size |-> s, free |-> b.free, asked |-> b.asked]
  BY <1>7
<1>8. /\ Len(cut) = Len(heap) /\ DOMAIN cut = DOMAIN heap
      /\ \A j \in DOMAIN heap : j # i => cut[j] = heap[j]
      /\ cut[i] = [heap[i] EXCEPT !.size = s]
  OBVIOUS
<1>9. cut[i] = [base |-> heap[i].base, size |-> s, free |-> heap[i].free,
                asked |-> heap[i].asked]
  BY <1>4, <1>7, <1>8
<1>10. cut[i] \in Block
  BY <1>1, <1>5, <1>9 DEF Block
<1>11. cut \in Seq(Block)
  BY <1>3, <1>8, <1>10
<1>12. /\ heap[i].base + BLOCK_STRUCT_SIZE + s \in Nat
       /\ heap[i].size - (s + BLOCK_STRUCT_SIZE) \in Nat
  BY <1>1, <1>5, <1>6
<1>13. rest \in Block
  BY <1>12 DEF FreeBlock, Block
<1> HIDE DEF cut, rest
<1>14. /\ both \in Seq(Block) /\ Len(both) = Len(heap) + 1
       /\ \A j \in 1..i : both[j] = cut[j]
       /\ both[i + 1] = rest
       /\ \A j \in (i + 2)..(Len(heap) + 1) : both[j] = cut[j - 1]
  <2>1. i + 1 \in 1..(Len(cut) + 1) /\ (i + 1) - 1 = i /\ (i + 1) + 1 = i + 2
    BY <1>3, <1>8
  <2>2. ASSUME NEW c \in Seq(Block), NEW r \in Block, NEW k \in 1..(Len(c) + 1)
        PROVE  LET t == InsertAt(c, k, r) IN
               /\ t \in Seq(Block) /\ Len(t) = Len(c) + 1
               /\ \A j \in 1..(k - 1) : t[j] = c[j]
               /\ t[k] = r
               /\ \A j \in (k + 1)..(Len(c) + 1) : t[j] = c[j - 1]
    BY <2>2, InsertedAt
  <2>3. /\ both \in Seq(Block) /\ Len(both) = Len(cut) + 1
        /\ \A j \in 1..((i + 1) - 1) : both[j] = cut[j]
        /\ both[i + 1] = rest
        /\ \A j \in ((i + 1) + 1)..(Len(cut) + 1) : both[j] = cut[j - 1]
    BY <1>11, <1>13, <2>1, <2>2
  <2> HIDE DEF both
  <2> QED BY <1>8, <2>1, <2>3
<1> HIDE DEF both
<1>15. both[i] = cut[i] /\ i \in DOMAIN both
  BY <1>3, <1>14
<1>16. /\ g \in Seq(Block) /\ Len(g) = Len(both)
       /\ \A j \in DOMAIN both : j # i => g[j] = both[j]
       /\ g[i] = Taken(both[i], size)
  <2>1. size \in Nat
    OBVIOUS
  <2> QED BY <1>2, <1>14, <1>15, <2>1, TakenAt
<1>17. g[i] = [base |-> heap[i].base, size |-> s, free |-> FALSE, asked |-> size]
  BY <1>9, <1>15, <1>16 DEF Taken
<1>18. /\ \A j \in 1..Len(heap) : j # i => cut[j] = heap[j]
       /\ \A j \in 1..(Len(heap) + 1) : j # i => g[j] = both[j]
  <2>1. DOMAIN both = 1..(Len(heap) + 1) /\ DOMAIN heap = 1..Len(heap)
    BY <1>3, <1>14
  <2> QED BY <1>8, <1>16, <2>1
<1>19. \A j \in 1..(i - 1) : g[j] = heap[j]
  <2> SUFFICES ASSUME NEW j \in 1..(i - 1) PROVE g[j] = heap[j]
    OBVIOUS
  <2>1. j \in 1..Len(heap) /\ j \in 1..(Len(heap) + 1) /\ j # i /\ j \in 1..i
    BY <1>3
  <2> QED BY <1>14, <1>18, <2>1
<1>20. g[i + 1] = rest
  BY <1>3, <1>14, <1>16
<1>21. \A j \in (i + 2)..(Len(heap) + 1) : g[j] = heap[j - 1]
  <2> SUFFICES ASSUME NEW j \in (i + 2)..(Len(heap) + 1) PROVE g[j] = heap[j - 1]
    OBVIOUS
  <2>1. j - 1 \in 1..Len(heap) /\ j - 1 # i /\ j \in 1..(Len(heap) + 1) /\ j # i
    BY <1>3
  <2> QED BY <1>14, <1>18, <2>1
<1> QED BY <1>14, <1>16, <1>17, <1>19, <1>20, <1>21 DEF g, s, rest

(***************************************************************************)
(* The blocks of a heap fill its runs, byte by byte.                       *)
(***************************************************************************)
Bytes(r) ==
    (FirstPage(r.node) * PAGE_SIZE)
        .. (FirstPage(r.node) * PAGE_SIZE + r.pages * PAGE_SIZE - 1)

Tiled(heap, runs) ==
    /\ \A i \in DOMAIN heap : heap[i].asked <= heap[i].size
    /\ \A i, j \in DOMAIN heap : \A x \in Extent(heap[i]) :
          x \in Extent(heap[j]) => i = j
    /\ \A i \in DOMAIN heap : \A x \in Extent(heap[i]) :
          \E r \in DOMAIN runs : x \in Bytes(runs[r])
    /\ \A r \in DOMAIN runs : \A x \in Bytes(runs[r]) :
          \E i \in DOMAIN heap : x \in Extent(heap[i])

\* Runs in blocks that have no page in common have no byte in common.
LEMMA BytesApart ==
    ASSUME NEW r \in Run, NEW s \in Run, Disjoint(r.node, s.node)
    PROVE  Bytes(r) \cap Bytes(s) = {}
<1> DEFINE f == FirstPage(r.node)
           g == FirstPage(s.node)
           m == r.pages
           n == s.pages
<1>1. /\ f \in Nat /\ g \in Nat /\ m \in Nat \ {0} /\ n \in Nat \ {0}
      /\ f .. (f + m - 1) \subseteq PagesOf[r.node]
      /\ g .. (g + n - 1) \subseteq PagesOf[s.node]
  BY DEF Run
<1>2. PAGE_SIZE \in Nat
  BY MemoryAssumption
<1>3. PagesOf[r.node] \cap PagesOf[s.node] = {}
  BY DEF Disjoint
<1>4. /\ Bytes(r) = (f * PAGE_SIZE) .. (f * PAGE_SIZE + m * PAGE_SIZE - 1)
      /\ Bytes(s) = (g * PAGE_SIZE) .. (g * PAGE_SIZE + n * PAGE_SIZE - 1)
  BY DEF Bytes
<1> HIDE DEF f, g, m, n
<1>5. f + m <= g \/ g + n <= f
  <2>1. (f .. (f + m - 1)) \cap (g .. (g + n - 1)) = {}
    BY <1>1, <1>3
  <2>2. f \in f .. (f + m - 1) /\ g \in g .. (g + n - 1)
    BY <1>1
  <2>3. f \notin g .. (g + n - 1) /\ g \notin f .. (f + m - 1)
    BY <2>1, <2>2
  <2> QED BY <1>1, <2>3
<1>6. ASSUME NEW a \in Nat, NEW b \in Nat, NEW c \in Nat, a + b <= c
      PROVE  a * PAGE_SIZE + b * PAGE_SIZE <= c * PAGE_SIZE
  <2>1. PICK d \in Nat : c = a + b + d
    <3>1. c - (a + b) \in Nat /\ c = a + b + (c - (a + b))
      BY <1>6
    <3> QED BY <3>1
  <2>2. c * PAGE_SIZE = a * PAGE_SIZE + b * PAGE_SIZE + d * PAGE_SIZE
    BY <1>2, <2>1
  <2>3. d * PAGE_SIZE \in Nat /\ a * PAGE_SIZE \in Nat /\ b * PAGE_SIZE \in Nat
    BY <1>2, <2>1
  <2> QED BY <2>2, <2>3
<1>7. \/ f * PAGE_SIZE + m * PAGE_SIZE <= g * PAGE_SIZE
      \/ g * PAGE_SIZE + n * PAGE_SIZE <= f * PAGE_SIZE
  BY <1>1, <1>5, <1>6
<1>8. /\ f * PAGE_SIZE \in Nat /\ m * PAGE_SIZE \in Nat
      /\ g * PAGE_SIZE \in Nat /\ n * PAGE_SIZE \in Nat
  BY <1>1, <1>2
<1>9. ASSUME NEW a \in Nat, NEW b \in Nat, NEW c \in Nat, NEW d \in Nat,
             a + b <= c \/ c + d <= a
      PROVE  (a .. (a + b - 1)) \cap (c .. (c + d - 1)) = {}
  BY <1>9
<1> QED BY <1>4, <1>7, <1>8, <1>9

\* A heap with one more run and a block on it.
LEMMA TiledMore ==
    ASSUME NEW heap \in Seq(Block), NEW runs \in Seq(Run), Tiled(heap, runs),
           NEW b \in Block, NEW r \in Run,
           b.asked <= b.size, Extent(b) = Bytes(r),
           \A o \in DOMAIN runs : Disjoint(runs[o].node, r.node)
    PROVE  Tiled(Append(heap, b), Append(runs, r))
<1> DEFINE h == Append(heap, b)
           s == Append(runs, r)
           l == Len(heap) + 1
           k == Len(runs) + 1
<1>1. /\ DOMAIN h = DOMAIN heap \cup {l} /\ l \notin DOMAIN heap
      /\ \A i \in DOMAIN heap : h[i] = heap[i]
      /\ h[l] = b
  BY AppendProperties
<1>2. /\ DOMAIN s = DOMAIN runs \cup {k}
      /\ \A i \in DOMAIN runs : s[i] = runs[i]
      /\ s[k] = r
  BY AppendProperties
<1>3. \A o \in DOMAIN runs : Bytes(runs[o]) \cap Bytes(r) = {}
  <2> SUFFICES ASSUME NEW o \in DOMAIN runs PROVE Bytes(runs[o]) \cap Bytes(r) = {}
    OBVIOUS
  <2>1. runs[o] \in Run
    OBVIOUS
  <2> QED BY <2>1, BytesApart
<1> HIDE DEF h, s, l, k
<1>4. \A i \in DOMAIN heap : \A x \in Extent(heap[i]) : x \notin Extent(b)
  BY <1>3 DEF Tiled
<1>5. \A i \in DOMAIN h : h[i].asked <= h[i].size
  BY <1>1 DEF Tiled
<1>6. ASSUME NEW i \in DOMAIN h, NEW j \in DOMAIN h, NEW x \in Extent(h[i]),
             x \in Extent(h[j])
      PROVE  i = j
  BY <1>1, <1>4, <1>6 DEF Tiled
<1>7. ASSUME NEW i \in DOMAIN h, NEW x \in Extent(h[i])
      PROVE  \E o \in DOMAIN s : x \in Bytes(s[o])
  <2>1. CASE i = l
    BY <1>1, <1>2, <1>7, <2>1
  <2>2. CASE i \in DOMAIN heap
    BY <1>1, <1>2, <1>7, <2>2 DEF Tiled
  <2> QED BY <1>1, <2>1, <2>2
<1>8. ASSUME NEW o \in DOMAIN s, NEW x \in Bytes(s[o])
      PROVE  \E i \in DOMAIN h : x \in Extent(h[i])
  <2>1. CASE o = k
    BY <1>1, <1>2, <1>8, <2>1
  <2>2. CASE o \in DOMAIN runs
    BY <1>1, <1>2, <1>8, <2>2 DEF Tiled
  <2> QED BY <1>2, <2>1, <2>2
<1>9. Tiled(h, s)
  BY <1>5, <1>6, <1>7, <1>8 DEF Tiled
<1> QED BY <1>9 DEF h, s

\* The bytes of a block that is split are those of its two parts.
LEMMA CutInTwo ==
    ASSUME NEW f \in Nat, NEW h \in Nat, NEW s \in Nat, NEW z \in Nat, z > s + 4 + h
    PROVE  (f .. (f + h + z - 1))
             = (f .. (f + h + s - 1))
               \cup ((f + h + s) .. (f + h + s + h + (z - (s + h)) - 1))
<1>1. f + h + s + h + (z - (s + h)) - 1 = f + h + z - 1
  OBVIOUS
<1>2. \A x \in Int : x \in f .. (f + h + z - 1) <=>
          x \in f .. (f + h + s - 1) \/ x \in (f + h + s) .. (f + h + z - 1)
  OBVIOUS
<1>3. (f .. (f + h + z - 1))
        = (f .. (f + h + s - 1)) \cup ((f + h + s) .. (f + h + z - 1))
  BY <1>2
<1> QED BY <1>1, <1>3, Zenon

\* A block taken whole, or cut in two.
LEMMA TiledGrant ==
    ASSUME NEW heap \in Seq(Block), NEW runs, Tiled(heap, runs),
           NEW i \in DOMAIN heap, NEW size \in Nat \ {0}, size <= heap[i].size
    PROVE  Tiled(Grant(heap, i, size), runs)
<1> DEFINE g == Grant(heap, i, size)
           s == align4(size)
           b == heap[i]
<1>1. BLOCK_STRUCT_SIZE \in Nat /\ s \in Nat /\ size <= s
  BY AlignIs, MemoryAssumption
<1>2. DOMAIN heap = 1..Len(heap) /\ Len(heap) \in Nat /\ i \in 1..Len(heap)
  OBVIOUS
<1>3. /\ Extent(b) = b.base .. (b.base + BLOCK_STRUCT_SIZE + b.size - 1)
      /\ b.base \in Nat /\ b.size \in Nat
  BY ExtentIs
<1>4. CASE ~(b.size > s + 4 + BLOCK_STRUCT_SIZE)
  <2>1. /\ g \in Seq(Block) /\ Len(g) = Len(heap)
        /\ g[i] = Taken(b, size)
        /\ \A j \in DOMAIN heap : j # i => g[j] = heap[j]
    BY <1>4, GrantWhole
  <2> HIDE DEF g, s
  <2>2. DOMAIN g = DOMAIN heap
    BY <1>2, <2>1
  <2>3. g[i].size = b.size /\ g[i].asked = size /\ Extent(g[i]) = Extent(b)
    BY <2>1 DEF Taken, Extent
  <2>4. \A j \in DOMAIN heap : Extent(g[j]) = Extent(heap[j])
    BY <2>1, <2>3
  <2>5. \A j \in DOMAIN heap : g[j].asked <= g[j].size
    BY <2>1, <2>3 DEF Tiled
  <2>6. Tiled(g, runs)
    BY <2>2, <2>4, <2>5 DEF Tiled
  <2> QED BY <2>6 DEF g
<1>5. CASE b.size > s + 4 + BLOCK_STRUCT_SIZE
  <2> DEFINE left == [base |-> b.base, size |-> s, free |-> FALSE, asked |-> size]
             right == FreeBlock(b.base + BLOCK_STRUCT_SIZE + s,
                                b.size - (s + BLOCK_STRUCT_SIZE))
             old(j) == IF j <= i THEN j ELSE j - 1
  <2>1. /\ g \in Seq(Block) /\ Len(g) = Len(heap) + 1
        /\ \A j \in 1..(i - 1) : g[j] = heap[j]
        /\ g[i] = left
        /\ g[i + 1] = right
        /\ \A j \in (i + 2)..(Len(heap) + 1) : g[j] = heap[j - 1]
    BY <1>5, GrantSplit
  <2>2. b.size - (s + BLOCK_STRUCT_SIZE) \in Nat
    BY <1>1, <1>3, <1>5
  <2>3. /\ Extent(left) = b.base .. (b.base + BLOCK_STRUCT_SIZE + s - 1)
        /\ left.asked = size /\ left.size = s
    BY DEF Extent
  <2>4. /\ Extent(right) = (b.base + BLOCK_STRUCT_SIZE + s)
                .. (b.base + BLOCK_STRUCT_SIZE + s + BLOCK_STRUCT_SIZE
                    + (b.size - (s + BLOCK_STRUCT_SIZE)) - 1)
        /\ right.asked = 0 /\ right.size = b.size - (s + BLOCK_STRUCT_SIZE)
    BY DEF Extent, FreeBlock
  <2> HIDE DEF g, s, b, left, right
  <2>5. Extent(b) = Extent(left) \cup Extent(right)
    <3>1. PICK f \in Nat : f = b.base
      BY <1>3
    <3>2. PICK z \in Nat : z = b.size
      BY <1>3
    <3>3. z > s + 4 + BLOCK_STRUCT_SIZE
      BY <1>5, <3>2
    <3>4. (f .. (f + BLOCK_STRUCT_SIZE + z - 1))
            = (f .. (f + BLOCK_STRUCT_SIZE + s - 1))
              \cup ((f + BLOCK_STRUCT_SIZE + s)
                .. (f + BLOCK_STRUCT_SIZE + s + BLOCK_STRUCT_SIZE
                    + (z - (s + BLOCK_STRUCT_SIZE)) - 1))
      BY <1>1, <3>3, CutInTwo
    <3> QED BY <1>3, <2>3, <2>4, <3>1, <3>2, <3>4, Zenon
  <2>6. Extent(left) \cap Extent(right) = {}
    BY <1>1, <1>3, <2>2, <2>3, <2>4
  <2>7. DOMAIN g = 1..(Len(heap) + 1)
    BY <1>2, <2>1
  <2>8. \A j \in DOMAIN g : /\ old(j) \in DOMAIN heap
                            /\ Extent(g[j]) \subseteq Extent(heap[old(j)])
                            /\ g[j].asked <= g[j].size
    <3> SUFFICES ASSUME NEW j \in DOMAIN g
                 PROVE  /\ old(j) \in DOMAIN heap
                        /\ Extent(g[j]) \subseteq Extent(heap[old(j)])
                        /\ g[j].asked <= g[j].size
      OBVIOUS
    <3>1. j \in 1..(i - 1) \/ j = i \/ j = i + 1 \/ j \in (i + 2)..(Len(heap) + 1)
      BY <1>2, <2>7
    <3>2. CASE j \in 1..(i - 1)
      <4>1. old(j) = j /\ j \in DOMAIN heap /\ g[j] = heap[j]
        BY <1>2, <2>1, <3>2
      <4> QED BY <4>1 DEF Tiled
    <3>3. CASE j = i
      <4>1. old(j) = i /\ g[j] = left
        BY <1>2, <2>1, <3>3
      <4> QED BY <1>1, <2>3, <2>5, <4>1 DEF b
    <3>4. CASE j = i + 1
      <4>1. old(j) = i /\ g[j] = right
        BY <1>2, <2>1, <3>4
      <4> QED BY <2>2, <2>4, <2>5, <4>1 DEF b
    <3>5. CASE j \in (i + 2)..(Len(heap) + 1)
      <4>1. old(j) = j - 1 /\ j - 1 \in DOMAIN heap /\ g[j] = heap[j - 1]
        BY <1>2, <2>1, <3>5
      <4> QED BY <4>1 DEF Tiled
    <3> QED BY <3>1, <3>2, <3>3, <3>4, <3>5
  <2>9. ASSUME NEW j \in DOMAIN g, NEW k \in DOMAIN g, NEW x \in Extent(g[j]),
               x \in Extent(g[k])
        PROVE  j = k
    <3>1. old(j) = old(k)
      <4>1. /\ old(j) \in DOMAIN heap /\ old(k) \in DOMAIN heap
            /\ x \in Extent(heap[old(j)]) /\ x \in Extent(heap[old(k)])
        BY <2>8, <2>9
      <4> HIDE DEF old
      <4> QED BY <4>1 DEF Tiled
    <3>2. j = k \/ (j = i /\ k = i + 1) \/ (j = i + 1 /\ k = i)
      BY <1>2, <2>7, <3>1
    <3> QED BY <2>1, <2>6, <2>9, <3>2
  <2>10. \A j \in DOMAIN g : \A x \in Extent(g[j]) :
             \E r \in DOMAIN runs : x \in Bytes(runs[r])
    BY <2>8 DEF Tiled
  <2>11. ASSUME NEW j \in DOMAIN heap, NEW x \in Extent(heap[j])
         PROVE  \E k \in DOMAIN g : x \in Extent(g[k])
    <3>1. CASE j < i
      <4>1. j \in DOMAIN g /\ g[j] = heap[j]
        BY <1>2, <2>1, <2>7, <3>1
      <4> QED BY <2>11, <4>1
    <3>2. CASE j = i
      <4>1. /\ i \in DOMAIN g /\ i + 1 \in DOMAIN g
            /\ g[i] = left /\ g[i + 1] = right /\ heap[j] = b
        BY <1>2, <2>1, <2>7, <3>2 DEF b
      <4>2. x \in Extent(left) \/ x \in Extent(right)
        BY <2>5, <2>11, <4>1
      <4> QED BY <4>1, <4>2
    <3>3. CASE j > i
      <4>1. j + 1 \in DOMAIN g /\ g[j + 1] = heap[j]
        <5>1. j + 1 \in (i + 2)..(Len(heap) + 1) /\ (j + 1) - 1 = j
          BY <1>2, <3>3
        <5> QED BY <1>2, <2>1, <2>7, <5>1
      <4> QED BY <2>11, <4>1
    <3> QED BY <1>2, <3>1, <3>2, <3>3
  <2>12. \A r \in DOMAIN runs : \A x \in Bytes(runs[r]) :
             \E k \in DOMAIN g : x \in Extent(g[k])
    BY <2>11 DEF Tiled
  <2>13. \A j \in DOMAIN g : g[j].asked <= g[j].size
    BY <2>8
  <2>14. Tiled(g, runs)
    BY <2>9, <2>10, <2>12, <2>13 DEF Tiled
  <2> QED BY <2>14 DEF g
<1> QED BY <1>4, <1>5

(***************************************************************************)
(* mallock: its heap h, before and after each extension.                   *)
(***************************************************************************)
Good(h) ==
    /\ h = [occ |-> h.occ, heap |-> h.heap, runs |-> h.runs, ok |-> TRUE]
    /\ h.occ \in [Node -> Mark] /\ h.heap \in Seq(Block) /\ h.runs \in Seq(Run)

\* The runs are process p's, X is what else there is.
With(X, p, runs) == X \cup { <<p, a>> : a \in PiecesOfHeap(runs) }

SafeHeap(h, X, p) == Safe(h.occ, With(X, p, h.runs)) /\ Tiled(h.heap, h.runs)

\* The pieces after one more run of pages.
LEMMA WithMore ==
    ASSUME NEW X, NEW p, NEW runs \in Seq(Run), NEW r \in Run
    PROVE  With(X, p, Append(runs, r))
             \subseteq With(X, p, runs) \cup {<<p, <<"heap", Len(runs) + 1, r.node>>>>}
<1> DEFINE new == PiecesOfHeap(Append(runs, r))
           old == PiecesOfHeap(runs)
           z == <<"heap", Len(runs) + 1, r.node>>
<1>1. new \subseteq old \cup {z}
  BY PiecesOfRun
<1> HIDE DEF new, old, z
<1>2. { <<p, a>> : a \in new } \subseteq { <<p, a>> : a \in old } \cup {<<p, z>>}
  BY <1>1
<1> QED BY <1>2 DEF With, new, old, z

\* extendHeap leaves the heap tiled and its pages safe.
LEMMA ExtendGood ==
    ASSUME NEW h, Good(h), NEW size \in Nat \ {0}, extendHeap(h, size).ok
    PROVE  LET e == extendHeap(h, size) IN
           /\ Good(e)
           /\ Len(e.heap) \in DOMAIN e.heap
           /\ size <= e.heap[Len(e.heap)].size
           /\ \A X, p : SafeHeap(h, X, p) => SafeHeap(e, X, p)
<1> DEFINE e == extendHeap(h, size)
           n == allocPage(h.occ, PagesFor(size)).node
           occ == allocPage(h.occ, PagesFor(size)).occ
           b == NewBlock(n, size)
           r == NewRun(n, size)
<1>1. /\ h = [occ |-> h.occ, heap |-> h.heap, runs |-> h.runs, ok |-> TRUE]
      /\ h.occ \in [Node -> Mark] /\ h.heap \in Seq(Block) /\ h.runs \in Seq(Run)
  BY DEF Good
<1>2. /\ n # NULL
      /\ e = [occ |-> e.occ, heap |-> e.heap, runs |-> e.runs, ok |-> TRUE]
      /\ e.occ = occ /\ e.heap = Append(h.heap, b) /\ e.runs = Append(h.runs, r)
  BY <1>1, ExtendDoes
<1>3. /\ r \in Run /\ b \in Block /\ size <= b.size /\ b.asked = 0
      /\ b.base = FirstPage(n) * PAGE_SIZE
      /\ b.size = PagesFor(size) * PAGE_SIZE - BLOCK_STRUCT_SIZE
  BY <1>2, NewRunFits
<1>4. r.node = n /\ r.pages = PagesFor(size)
  BY DEF NewRun
<1>5. occ \in [Node -> Mark]
  BY <1>1, AllocType
<1>6. ASSUME NEW X, NEW p, Safe(h.occ, X)
      PROVE  Safe(occ, X \cup {<<p, <<"heap", Len(h.runs) + 1, n>>>>})
  BY <1>2, <1>6, SafeMore
<1> HIDE DEF e, n, occ, b, r
<1>7. Good(e)
  BY <1>1, <1>2, <1>3, <1>5 DEF Good
<1>8. Len(e.heap) \in DOMAIN e.heap /\ e.heap[Len(e.heap)] = b
  BY <1>1, <1>2, <1>3, AppendProperties
<1>9. Extent(b) = Bytes(r)
  <2>1. PagesFor(size) * PAGE_SIZE \in Int /\ FirstPage(n) * PAGE_SIZE \in Int
        /\ BLOCK_STRUCT_SIZE \in Int
    <3>1. FirstPage(n) \in Nat /\ PagesFor(size) \in Nat
      BY <1>3, <1>4 DEF Run
    <3> QED BY <3>1, MemoryAssumption
  <2>2. ASSUME NEW f \in Int, NEW s \in Int, NEW k \in Int
        PROVE  f + k + (s - k) - 1 = f + s - 1
    OBVIOUS
  <2>3. b.base + BLOCK_STRUCT_SIZE + b.size - 1
          = FirstPage(n) * PAGE_SIZE + PagesFor(size) * PAGE_SIZE - 1
    BY <1>3, <2>1, <2>2
  <2> QED BY <1>3, <1>4, <2>3 DEF Extent, Bytes
<1>10. ASSUME NEW X, NEW p, SafeHeap(h, X, p)
       PROVE  SafeHeap(e, X, p)
  <2> DEFINE z == <<p, <<"heap", Len(h.runs) + 1, n>>>>
             old == With(X, p, h.runs)
  <2>1. Safe(h.occ, old) /\ Tiled(h.heap, h.runs)
    BY <1>10 DEF SafeHeap
  <2>2. Safe(occ, old \cup {z})
    BY <1>6, <2>1
  <2>3. With(X, p, e.runs) \subseteq old \cup {z}
    BY <1>1, <1>2, <1>3, <1>4, WithMore
  <2>4. Safe(e.occ, With(X, p, e.runs))
    BY <1>2, <2>2, <2>3, SafeLess
  <2>5. ASSUME NEW o \in DOMAIN h.runs PROVE Disjoint(h.runs[o].node, r.node)
    <3> DEFINE y == <<p, <<"heap", o, h.runs[o].node>>>>
    <3>1. y \in old
      BY DEF With, PiecesOfHeap
    <3>2. y # z /\ y[2][3] = h.runs[o].node /\ z[2][3] = n
      BY <1>1
    <3> HIDE DEF y, z, old
    <3> QED BY <1>4, <2>2, <3>1, <3>2 DEF Safe
  <2>6. b.asked <= b.size
    BY <1>3, ExtentIs
  <2>7. Tiled(e.heap, e.runs)
    BY <1>1, <1>2, <1>3, <1>9, <2>1, <2>5, <2>6, TiledMore
  <2> QED BY <2>4, <2>7 DEF SafeHeap
<1> QED BY <1>3, <1>7, <1>8, <1>10 DEF e

HeapOf(p) == [occ |-> occupied, heap |-> processes[p].heap,
              runs |-> processes[p].runs, ok |-> TRUE]

\* mallock found block i of h, which is the heap it had or an extension of it.
Found(p, h, i, size) ==
    /\ Good(h)
    /\ i \in DOMAIN h.heap /\ size <= h.heap[i].size
    /\ \A X : SafeHeap(HeapOf(p), X, p) => SafeHeap(h, X, p)

ChangesHeap(p, heap, runs) ==
    processes' = [processes EXCEPT ![p].heap = heap, ![p].runs = runs]

\* mallock finds a block, possibly after extendHeap, and grants it.
LEMMA MallockDoes ==
    ASSUME MemoryTypes, NEW p \in DOMAIN processes, NEW size \in Nat \ {0},
           Mallock(p, size), ~NoMemory
    PROVE  \E h, i :
              /\ Found(p, h, i, size)
              /\ occupied' = h.occ
              /\ ChangesHeap(p, Grant(h.heap, i, size), h.runs)
              /\ threadEnded' = threadEnded /\ status' = status
<1> DEFINE h0 == HeapOf(p)
           h1 == IF h0.heap = <<>> THEN extendHeap(h0, size) ELSE h0
           found == findFreeBlocks(h1.heap, align4(size))
           h2 == IF h1.ok /\ found = {} THEN extendHeap(h1, size) ELSE h1
           i == IF found = {} THEN Len(h2.heap) ELSE First(found)
<1>1. /\ h2.ok
      /\ occupied' = h2.occ
      /\ ChangesHeap(p, Grant(h2.heap, i, size), h2.runs)
      /\ threadEnded' = threadEnded /\ status' = status
  BY Zenon DEF Mallock, HeapOf, ChangesHeap
<1>2. Good(h0)
  <2>1. processes[p] \in Process
    BY DEF MemoryTypes
  <2>2. processes[p].heap \in Seq(Block) /\ processes[p].runs \in Seq(Run)
    BY <2>1 DEF Process
  <2>3. /\ h0 = [occ |-> h0.occ, heap |-> h0.heap, runs |-> h0.runs, ok |-> TRUE]
        /\ h0.occ = occupied /\ h0.heap = processes[p].heap
        /\ h0.runs = processes[p].runs
    BY DEF HeapOf
  <2> QED BY <2>2, <2>3 DEF Good, MemoryTypes
<1> HIDE DEF h0
<1>3. h1.ok => Good(h1) /\ \A X : SafeHeap(h0, X, p) => SafeHeap(h1, X, p)
  BY <1>2, ExtendGood
<1> HIDE DEF h1
<1>4. CASE found = {}
  <2>1. h1.ok /\ h2 = extendHeap(h1, size)
    BY <1>1, <1>4
  <2>2. /\ Good(h2) /\ Len(h2.heap) \in DOMAIN h2.heap
        /\ size <= h2.heap[Len(h2.heap)].size
        /\ \A X : SafeHeap(h1, X, p) => SafeHeap(h2, X, p)
    BY <1>1, <1>3, <2>1, ExtendGood
  <2>3. i = Len(h2.heap)
    BY <1>4
  <2> HIDE DEF h2, i, found
  <2>4. Found(p, h2, i, size)
    BY <1>3, <2>1, <2>2, <2>3 DEF Found, h0
  <2> QED BY <1>1, <2>4
<1>5. CASE found # {}
  <2>1. h2 = h1 /\ i = First(found)
    BY <1>5
  <2>2. h1.ok /\ Good(h1) /\ \A X : SafeHeap(h0, X, p) => SafeHeap(h1, X, p)
    BY <1>1, <1>3, <2>1
  <2>3. h1.heap \in Seq(Block)
    BY <2>2 DEF Good
  <2>4. found \subseteq Nat
    BY <2>3 DEF findFreeBlocks
  <2>5. \A o \in found : o \in DOMAIN h1.heap /\ h1.heap[o].size > align4(size)
    BY DEF findFreeBlocks
  <2> HIDE DEF found
  <2>6. First(found) \in found
    BY <1>5, <2>4, FirstIs
  <2> HIDE DEF h2, i
  <2>7. i \in DOMAIN h2.heap /\ h2.heap[i].size > align4(size)
    BY <2>1, <2>5, <2>6
  <2>8. h2.heap[i] \in Block
    BY <2>1, <2>3, <2>7
  <2>9. h2.heap[i].size \in Nat
    BY <2>8 DEF Block
  <2>10. size <= h2.heap[i].size
    BY <2>7, <2>9, AlignIs
  <2>11. Found(p, h2, i, size)
    BY <2>1, <2>2, <2>7, <2>10 DEF Found, h0
  <2> QED BY <1>1, <2>11
<1> QED BY <1>4, <1>5

\* The process with another heap, and with another thread.
SetHeap(q, heap, runs) == [q EXCEPT !.heap = heap, !.runs = runs]
SetThread(q, k, th) == [q EXCEPT !.threads[k] = th]

\* What a process is made of.
LEMMA ProcessRecord ==
    ASSUME NEW alive \in BOOLEAN, NEW info \in Node, NEW slot \in Node,
           NEW threads \in [Spot -> Thread \cup {NoThread}],
           NEW heap \in Seq(Block), NEW runs \in Seq(Run)
    PROVE  [alive |-> alive, info |-> info, slot |-> slot, threads |-> threads,
            heap |-> heap, runs |-> runs] \in Process
BY DEF Process

\* A process with another heap.
LEMMA WithHeap ==
    ASSUME NEW q \in Process, NEW heap \in Seq(Block), NEW runs \in Seq(Run)
    PROVE  LET c == SetHeap(q, heap, runs) IN
           /\ c \in Process
           /\ c.info = q.info /\ c.slot = q.slot /\ c.threads = q.threads
           /\ c.heap = heap /\ c.runs = runs /\ c.alive = q.alive
<1>1. /\ q = [alive |-> q.alive, info |-> q.info, slot |-> q.slot,
              threads |-> q.threads, heap |-> q.heap, runs |-> q.runs]
      /\ q.alive \in BOOLEAN /\ q.info \in Node /\ q.slot \in Node
      /\ q.threads \in [Spot -> Thread \cup {NoThread}]
  BY DEF Process
<1> SUFFICES ASSUME NEW c, c = [q EXCEPT !.heap = heap, !.runs = runs]
             PROVE  /\ c \in Process
                    /\ c.info = q.info /\ c.slot = q.slot /\ c.threads = q.threads
                    /\ c.heap = heap /\ c.runs = runs /\ c.alive = q.alive
  BY DEF SetHeap
<1>2. c = [alive |-> q.alive, info |-> q.info, slot |-> q.slot,
           threads |-> q.threads, heap |-> heap, runs |-> runs]
  BY <1>1
<1>3. c \in Process
  BY <1>1, <1>2 DEF Process
<1>4. /\ c.info = q.info /\ c.slot = q.slot /\ c.threads = q.threads
      /\ c.heap = heap /\ c.runs = runs /\ c.alive = q.alive
  BY <1>2
<1> QED BY <1>3, <1>4

\* A process with another thread in a place.
LEMMA WithThread ==
    ASSUME NEW q \in Process, NEW k \in Spot, NEW th \in Thread \cup {NoThread}
    PROVE  LET c == SetThread(q, k, th) IN
           /\ c \in Process
           /\ c.info = q.info /\ c.slot = q.slot
           /\ c.threads = [q.threads EXCEPT ![k] = th]
           /\ c.heap = q.heap /\ c.runs = q.runs
<1>1. /\ q = [alive |-> q.alive, info |-> q.info, slot |-> q.slot,
              threads |-> q.threads, heap |-> q.heap, runs |-> q.runs]
      /\ q.alive \in BOOLEAN /\ q.info \in Node /\ q.slot \in Node
      /\ q.threads \in [Spot -> Thread \cup {NoThread}]
      /\ q.heap \in Seq(Block) /\ q.runs \in Seq(Run)
  BY DEF Process
<1> SUFFICES ASSUME NEW c, c = [q EXCEPT !.threads[k] = th]
             PROVE  /\ c \in Process
                    /\ c.info = q.info /\ c.slot = q.slot
                    /\ c.threads = [q.threads EXCEPT ![k] = th]
                    /\ c.heap = q.heap /\ c.runs = q.runs
  BY DEF SetThread
<1> DEFINE ths == [q.threads EXCEPT ![k] = th]
<1>2. ths \in [Spot -> Thread \cup {NoThread}]
  BY <1>1
<1>3. c = [alive |-> q.alive, info |-> q.info, slot |-> q.slot,
           threads |-> ths, heap |-> q.heap, runs |-> q.runs]
  BY <1>1
<1> HIDE DEF ths
<1>4. c \in Process
  <2>1. [alive |-> q.alive, info |-> q.info, slot |-> q.slot,
         threads |-> ths, heap |-> q.heap, runs |-> q.runs] \in Process
    BY <1>1, <1>2, ProcessRecord
  <2> QED BY <1>3, <2>1, Zenon
<1>5. /\ c.info = q.info /\ c.slot = q.slot /\ c.threads = ths
      /\ c.heap = q.heap /\ c.runs = q.runs
  BY <1>3
<1> QED BY <1>4, <1>5 DEF ths

\* A process that is removed.
LEMMA WithoutLife ==
    ASSUME NEW q \in Process
    PROVE  LET c == [q EXCEPT !.alive = FALSE] IN
           /\ c \in Process
           /\ c.info = q.info /\ c.slot = q.slot /\ c.threads = q.threads
           /\ c.heap = q.heap /\ c.runs = q.runs
<1>1. /\ q = [alive |-> q.alive, info |-> q.info, slot |-> q.slot,
              threads |-> q.threads, heap |-> q.heap, runs |-> q.runs]
      /\ q.info \in Node /\ q.slot \in Node
      /\ q.threads \in [Spot -> Thread \cup {NoThread}]
      /\ q.heap \in Seq(Block) /\ q.runs \in Seq(Run)
  BY DEF Process
<1> SUFFICES ASSUME NEW c, c = [q EXCEPT !.alive = FALSE]
             PROVE  /\ c \in Process
                    /\ c.info = q.info /\ c.slot = q.slot /\ c.threads = q.threads
                    /\ c.heap = q.heap /\ c.runs = q.runs
  OBVIOUS
<1>2. c = [alive |-> FALSE, info |-> q.info, slot |-> q.slot,
           threads |-> q.threads, heap |-> q.heap, runs |-> q.runs]
  BY <1>1
<1>3. c \in Process
  BY <1>1, <1>2 DEF Process
<1>4. /\ c.info = q.info /\ c.slot = q.slot /\ c.threads = q.threads
      /\ c.heap = q.heap /\ c.runs = q.runs
  BY <1>2
<1> QED BY <1>3, <1>4

\* Process p has become q.
Becomes(p, q) ==
    /\ q \in Process
    /\ DOMAIN processes' = DOMAIN processes
    /\ processes' \in Seq(Process)
    /\ processes' = [processes EXCEPT ![p] = q]
    /\ processes'[p] = q
    /\ \A o \in DOMAIN processes : o # p => processes'[o] = processes[o]

\* One process changes.
LEMMA Replaced ==
    ASSUME processes \in Seq(Process), NEW p \in DOMAIN processes, NEW q \in Process,
           processes' = [processes EXCEPT ![p] = q]
    PROVE  Becomes(p, q)
<1>1. /\ DOMAIN processes' = DOMAIN processes
      /\ processes'[p] = q
      /\ \A o \in DOMAIN processes : o # p => processes'[o] = processes[o]
      /\ processes' \in Seq(Process)
  OBVIOUS
<1> QED BY <1>1 DEF Becomes

\* What the operations on one process make of it.
LEMMA ThreadBecomes ==
    ASSUME processes \in Seq(Process), NEW p \in DOMAIN processes,
           NEW k \in Spot, NEW th \in Thread \cup {NoThread},
           processes' = [processes EXCEPT ![p].threads[k] = th]
    PROVE  \E c : /\ Becomes(p, c)
                  /\ c.info = processes[p].info /\ c.slot = processes[p].slot
                  /\ c.threads = [processes[p].threads EXCEPT ![k] = th]
                  /\ c.heap = processes[p].heap /\ c.runs = processes[p].runs
<1> DEFINE q == processes[p]
           c == SetThread(q, k, th)
<1>1. q \in Process
  OBVIOUS
<1>2. processes' = [processes EXCEPT ![p] = c]
  BY DEF SetThread
<1>3. /\ c \in Process
      /\ c.info = q.info /\ c.slot = q.slot
      /\ c.threads = [q.threads EXCEPT ![k] = th]
      /\ c.heap = q.heap /\ c.runs = q.runs
  BY <1>1, WithThread
<1> HIDE DEF c
<1>4. Becomes(p, c)
  BY <1>2, <1>3, Replaced
<1> QED BY <1>3, <1>4

\* removeProcess changes nothing but alive.
LEMMA RemoveBecomes ==
    ASSUME processes \in Seq(Process), NEW p \in DOMAIN processes,
           processes' = [processes EXCEPT ![p].alive = FALSE]
    PROVE  \E c : /\ Becomes(p, c)
                  /\ c.info = processes[p].info /\ c.slot = processes[p].slot
                  /\ c.threads = processes[p].threads
                  /\ c.heap = processes[p].heap /\ c.runs = processes[p].runs
<1> DEFINE q == processes[p]
           c == [q EXCEPT !.alive = FALSE]
<1>1. q \in Process
  OBVIOUS
<1>2. processes' = [processes EXCEPT ![p] = c]
  OBVIOUS
<1>3. /\ c \in Process
      /\ c.info = q.info /\ c.slot = q.slot /\ c.threads = q.threads
      /\ c.heap = q.heap /\ c.runs = q.runs
  BY <1>1, WithoutLife
<1> HIDE DEF c
<1>4. Becomes(p, c)
  BY <1>2, <1>3, Replaced
<1> QED BY <1>3, <1>4

\* mallock changes nothing but the heap.
LEMMA HeapBecomes ==
    ASSUME processes \in Seq(Process), NEW p \in DOMAIN processes,
           NEW heap \in Seq(Block), NEW runs \in Seq(Run),
           ChangesHeap(p, heap, runs)
    PROVE  \E c : /\ Becomes(p, c)
                  /\ c.info = processes[p].info /\ c.slot = processes[p].slot
                  /\ c.threads = processes[p].threads
                  /\ c.heap = heap /\ c.runs = runs
<1> DEFINE q == processes[p]
           c == SetHeap(q, heap, runs)
<1>1. q \in Process
  OBVIOUS
<1>2. processes' = [processes EXCEPT ![p] = c]
  BY DEF SetHeap, ChangesHeap
<1>3. /\ c \in Process
      /\ c.info = q.info /\ c.slot = q.slot /\ c.threads = q.threads
      /\ c.heap = heap /\ c.runs = runs
  BY <1>1, WithHeap
<1> HIDE DEF c
<1>4. Becomes(p, c)
  BY <1>2, <1>3, Replaced
<1> QED BY <1>3, <1>4

-----------------------------------------------------------------------------
(***************************************************************************)
(* Types are kept.                                                         *)
(***************************************************************************)
LEMMA AfterTypes ==
    ASSUME NEW occ \in [Node -> Mark]
    PROVE  /\ After1(occ).occ \in [Node -> Mark]
           /\ After2(occ).occ \in [Node -> Mark]
           /\ After3(occ).occ \in [Node -> Mark]
           /\ After1(occ).node # NULL => After1(occ).node \in Node
           /\ After2(occ).node # NULL => After2(occ).node \in Node
           /\ After3(occ).node # NULL => After3(occ).node \in Node
<1>1. /\ After1(occ).occ \in [Node -> Mark]
      /\ After1(occ).node # NULL => After1(occ).node \in Node
  BY AllocType DEF After1
<1>2. /\ After2(occ).occ \in [Node -> Mark]
      /\ After2(occ).node # NULL => After2(occ).node \in Node
  BY <1>1, AllocType DEF After2
<1>3. /\ After3(occ).occ \in [Node -> Mark]
      /\ After3(occ).node # NULL => After3(occ).node \in Node
  BY <1>2, AllocType DEF After3
<1> QED BY <1>1, <1>2, <1>3

\* createProcess keeps the types.
LEMMA CreateProcessTypes ==
    ASSUME MemoryTypes, CreateProcess, ~NoMemory
    PROVE  MemoryTypes'
<1> DEFINE occ == After1(occupied).occ
           a == After1(occupied).node
           b == After1(occ).node
           c == After2(occ).node
           d == After3(occ).node
           e == ProcessPages.node
           th == [t |-> b, user |-> c, kernel |-> d]
           ths == [k \in Spot |-> IF k = 0 THEN th ELSE NoThread]
           q == [alive |-> TRUE, info |-> a, slot |-> e, threads |-> ths,
                 heap |-> <<>>, runs |-> <<>>]
<1>1. /\ a # NULL /\ b # NULL /\ c # NULL /\ d # NULL /\ e # NULL
      /\ occupied' = ProcessPages.occ
      /\ processes' = Append(processes, q)
      /\ status' = status
  BY CreateProcessDoes
<1>2. occupied \in [Node -> Mark] /\ processes \in Seq(Process)
  BY DEF MemoryTypes
<1>3. occ \in [Node -> Mark] /\ a \in Node
  BY <1>1, <1>2, AfterTypes
<1> HIDE DEF occ, a
<1>4. b \in Node /\ c \in Node /\ d \in Node /\ After3(occ).occ \in [Node -> Mark]
  BY <1>1, <1>3, AfterTypes
<1>5. e \in Node /\ ProcessPages.occ \in [Node -> Mark]
  BY <1>1, <1>4, AfterTypes DEF ProcessPages, occ
<1> HIDE DEF b, c, d, e
<1>6. th \in Thread
  BY <1>4 DEF Thread
<1> HIDE DEF th
<1>7. ths \in [Spot -> Thread \cup {NoThread}]
  BY <1>6
<1> HIDE DEF ths
<1>8. <<>> \in Seq(Block) /\ <<>> \in Seq(Run)
  OBVIOUS
<1>9. q \in Process
  BY <1>3, <1>5, <1>7, <1>8, ProcessRecord
<1> HIDE DEF q
<1>10. processes' \in Seq(Process)
  BY <1>1, <1>2, <1>9
<1> QED BY <1>1, <1>5, <1>10 DEF MemoryTypes

\* createThread keeps the types.
LEMMA CreateThreadTypes ==
    ASSUME MemoryTypes, NEW p \in DOMAIN processes, CreateThread(p), ~NoMemory
    PROVE  MemoryTypes'
<1> DEFINE a == After1(occupied).node
           b == After2(occupied).node
           c == After3(occupied).node
           th == [t |-> a, user |-> b, kernel |-> c]
<1>1. /\ a # NULL /\ b # NULL /\ c # NULL
      /\ occupied' = After3(occupied).occ
      /\ \/ processes' = processes
         \/ \E k \in Spot : /\ processes[p].threads[k] = NoThread
                            /\ processes' = [processes EXCEPT ![p].threads[k] = th]
      /\ status' = status
  BY CreateThreadDoes
<1>2. occupied \in [Node -> Mark] /\ processes \in Seq(Process)
  BY DEF MemoryTypes
<1>3. a \in Node /\ b \in Node /\ c \in Node /\ occupied' \in [Node -> Mark]
  BY <1>1, <1>2, AfterTypes
<1> HIDE DEF a, b, c
<1>4. th \in Thread
  BY <1>3 DEF Thread
<1> HIDE DEF th
<1>5. processes' \in Seq(Process)
  <2>1. CASE processes' = processes
    BY <1>2, <2>1
  <2>2. ASSUME NEW k \in Spot, processes' = [processes EXCEPT ![p].threads[k] = th]
        PROVE  processes' \in Seq(Process)
    BY <1>2, <1>4, <2>2, ThreadBecomes DEF Becomes
  <2> QED BY <1>1, <2>1, <2>2
<1> QED BY <1>1, <1>3, <1>5 DEF MemoryTypes

\* mallock keeps the types.
LEMMA MallockTypes ==
    ASSUME MemoryTypes, NEW p \in DOMAIN processes, NEW size \in Sizes,
           Mallock(p, size), ~NoMemory
    PROVE  MemoryTypes'
<1>1. size \in Nat \ {0}
  BY MemoryAssumption
<1>2. PICK h, i :
         /\ Found(p, h, i, size)
         /\ occupied' = h.occ
         /\ ChangesHeap(p, Grant(h.heap, i, size), h.runs)
         /\ status' = status
  BY <1>1, MallockDoes
<1>3. /\ h.occ \in [Node -> Mark] /\ h.heap \in Seq(Block) /\ h.runs \in Seq(Run)
      /\ i \in DOMAIN h.heap
  BY <1>2 DEF Found, Good
<1>4. Grant(h.heap, i, size) \in Seq(Block)
  BY <1>1, <1>3, GrantWhole, GrantSplit
<1>5. processes' \in Seq(Process)
  BY <1>2, <1>3, <1>4, HeapBecomes DEF Becomes, MemoryTypes
<1> QED BY <1>2, <1>3, <1>5 DEF MemoryTypes

\* freeThreadPages and terminateThread keep the types, whatever they free.
LEMMA TerminateTypes ==
    ASSUME MemoryTypes, NEW p \in DOMAIN processes, NEW k \in Spot,
           freeThreadPages(p, k) \/ TerminateThread(p, k)
    PROVE  MemoryTypes'
<1>1. CASE freeThreadPages(p, k)
  <2>1. PICK page : occupied' = deallocPage(occupied, page)
    BY <1>1 DEF freeThreadPages
  <2>2. occupied' \in [Node -> Mark]
    BY <2>1, DeallocType DEF MemoryTypes
  <2>3. processes' = processes /\ status' = status
    BY <1>1 DEF freeThreadPages
  <2> QED BY <2>2, <2>3 DEF MemoryTypes
<1>2. CASE TerminateThread(p, k)
  <2>1. /\ processes' = [processes EXCEPT ![p].threads[k] = NoThread]
        /\ status' = status /\ occupied' = occupied
    BY <1>2 DEF TerminateThread
  <2>2. processes' \in Seq(Process)
    BY <2>1, ThreadBecomes DEF Becomes, MemoryTypes
  <2> QED BY <2>1, <2>2 DEF MemoryTypes
<1> QED BY <1>1, <1>2

\* ps takes pages and keeps the types.
LEMMA ListTypes ==
    ASSUME MemoryTypes, getCurrentProcesses, ~NoMemory
    PROVE  MemoryTypes'
<1>1. PICK pages : /\ occupied' = allocPage(occupied, pages).occ
                   /\ UNCHANGED <<processes, status>>
  BY DEF getCurrentProcesses
<1>2. occupied' \in [Node -> Mark]
  BY <1>1, AllocType DEF MemoryTypes
<1> QED BY <1>1, <1>2 DEF MemoryTypes

\* removeProcess keeps the types.
LEMMA RemoveTypes ==
    ASSUME MemoryTypes, NEW p \in DOMAIN processes, RemoveProcess(p)
    PROVE  MemoryTypes'
<1>1. processes' = [processes EXCEPT ![p].alive = FALSE]
  BY DEF RemoveProcess
<1>2. processes' \in Seq(Process)
  BY <1>1, RemoveBecomes DEF Becomes, MemoryTypes
<1> QED BY <1>2 DEF MemoryTypes, RemoveProcess

\* Every step keeps the types.
LEMMA TypesKept ==
    ASSUME MemoryTypes, [Next]_vars
    PROVE  MemoryTypes'
<1>1. CASE UNCHANGED vars
  BY <1>1 DEF MemoryTypes, vars
<1>2. CASE NoMemory
  BY <1>2 DEF NoMemory, MemoryTypes
<1>3. CASE CreateProcess /\ ~NoMemory
  BY <1>3, CreateProcessTypes
<1>4. ASSUME NEW p \in DOMAIN processes, CreateThread(p), ~NoMemory
      PROVE  MemoryTypes'
  BY <1>4, CreateThreadTypes
<1>5. ASSUME NEW p \in DOMAIN processes, NEW k \in Spot,
             freeThreadPages(p, k) \/ TerminateThread(p, k)
      PROVE  MemoryTypes'
  BY <1>5, TerminateTypes
<1>6. ASSUME NEW p \in DOMAIN processes, RemoveProcess(p)
      PROVE  MemoryTypes'
  BY <1>6, RemoveTypes
<1>7. ASSUME NEW p \in DOMAIN processes, NEW size \in Sizes, Mallock(p, size),
             ~NoMemory
      PROVE  MemoryTypes'
  BY <1>7, MallockTypes
<1>8. CASE Kmalloc(20)
  BY <1>8 DEF Kmalloc, MemoryTypes
<1>9. CASE getCurrentProcesses /\ ~NoMemory
  BY <1>9, ListTypes
<1> QED BY <1>1, <1>2, <1>3, <1>4, <1>5, <1>6, <1>7, <1>8, <1>9 DEF Next

\* No thread gives back more than its three pieces.
FreedType == freed \in [1..MaxProcesses -> [Spot -> 0..3]]

LEMMA FreedKept ==
    ASSUME FreedType, [Next]_vars
    PROVE  FreedType'
<1>1. ASSUME NEW p \in DOMAIN processes, NEW k \in Spot, freeThreadPages(p, k)
      PROVE  FreedType'
  <2>1. freed' = [freed EXCEPT ![p] = [freed[p] EXCEPT ![k] = freed[p][k] + 1]]
        /\ freed[p][k] < 3
    BY <1>1 DEF freeThreadPages
  <2>2. CASE p \in 1..MaxProcesses
    <3>1. freed[p] \in [Spot -> 0..3] /\ freed[p][k] + 1 \in 0..3
      BY <2>1, <2>2 DEF FreedType
    <3>2. [freed[p] EXCEPT ![k] = freed[p][k] + 1] \in [Spot -> 0..3]
      BY <3>1
    <3> QED BY <2>1, <3>2 DEF FreedType
  <2>3. CASE p \notin 1..MaxProcesses
    BY <2>1, <2>3 DEF FreedType
  <2> QED BY <2>2, <2>3
<1>2. ASSUME NEW p \in DOMAIN processes, NEW k \in Spot, TerminateThread(p, k)
      PROVE  FreedType'
  <2>1. freed' = [freed EXCEPT ![p] = [freed[p] EXCEPT ![k] = 0]]
    BY <1>2 DEF TerminateThread
  <2>2. CASE p \in 1..MaxProcesses
    <3>1. freed[p] \in [Spot -> 0..3]
      BY <2>2 DEF FreedType
    <3>2. [freed[p] EXCEPT ![k] = 0] \in [Spot -> 0..3]
      BY <3>1
    <3> QED BY <2>1, <3>2 DEF FreedType
  <2>3. CASE p \notin 1..MaxProcesses
    BY <2>1, <2>3 DEF FreedType
  <2> QED BY <2>2, <2>3
<1>3. ASSUME freed' = freed PROVE FreedType'
  BY <1>3 DEF FreedType
<1>4. ASSUME \/ UNCHANGED vars \/ CreateProcess \/ getCurrentProcesses \/ Kmalloc(20)
      PROVE  freed' = freed
  BY <1>4, Zenon DEF vars, CreateProcess, getCurrentProcesses, Kmalloc, NoMemory
<1>5. ASSUME NEW p, CreateThread(p) \/ RemoveProcess(p) PROVE freed' = freed
  BY <1>5, Zenon DEF CreateThread, RemoveProcess, NoMemory
<1>6. ASSUME NEW p, NEW size, Mallock(p, size) PROVE freed' = freed
  BY <1>6, Zenon DEF Mallock, NoMemory
<1> QED BY <1>1, <1>2, <1>3, <1>4, <1>5, <1>6 DEF Next

\* They are more than the type invariant says.
LEMMA TypesImply == MemoryTypes /\ FreedType => TypeOK
<1> SUFFICES ASSUME MemoryTypes, FreedType PROVE TypeOK
  OBVIOUS
<1>1. ASSUME NEW p \in DOMAIN processes
      PROVE  /\ processes[p].info \in Node /\ processes[p].slot \in Node
             /\ processes[p].threads \in [Spot -> Thread \cup {NoThread}]
  <2>1. processes[p] \in Process
    BY DEF MemoryTypes
  <2> QED BY <2>1 DEF Process
<1>2. \A th \in Thread : \A f \in {"t", "user", "kernel"} : th[f] \in Node
  BY DEF Thread
<1>3. ASSUME NEW p \in DOMAIN processes, NEW k \in Spot
      PROVE  processes[p].threads[k] = NoThread
                \/ \A f \in {"t", "user", "kernel"} :
                      processes[p].threads[k][f] \in Node
  <2>1. processes[p].threads[k] \in Thread \cup {NoThread}
    BY <1>1
  <2> QED BY <1>2, <2>1
<1> QED BY <1>1, <1>3 DEF TypeOK, MemoryTypes, FreedType

\* They hold at the start.
LEMMA TypesAtStart == Init => MemoryTypes
BY DEF Init, MemoryTypes, Mark

LEMMA FreedAtStart == Init => FreedType
BY DEF Init, FreedType

\* The type invariant, for a memory of any size, processes with any number of
\* threads and requests of any size: every thread that process.c and threads.c
\* have in their arrays consists of three nodes of the allocator's tree, also
\* after threads have ended with pages that were not theirs.
THEOREM MemoryTypeCorrect == Spec => []TypeOK
<1>1. Spec => []MemoryTypes
  BY TypesAtStart, TypesKept, PTL DEF Spec
<1>2. Spec => []FreedType
  BY FreedAtStart, FreedKept, PTL DEF Spec
<1> QED BY <1>1, <1>2, TypesImply, PTL

-----------------------------------------------------------------------------
(***************************************************************************)
(* The pages stay apart and the heaps tiled, until a thread ends: marks    *)
(* that protect what processes have are the inductive invariant.           *)
(***************************************************************************)
HeapsTiled ==
    \A p \in DOMAIN processes : Tiled(processes[p].heap, processes[p].runs)

Apart == Safe(occupied, Owned(processes)) /\ HeapsTiled

\* The pages of a new thread are safe beside what was safe.
LEMMA AfterSafe ==
    ASSUME NEW occ, NEW X, Safe(occ, X), NEW p, NEW k,
           After1(occ).node # NULL, After2(occ).node # NULL, After3(occ).node # NULL
    PROVE  Safe(After3(occ).occ,
                X \cup {<<p, <<"t", k, After1(occ).node>>>>,
                        <<p, <<"user", k, After2(occ).node>>>>,
                        <<p, <<"kernel", k, After3(occ).node>>>>})
<1> DEFINE x == <<p, <<"t", k, After1(occ).node>>>>
           y == <<p, <<"user", k, After2(occ).node>>>>
           z == <<p, <<"kernel", k, After3(occ).node>>>>
<1>1. Safe(After1(occ).occ, X \cup {x})
  BY SafeMore DEF After1
<1>2. Safe(After2(occ).occ, (X \cup {x}) \cup {y})
  <2> HIDE DEF x
  <2> QED BY <1>1, SafeMore DEF After2
<1>3. Safe(After3(occ).occ, ((X \cup {x}) \cup {y}) \cup {z})
  <2> HIDE DEF x, y
  <2> QED BY <1>2, SafeMore DEF After3
<1> HIDE DEF x, y, z
<1>4. X \cup {x, y, z} \subseteq ((X \cup {x}) \cup {y}) \cup {z}
  OBVIOUS
<1>5. Safe(After3(occ).occ, X \cup {x, y, z})
  BY <1>3, <1>4, SafeLess
<1> QED BY <1>5 DEF x, y, z

\* What is in the three fields of a thread.
LEMMA ThreadFieldsAre ==
    ASSUME NEW a, NEW b, NEW c, NEW k
    PROVE  LET th == [t |-> a, user |-> b, kernel |-> c] IN
           { <<f, k, th[f]>> : f \in ThreadFields }
             \subseteq {<<"t", k, a>>, <<"user", k, b>>, <<"kernel", k, c>>}
BY DEF ThreadFields

\* createProcess takes pages that nobody has.
LEMMA CreateProcessSafe ==
    ASSUME MemoryTypes, Apart, CreateProcess, ~NoMemory
    PROVE  Apart'
<1> DEFINE occ == After1(occupied).occ
           a == After1(occupied).node
           b == After1(occ).node
           c == After2(occ).node
           d == After3(occ).node
           e == ProcessPages.node
           th == [t |-> b, user |-> c, kernel |-> d]
           ths == [k \in Spot |-> IF k = 0 THEN th ELSE NoThread]
           q == [alive |-> TRUE, info |-> a, slot |-> e, threads |-> ths,
                 heap |-> <<>>, runs |-> <<>>]
           n == Len(processes) + 1
           X == Owned(processes)
           Z == {<<n, <<"info", 0, a>>>>, <<n, <<"t", 0, b>>>>, <<n, <<"user", 0, c>>>>,
                 <<n, <<"kernel", 0, d>>>>, <<n, <<"slot", 0, e>>>>}
<1>1. /\ a # NULL /\ b # NULL /\ c # NULL /\ d # NULL /\ e # NULL
      /\ occupied' = ProcessPages.occ
      /\ processes' = Append(processes, q)
  BY CreateProcessDoes
<1>2. processes \in Seq(Process) /\ processes' \in Seq(Process)
  BY CreateProcessTypes DEF MemoryTypes
<1>3. Safe(ProcessPages.occ, X \cup Z)
  <2> DEFINE x1 == <<n, <<"info", 0, a>>>>
             x2 == <<n, <<"t", 0, b>>>>
             x3 == <<n, <<"user", 0, c>>>>
             x4 == <<n, <<"kernel", 0, d>>>>
             x5 == <<n, <<"slot", 0, e>>>>
  <2>1. Safe(occ, X \cup {x1})
    BY <1>1, SafeMore DEF Apart, After1
  <2> HIDE DEF x1, X, n, occ
  <2>2. Safe(After3(occ).occ, (X \cup {x1}) \cup {x2, x3, x4})
    BY <1>1, <2>1, AfterSafe
  <2>3. ProcessPages = allocPage(After3(occ).occ, 1)
    BY DEF ProcessPages, After1, occ
  <2> HIDE DEF x2, x3, x4
  <2>4. Safe(ProcessPages.occ, ((X \cup {x1}) \cup {x2, x3, x4}) \cup {x5})
    BY <1>1, <2>2, <2>3, SafeMore
  <2> HIDE DEF x5
  <2>5. Z = {x1, x2, x3, x4, x5}
    BY Zenon DEF x1, x2, x3, x4, x5
  <2> HIDE DEF Z
  <2>6. X \cup Z \subseteq ((X \cup {x1}) \cup {x2, x3, x4}) \cup {x5}
    BY <2>5
  <2> QED BY <2>4, <2>6, SafeLess
<1>4. q.info = a /\ q.slot = e /\ q.threads = ths /\ q.heap = <<>> /\ q.runs = <<>>
  OBVIOUS
<1>5. PiecesOfThreads(ths) \subseteq {<<"t", 0, b>>, <<"user", 0, c>>, <<"kernel", 0, d>>}
  <2>1. { <<f, 0, th[f]>> : f \in ThreadFields }
          \subseteq {<<"t", 0, b>>, <<"user", 0, c>>, <<"kernel", 0, d>>}
    BY ThreadFieldsAre
  <2> HIDE DEF th, b, c, d
  <2>2. \A k \in Spot : ths[k] = IF k = 0 THEN th ELSE NoThread
    OBVIOUS
  <2> HIDE DEF ths
  <2>3. \A x \in PiecesOfThreads(ths) : \E f \in ThreadFields : x = <<f, 0, th[f]>>
    BY <2>2 DEF PiecesOfThreads
  <2> QED BY <2>1, <2>3
<1> HIDE DEF a, b, c, d, e, ths, q
<1>6. \A x \in PiecesOf(q) : <<n, x>> \in Z
  <2>1. PiecesOfHeap(<<>>) = {}
    BY DEF PiecesOfHeap
  <2>2. PiecesOf(q) = {<<"info", 0, a>>, <<"slot", 0, e>>}
                      \cup PiecesOfThreads(ths) \cup PiecesOfHeap(<<>>)
    BY <1>4 DEF PiecesOf
  <2> HIDE DEF n
  <2> QED BY <1>5, <2>1, <2>2
<1>7. DOMAIN processes' = 1..n /\ processes'[n] = q
      /\ \A p \in DOMAIN processes : processes'[p] = processes[p]
      /\ DOMAIN processes = 1..(n - 1) /\ n \in Nat
  <2>1. q \in Process
    <3>1. Len(processes') = n /\ n \in 1..n /\ processes'[n] = q
      BY <1>1, <1>2
    <3> QED BY <1>2, <3>1
  <2> QED BY <1>1, <1>2, <2>1
<1>8. q \in Process
  BY <1>2, <1>7
<1> HIDE DEF Z
<1>9. Owned(processes') \subseteq X \cup Z
  BY <1>1, <1>2, <1>6, <1>8, OwnedAppended
<1>10. Safe(occupied', Owned(processes'))
  BY <1>1, <1>3, <1>9, SafeLess
<1>11. Tiled(q.heap, q.runs)
  BY <1>4 DEF Tiled
<1>12. HeapsTiled'
  <2>1. ASSUME NEW p \in 1..n PROVE Tiled(processes'[p].heap, processes'[p].runs)
    <3>1. CASE p = n
      BY <1>7, <1>11, <3>1
    <3>2. CASE p # n
      <4>1. p \in DOMAIN processes
        BY <1>7, <3>2
      <4> QED BY <1>7, <4>1 DEF Apart, HeapsTiled
    <3> QED BY <3>1, <3>2
  <2> QED BY <1>7, <2>1 DEF HeapsTiled
<1> QED BY <1>10, <1>12 DEF Apart

\* createThread takes pages that nobody has, also when it then loses them.
LEMMA CreateThreadSafe ==
    ASSUME MemoryTypes, Apart, NEW p \in DOMAIN processes, CreateThread(p), ~NoMemory
    PROVE  Apart'
<1> DEFINE a == After1(occupied).node
           b == After2(occupied).node
           c == After3(occupied).node
           th == [t |-> a, user |-> b, kernel |-> c]
           X == Owned(processes)
           Z(k) == {<<p, <<"t", k, a>>>>, <<p, <<"user", k, b>>>>, <<p, <<"kernel", k, c>>>>}
<1>1. /\ a # NULL /\ b # NULL /\ c # NULL
      /\ occupied' = After3(occupied).occ
      /\ \/ processes' = processes
         \/ \E k \in Spot : /\ processes[p].threads[k] = NoThread
                            /\ processes' = [processes EXCEPT ![p].threads[k] = th]
  BY CreateThreadDoes
<1>2. processes \in Seq(Process) /\ occupied \in [Node -> Mark]
  BY DEF MemoryTypes
<1>3. a \in Node /\ b \in Node /\ c \in Node
  BY <1>1, <1>2, AfterTypes
<1>4. \A k : Safe(occupied', X \cup Z(k))
  BY <1>1, AfterSafe DEF Apart
<1>5. \A k : { <<f, k, th[f]>> : f \in ThreadFields }
               \subseteq {<<"t", k, a>>, <<"user", k, b>>, <<"kernel", k, c>>}
  BY ThreadFieldsAre
<1> HIDE DEF a, b, c
<1>6. th \in Thread
  BY <1>3 DEF Thread
<1> HIDE DEF th
<1>7. CASE processes' = processes
  <2>1. X \subseteq X \cup Z(0)
    OBVIOUS
  <2>2. Safe(occupied', X)
    BY <1>4, <2>1, SafeLess
  <2> QED BY <1>7, <2>2 DEF Apart, HeapsTiled
<1>8. ASSUME NEW k \in Spot, processes' = [processes EXCEPT ![p].threads[k] = th]
      PROVE  Apart'
  <2>1. PICK d : /\ Becomes(p, d)
                 /\ d.info = processes[p].info /\ d.slot = processes[p].slot
                 /\ d.threads = [processes[p].threads EXCEPT ![k] = th]
                 /\ d.heap = processes[p].heap /\ d.runs = processes[p].runs
    <3>1. th \in Thread \cup {NoThread}
      BY <1>6
    <3> QED BY <1>2, <1>8, <3>1, ThreadBecomes, Zenon
  <2>2. processes[p].threads = [o \in Spot |-> processes[p].threads[o]]
    <3>1. processes[p] \in Process
      BY <1>2
    <3>2. processes[p].threads \in [Spot -> Thread \cup {NoThread}]
      BY <3>1 DEF Process
    <3> QED BY <3>2
  <2>3. PiecesOfThreads(d.threads)
          \subseteq PiecesOfThreads(processes[p].threads)
                    \cup { <<f, k, th[f]>> : f \in ThreadFields }
    BY <2>1, <2>2, PiecesOfThread
  <2>4. \A x \in PiecesOf(d) : x \in PiecesOf(processes[p]) \/ <<p, x>> \in Z(k)
    <3>1. { <<f, k, th[f]>> : f \in ThreadFields }
            \subseteq {<<"t", k, a>>, <<"user", k, b>>, <<"kernel", k, c>>}
      BY <1>5
    <3>2. PiecesOf(d) \subseteq PiecesOf(processes[p])
                    \cup { <<f, k, th[f]>> : f \in ThreadFields }
      BY <2>1, <2>3 DEF PiecesOf
    <3> QED BY <3>1, <3>2
  <2> HIDE DEF Z
  <2>5. Owned(processes') \subseteq X \cup Z(k)
    <3>1. processes' = [processes EXCEPT ![p] = d]
      BY <2>1 DEF Becomes
    <3> QED BY <2>4, <3>1, OwnedChanged
  <2>6. Safe(occupied', Owned(processes'))
    BY <1>4, <2>5, SafeLess
  <2>7. HeapsTiled'
    BY <2>1 DEF Becomes, HeapsTiled, Apart
  <2> QED BY <2>6, <2>7 DEF Apart
<1> QED BY <1>1, <1>7, <1>8

\* mallock takes pages that nobody has and keeps the heap tiled.
LEMMA MallockSafe ==
    ASSUME MemoryTypes, Apart, NEW p \in DOMAIN processes, NEW size \in Sizes,
           Mallock(p, size), ~NoMemory
    PROVE  Apart'
<1> DEFINE X == Owned(processes)
<1>1. size \in Nat \ {0} /\ processes \in Seq(Process)
  BY MemoryAssumption DEF MemoryTypes
<1>2. PICK h, i :
         /\ Found(p, h, i, size)
         /\ occupied' = h.occ
         /\ ChangesHeap(p, Grant(h.heap, i, size), h.runs)
  BY <1>1, MallockDoes
<1>3. /\ h.heap \in Seq(Block) /\ h.runs \in Seq(Run)
      /\ i \in DOMAIN h.heap /\ size <= h.heap[i].size
  BY <1>2 DEF Found, Good
<1>4. Grant(h.heap, i, size) \in Seq(Block)
  BY <1>1, <1>3, GrantWhole, GrantSplit
<1>5. SafeHeap(HeapOf(p), X, p)
  <2>1. With(X, p, processes[p].runs) \subseteq X
    BY DEF With, Owned, PiecesOf
  <2>2. Safe(occupied, With(X, p, processes[p].runs))
    BY <2>1, SafeLess DEF Apart
  <2>3. Tiled(processes[p].heap, processes[p].runs)
    BY DEF Apart, HeapsTiled
  <2>4. /\ HeapOf(p).occ = occupied /\ HeapOf(p).heap = processes[p].heap
        /\ HeapOf(p).runs = processes[p].runs
    BY DEF HeapOf
  <2> QED BY <2>2, <2>3, <2>4 DEF SafeHeap
<1>6. Safe(h.occ, With(X, p, h.runs)) /\ Tiled(h.heap, h.runs)
  BY <1>2, <1>5 DEF Found, SafeHeap
<1>7. Tiled(Grant(h.heap, i, size), h.runs)
  BY <1>1, <1>3, <1>6, TiledGrant
<1>8. PICK c : /\ Becomes(p, c)
               /\ c.info = processes[p].info /\ c.slot = processes[p].slot
               /\ c.threads = processes[p].threads
               /\ c.heap = Grant(h.heap, i, size) /\ c.runs = h.runs
  BY <1>1, <1>2, <1>3, <1>4, HeapBecomes
<1> DEFINE Z == { <<p, x>> : x \in PiecesOfHeap(h.runs) }
<1>9. \A x \in PiecesOf(c) : x \in PiecesOf(processes[p]) \/ <<p, x>> \in Z
  BY <1>8 DEF PiecesOf
<1>10. With(X, p, h.runs) = X \cup Z
  BY DEF With
<1> HIDE DEF Z, X
<1>11. Owned(processes') \subseteq X \cup Z
  <2>1. processes' = [processes EXCEPT ![p] = c]
    BY <1>8 DEF Becomes
  <2> QED BY <1>9, <2>1, OwnedChanged DEF X
<1>12. Safe(occupied', Owned(processes'))
  BY <1>2, <1>6, <1>10, <1>11, SafeLess
<1>13. HeapsTiled'
  BY <1>7, <1>8 DEF Becomes, HeapsTiled, Apart
<1> QED BY <1>12, <1>13 DEF Apart

\* removeProcess changes nothing about pages.
LEMMA RemoveSafe ==
    ASSUME MemoryTypes, Apart, NEW p \in DOMAIN processes, RemoveProcess(p)
    PROVE  Apart'
<1>1. /\ processes' = [processes EXCEPT ![p].alive = FALSE]
      /\ occupied' = occupied /\ processes \in Seq(Process)
  BY DEF RemoveProcess, MemoryTypes
<1>2. PICK c : /\ Becomes(p, c)
               /\ c.info = processes[p].info /\ c.slot = processes[p].slot
               /\ c.threads = processes[p].threads
               /\ c.heap = processes[p].heap /\ c.runs = processes[p].runs
  BY <1>1, RemoveBecomes, Zenon
<1>3. PiecesOf(c) = PiecesOf(processes[p])
  BY <1>2 DEF PiecesOf
<1>4. Owned(processes') \subseteq Owned(processes) \cup {}
  <2>1. processes' = [processes EXCEPT ![p] = c]
    BY <1>2 DEF Becomes
  <2>2. \A x \in PiecesOf(c) : x \in PiecesOf(processes[p]) \/ <<p, x>> \in {}
    BY <1>3
  <2> QED BY <2>1, <2>2, OwnedChanged
<1>5. Safe(occupied', Owned(processes'))
  <2>1. Owned(processes') \subseteq Owned(processes)
    BY <1>4
  <2> QED BY <1>1, <2>1, SafeLess DEF Apart
<1>6. HeapsTiled'
  BY <1>2 DEF Becomes, HeapsTiled, Apart
<1> QED BY <1>5, <1>6 DEF Apart

\* A thread taken out of the array leaves the others what they have.
LEMMA TerminateSafe ==
    ASSUME MemoryTypes, Apart, NEW p \in DOMAIN processes, NEW k \in Spot,
           TerminateThread(p, k)
    PROVE  Apart'
<1>1. /\ processes' = [processes EXCEPT ![p].threads[k] = NoThread]
      /\ occupied' = occupied /\ processes \in Seq(Process)
  BY DEF TerminateThread, MemoryTypes
<1>2. PICK c : /\ Becomes(p, c)
               /\ c.info = processes[p].info /\ c.slot = processes[p].slot
               /\ c.threads = [processes[p].threads EXCEPT ![k] = NoThread]
               /\ c.heap = processes[p].heap /\ c.runs = processes[p].runs
  <2>1. NoThread \in Thread \cup {NoThread}
    OBVIOUS
  <2> QED BY <1>1, <2>1, ThreadBecomes, Zenon
<1>3. PiecesOf(c) \subseteq PiecesOf(processes[p])
  <2>1. processes[p] \in Process
    BY <1>1
  <2>2. processes[p].threads \in [Spot -> Thread \cup {NoThread}]
    BY <2>1 DEF Process
  <2>3. \A o \in Spot : c.threads[o] # NoThread => c.threads[o] = processes[p].threads[o]
    BY <1>2, <2>2
  <2>4. PiecesOfThreads(c.threads) \subseteq PiecesOfThreads(processes[p].threads)
    BY <2>3 DEF PiecesOfThreads
  <2> QED BY <1>2, <2>4 DEF PiecesOf
<1>4. Owned(processes') \subseteq Owned(processes) \cup {}
  <2>1. processes' = [processes EXCEPT ![p] = c]
    BY <1>2 DEF Becomes
  <2>2. \A x \in PiecesOf(c) : x \in PiecesOf(processes[p]) \/ <<p, x>> \in {}
    BY <1>3
  <2> QED BY <2>1, <2>2, OwnedChanged
<1>5. Safe(occupied', Owned(processes'))
  <2>1. Owned(processes') \subseteq Owned(processes)
    BY <1>4
  <2> QED BY <1>1, <2>1, SafeLess DEF Apart
<1>6. HeapsTiled'
  BY <1>2 DEF Becomes, HeapsTiled, Apart
<1> QED BY <1>5, <1>6 DEF Apart

\* The pages of ps are nobody's, and no one else's.
LEMMA ListSafe ==
    ASSUME Apart, getCurrentProcesses, ~NoMemory
    PROVE  Apart'
<1> DEFINE X == Owned(processes)
<1>1. PICK pages : /\ allocPage(occupied, pages).node # NULL
                   /\ occupied' = allocPage(occupied, pages).occ
                   /\ processes' = processes
  BY DEF getCurrentProcesses
<1> DEFINE z == <<0, <<"ps", 0, allocPage(occupied, pages).node>>>>
<1>2. Safe(occupied', X \cup {z})
  BY <1>1, SafeMore DEF Apart
<1> HIDE DEF z, X
<1>3. Safe(occupied', X)
  BY <1>2, SafeLess
<1> QED BY <1>1, <1>3 DEF Apart, HeapsTiled, X

\* The inductive invariant.
MemoryInv == MemoryTypes /\ (threadEnded = "no" => Apart)

\* The invariant holds at the start.
LEMMA StartApart == Init => MemoryInv
<1> SUFFICES ASSUME Init PROVE MemoryInv
  OBVIOUS
<1>1. Owned(processes) = {} /\ HeapsTiled
  BY DEF Init, Owned, HeapsTiled
<1>2. occupied \in [Node -> Mark] /\ \A n \in Node : occupied[n] = "EMPTY"
  BY DEF Init, Mark
<1>3. Safe(occupied, {})
  BY <1>2 DEF Safe, HeldBy, Holds, MarksSound
<1> QED BY <1>1, <1>3, TypesAtStart DEF MemoryInv, Apart

\* Every step keeps the invariant.
LEMMA ApartKept ==
    ASSUME MemoryInv, [Next]_vars
    PROVE  MemoryInv'
<1>1. MemoryTypes /\ MemoryTypes'
  BY TypesKept DEF MemoryInv
<1> SUFFICES ASSUME threadEnded' = "no" PROVE Apart'
  BY <1>1 DEF MemoryInv
<1>2. ASSUME threadEnded' = threadEnded PROVE Apart
  BY <1>2 DEF MemoryInv
<1>3. CASE UNCHANGED vars
  BY <1>2, <1>3 DEF vars, Apart, HeapsTiled
<1>4. CASE NoMemory
  BY <1>2, <1>4 DEF NoMemory, Apart, HeapsTiled
<1>5. CASE CreateProcess /\ ~NoMemory
  <2>1. threadEnded' = threadEnded
    BY <1>1, <1>5, CreateProcessDoes
  <2> QED BY <1>1, <1>2, <1>5, <2>1, CreateProcessSafe
<1>6. ASSUME NEW p \in DOMAIN processes, CreateThread(p), ~NoMemory
      PROVE  Apart'
  <2>1. threadEnded' = threadEnded
    BY <1>1, <1>6, CreateThreadDoes
  <2> QED BY <1>1, <1>2, <1>6, <2>1, CreateThreadSafe
<1>7. ASSUME NEW p \in DOMAIN processes, NEW k \in Spot, freeThreadPages(p, k)
      PROVE  FALSE
  BY <1>7 DEF freeThreadPages
<1>11. ASSUME NEW p \in DOMAIN processes, NEW k \in Spot, TerminateThread(p, k)
      PROVE  Apart'
  <2>1. threadEnded' = threadEnded
    BY <1>11 DEF TerminateThread
  <2> QED BY <1>1, <1>2, <1>11, <2>1, TerminateSafe
<1>12. CASE getCurrentProcesses /\ ~NoMemory
  <2>1. threadEnded' = threadEnded
    BY <1>12 DEF getCurrentProcesses
  <2> QED BY <1>2, <1>12, <2>1, ListSafe
<1>8. ASSUME NEW p \in DOMAIN processes, RemoveProcess(p)
      PROVE  Apart'
  <2>1. threadEnded' = threadEnded
    BY <1>8 DEF RemoveProcess
  <2> QED BY <1>1, <1>2, <1>8, <2>1, RemoveSafe
<1>9. ASSUME NEW p \in DOMAIN processes, NEW size \in Sizes, Mallock(p, size),
             ~NoMemory
      PROVE  Apart'
  <2>1. size \in Nat \ {0}
    BY MemoryAssumption
  <2>2. threadEnded' = threadEnded
    BY <1>1, <1>9, <2>1, MallockDoes
  <2> QED BY <1>1, <1>2, <1>9, <2>2, MallockSafe
<1>10. CASE Kmalloc(20)
  BY <1>2, <1>10 DEF Kmalloc, Apart, HeapsTiled
<1> QED BY <1>3, <1>4, <1>5, <1>6, <1>7, <1>8, <1>9, <1>10, <1>11, <1>12 DEF Next

\* The invariant always holds.
LEMMA MemoryInvariance == Spec => []MemoryInv
BY StartApart, ApartKept, PTL DEF Spec

\* No page is part of two things: whatever process.c, threads.c and malloc.c
\* take from the allocator, in any order, for any size of the memory and any
\* requests, until a thread ends and gives back a page that is not its own.
THEOREM PagesAreApart == Spec => []NoOverlap
<1>1. MemoryInv => NoOverlap
  <2> SUFFICES ASSUME MemoryInv, threadEnded = "no",
                      NEW p \in Alive, NEW q \in Alive,
                      NEW a \in PiecesOf(processes[p]), NEW b \in PiecesOf(processes[q]),
                      <<p, a>> # <<q, b>>
               PROVE  PagesOf[a[3]] \cap PagesOf[b[3]] = {}
    BY DEF NoOverlap
  <2>1. <<p, a>> \in Owned(processes) /\ <<q, b>> \in Owned(processes)
    BY DEF Owned, Alive
  <2>2. Safe(occupied, Owned(processes))
    BY DEF MemoryInv, Apart
  <2>3. \A x, y \in Owned(processes) :
           x # y => PagesOf[x[2][3]] \cap PagesOf[y[2][3]] = {}
    BY <2>2 DEF Safe, Disjoint
  <2> QED BY <2>1, <2>3
<1> QED BY <1>1, MemoryInvariance, PTL

\* The blocks of each heap, with their headers, tile the pages malloc.c has
\* extended it by, byte for byte, and each is as large as what was asked for:
\* after any sequence of requests of any sizes, until a thread ends.
THEOREM HeapsAreTiled == Spec => []HeapTiled
<1>1. MemoryInv => HeapTiled
  <2> SUFFICES ASSUME MemoryInv, threadEnded = "no" PROVE HeapTiled
    BY DEF HeapTiled
  <2>1. ASSUME NEW p \in DOMAIN processes
        PROVE  LET heap == processes[p].heap
                   runs == processes[p].runs
               IN  /\ \A i \in DOMAIN heap : heap[i].asked <= heap[i].size
                   /\ \A i, j \in DOMAIN heap :
                         i # j => Extent(heap[i]) \cap Extent(heap[j]) = {}
                   /\ UNION { Extent(heap[i]) : i \in DOMAIN heap }
                        = UNION { Bytes(runs[r]) : r \in DOMAIN runs }
    <3> DEFINE heap == processes[p].heap
               runs == processes[p].runs
    <3>1. Tiled(heap, runs)
      BY DEF MemoryInv, Apart, HeapsTiled
    <3> HIDE DEF heap, runs
    <3>2. \A i \in DOMAIN heap : heap[i].asked <= heap[i].size
      BY <3>1 DEF Tiled
    <3>3. \A i, j \in DOMAIN heap : i # j => Extent(heap[i]) \cap Extent(heap[j]) = {}
      BY <3>1 DEF Tiled
    <3>4. UNION { Extent(heap[i]) : i \in DOMAIN heap }
            = UNION { Bytes(runs[r]) : r \in DOMAIN runs }
      BY <3>1 DEF Tiled
    <3> QED BY <3>2, <3>3, <3>4 DEF heap, runs
  <2>2. ASSUME NEW p \in DOMAIN processes
        PROVE  LET runs == processes[p].runs
                   bytes == [r \in DOMAIN runs |->
                               LET from == FirstPage(runs[r].node) * PAGE_SIZE
                               IN  from .. (from + runs[r].pages * PAGE_SIZE - 1)]
               IN  UNION { Bytes(runs[r]) : r \in DOMAIN runs }
                     = UNION { bytes[r] : r \in DOMAIN runs }
    BY DEF Bytes
  <2> QED BY <2>1, <2>2 DEF HeapTiled
<1> QED BY <1>1, MemoryInvariance, PTL

=============================================================================
