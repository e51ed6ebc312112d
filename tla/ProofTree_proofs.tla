-------------------------- MODULE ProofTree_proofs --------------------------
(***************************************************************************)
(* What the operators of ProofTree compute, for every number of leaves:    *)
(* AddLeaf makes the right tree of n leaves the right tree of n + 1, the   *)
(* parked nodes are what the next label commits to, RecoveredTree gives    *)
(* the right tree back from its layer files, and the proof made from a     *)
(* right tree passes Validate.                                             *)
(***************************************************************************)
EXTENDS ProofTree, FiniteSetTheorems, SequenceTheorems, WellFoundedInduction, TLAPS

(* Every set of numbers has a least one. *)
LEMMA Least ==
  ASSUME NEW T, T \subseteq Nat, T # {}
  PROVE  \E m \in T : \A k \in T : m <= k
<1>1. PICK x \in T : \A y \in T : ~ (<<y, x>> \in OpToRel(<, Nat))
  BY NatLessThanWellFounded, WFMin, Zenon
<1>2. \A y \in T : ~(y < x)
  BY <1>1, Zenon DEF OpToRel
<1>. QED
  BY <1>2

(* Induction, over a set of numbers. *)
LEMMA Induction ==
  ASSUME NEW P, 0 \in P, \A n \in Nat : n \in P => n + 1 \in P
  PROVE  Nat \subseteq P
<1>. SUFFICES ASSUME Nat \ P # {} PROVE FALSE
  OBVIOUS
<1>1. PICK m \in Nat \ P : \A k \in Nat \ P : m <= k
  BY Least, Zenon
<1>2. m # 0 /\ m - 1 \in Nat /\ m - 1 \in P
  BY <1>1
<1>. QED
  BY <1>2

(* Functions defined by their first value a and each value from the one    *)
(* before, by G: on 0 .. k, and on all of Nat.                             *)
Begins(f, k, S, a, G) ==
  f \in [0 .. k -> S] /\ f[0] = a /\ \A i \in 0 .. k - 1 : f[i + 1] = G[<<i, f[i]>>]

Follows(f, S, a, G) ==
  f \in [Nat -> S] /\ f[0] = a /\ \A i \in Nat : f[i + 1] = G[<<i, f[i]>>]

(* G stays in S. *)
Maps(G, S) == \A i \in Nat, x \in S : G[<<i, x>>] \in S

(* Two such functions agree where both are defined ... *)
LEMMA BeginsUnique ==
  ASSUME NEW S, NEW a, NEW G, NEW k \in Nat, NEW m \in Nat, NEW f, NEW g,
         Begins(f, k, S, a, G), Begins(g, m, S, a, G)
  PROVE  \A i \in Nat : i <= k /\ i <= m => f[i] = g[i]
<1>. DEFINE P == {i \in Nat : i <= k /\ i <= m => f[i] = g[i]}
<1>1. 0 \in P
  BY DEF Begins
<1>2. ASSUME NEW i \in Nat, i \in P PROVE i + 1 \in P
  <2>. SUFFICES ASSUME i + 1 <= k, i + 1 <= m PROVE f[i + 1] = g[i + 1]
    OBVIOUS
  <2>1. f[i] = g[i] /\ i \in 0 .. k - 1 /\ i \in 0 .. m - 1
    BY <1>2
  <2>. QED
    BY <2>1, Zenon DEF Begins
<1>. HIDE DEF P
<1>3. Nat \subseteq P
  BY <1>1, <1>2, Induction
<1>. QED
  BY <1>3 DEF P

(* ... there is one for every k ... *)
LEMMA BeginsExists ==
  ASSUME NEW S, NEW a \in S, NEW G, Maps(G, S)
  PROVE  \A k \in Nat : \E f : Begins(f, k, S, a, G)
<1>. DEFINE P == {k \in Nat : \E f : Begins(f, k, S, a, G)}
<1>1. 0 \in P
  <2>. DEFINE f == [i \in 0 .. 0 |-> a]
  <2>1. Begins(f, 0, S, a, G)
    BY DEF Begins
  <2>. QED
    BY <2>1
<1>2. ASSUME NEW k \in Nat, k \in P PROVE k + 1 \in P
  <2>1. PICK f : Begins(f, k, S, a, G)
    BY <1>2
  <2>. DEFINE next == G[<<k, f[k]>>]
              g == [i \in 0 .. k + 1 |-> IF i = k + 1 THEN next ELSE f[i]]
  <2>0. next \in S
    BY <2>1 DEF Begins, Maps
  <2>. HIDE DEF next
  <2>2. g \in [0 .. k + 1 -> S]
    BY <2>0, <2>1 DEF Begins
  <2>3. g[0] = a
    BY <2>1 DEF Begins
  <2>4. ASSUME NEW i \in 0 .. k PROVE g[i + 1] = G[<<i, g[i]>>]
    <3>1. CASE i = k
      <4>1. g[k + 1] = next /\ g[k] = f[k]
        OBVIOUS
      <4>. QED
        BY <3>1, <4>1, Zenon DEF next
    <3>2. CASE i \in 0 .. k - 1
      BY <2>1, <3>2 DEF Begins
    <3>. QED
      BY <3>1, <3>2
  <2>. HIDE DEF g
  <2>5. Begins(g, k + 1, S, a, G)
    BY <2>2, <2>3, <2>4 DEF Begins
  <2>. QED
    BY <2>5
<1>. HIDE DEF P
<1>3. Nat \subseteq P
  BY <1>1, <1>2, Induction
<1>. QED
  BY <1>3 DEF P

(* ... and therefore one for Nat. *)
LEMMA Recursion ==
  ASSUME NEW S, NEW a \in S, NEW G, Maps(G, S)
  PROVE  \E f : Follows(f, S, a, G)
<1>. DEFINE g(k) == CHOOSE h : Begins(h, k, S, a, G)
            f == [k \in Nat |-> g(k)[k]]
<1>1. \A k \in Nat : Begins(g(k), k, S, a, G)
  BY BeginsExists
<1>. HIDE DEF g
<1>2. f \in [Nat -> S] /\ f[0] = a
  BY <1>1 DEF Begins
<1>3. ASSUME NEW i \in Nat PROVE f[i + 1] = G[<<i, f[i]>>]
  <2>1. g(i)[i] = g(i + 1)[i]
    BY <1>1, BeginsUnique
  <2>2. g(i + 1)[i + 1] = G[<<i, g(i + 1)[i]>>]
    BY <1>1 DEF Begins
  <2>. QED
    BY <2>1, <2>2
<1>. QED
  BY <1>2, <1>3, Zenon DEF Follows

------------------------------------------------------------------------------
(* Widths of layers *)

(* n >> 0 is n, and every further shift halves. *)
LEMMA ShiftSteps ==
  ASSUME NEW n \in Nat
  PROVE  /\ Shift(n, 0) = n
         /\ \A l \in Nat : Shift(n, l) \in Nat /\ Shift(n, l + 1) = Shift(n, l) \div 2
<1>. DEFINE G == [p \in Nat \X Nat |-> p[2] \div 2]
            Halves(f) == f = [l \in Nat |-> IF l = 0 THEN n ELSE f[l - 1] \div 2]
            h == CHOOSE f : Halves(f)
<1>0. \A x \in Nat : x \div 2 \in Nat
  OBVIOUS
<1>1. \A i \in Nat, x \in Nat : G[<<i, x>>] = x \div 2 /\ G[<<i, x>>] \in Nat
  BY <1>0, Zenon
<1>. HIDE DEF G
<1>2. PICK f : Follows(f, Nat, n, G)
  <2>1. Maps(G, Nat)
    BY <1>1, Zenon DEF Maps
  <2>. QED
    BY <2>1, Recursion, Zenon
<1>3. \A l \in Nat : f[l] = IF l = 0 THEN n ELSE f[l - 1] \div 2
  <2>. SUFFICES ASSUME NEW l \in Nat, l # 0 PROVE f[l] = f[l - 1] \div 2
    BY <1>2 DEF Follows
  <2>1. l - 1 \in Nat /\ (l - 1) + 1 = l
    OBVIOUS
  <2>. QED
    BY <1>1, <1>2, <2>1, Zenon DEF Follows
<1>4. Halves(f)
  BY <1>2, <1>3 DEF Follows
<1>5. Halves(h)
  BY <1>4
<1>6. \A l \in Nat : Shift(n, l) = h[l]
  BY DEF Shift
<1>. HIDE DEF h
<1>7. h[0] = n /\ \A l \in Nat : h[l + 1] = h[l] \div 2
  BY <1>5
<1>. DEFINE P == {l \in Nat : h[l] \in Nat}
<1>8. 0 \in P /\ \A l \in Nat : l \in P => l + 1 \in P
  BY <1>7
<1>. HIDE DEF P
<1>9. Nat \subseteq P
  BY <1>8, Induction
<1>. QED
  BY <1>6, <1>7, <1>9 DEF P

(* A shift of a shift is one shift. *)
LEMMA ShiftShift ==
  ASSUME NEW n \in Nat, NEW l \in Nat
  PROVE  \A k \in Nat : Shift(Shift(n, l), k) = Shift(n, l + k)
<1>. DEFINE P == {k \in Nat : Shift(Shift(n, l), k) = Shift(n, l + k)}
<1>0. Shift(n, l) \in Nat
  BY ShiftSteps
<1>1. 0 \in P
  BY <1>0, ShiftSteps
<1>2. ASSUME NEW k \in Nat, k \in P PROVE k + 1 \in P
  <2>1. Shift(Shift(n, l), k + 1) = Shift(Shift(n, l), k) \div 2
    BY <1>0, ShiftSteps
  <2>2. Shift(n, (l + k) + 1) = Shift(n, l + k) \div 2
    BY ShiftSteps
  <2>3. (l + k) + 1 = l + (k + 1)
    OBVIOUS
  <2>. QED
    BY <1>2, <2>1, <2>2, <2>3
<1>. HIDE DEF P
<1>3. Nat \subseteq P
  BY <1>1, <1>2, Induction, Zenon
<1>. QED
  BY <1>3 DEF P

(* Shifting keeps the order. *)
LEMMA ShiftMonotone ==
  ASSUME NEW m \in Nat, NEW n \in Nat, m <= n
  PROVE  \A l \in Nat : Shift(m, l) <= Shift(n, l)
<1>. DEFINE P == {l \in Nat : Shift(m, l) <= Shift(n, l)}
<1>1. 0 \in P
  BY ShiftSteps
<1>2. ASSUME NEW l \in Nat, l \in P PROVE l + 1 \in P
  <2>1. /\ Shift(m, l) \in Nat /\ Shift(m, l + 1) = Shift(m, l) \div 2
        /\ Shift(n, l) \in Nat /\ Shift(n, l + 1) = Shift(n, l) \div 2
    BY ShiftSteps, Zenon
  <2>. QED
    BY <1>2, <2>1
<1>. HIDE DEF P
<1>3. Nat \subseteq P
  BY <1>1, <1>2, Induction, Zenon
<1>. QED
  BY <1>3 DEF P

(* Once everything is shifted out nothing comes back. *)
LEMMA ShiftZero ==
  ASSUME NEW n \in Nat, NEW l \in Nat, Shift(n, l) = 0
  PROVE  \A k \in Nat : k >= l => Shift(n, k) = 0
<1>. DEFINE P == {k \in Nat : Shift(0, k) = 0}
<1>1. 0 \in P
  BY ShiftSteps
<1>2. ASSUME NEW k \in Nat, k \in P PROVE k + 1 \in P
  <2>1. Shift(0, k + 1) = Shift(0, k) \div 2
    BY ShiftSteps
  <2>. QED
    BY <1>2, <2>1
<1>. HIDE DEF P
<1>3. Nat \subseteq P
  BY <1>1, <1>2, Induction, Zenon
<1>4. ASSUME NEW k \in Nat, k >= l PROVE Shift(n, k) = 0
  <2>1. k - l \in Nat /\ l + (k - l) = k
    BY <1>4
  <2>2. Shift(Shift(n, l), k - l) = Shift(n, l + (k - l))
    BY <2>1, ShiftShift, Zenon
  <2>3. Shift(0, k - l) = 0
    BY <1>3, <2>1 DEF P
  <2>. QED
    BY <2>1, <2>2, <2>3, Zenon
<1>. QED
  BY <1>4

(* A number is shifted out after as many steps as it counts, at most. *)
LEMMA ShiftOut ==
  ASSUME NEW n \in Nat
  PROVE  \A l \in Nat : Shift(n, l) <= n /\ (l >= n => Shift(n, l) = 0)
<1>. DEFINE P == {l \in Nat : Shift(n, l) = 0 \/ Shift(n, l) + l <= n}
<1>0. \A l \in Nat : Shift(n, l) \in Nat
  BY ShiftSteps
<1>1. 0 \in P
  BY ShiftSteps
<1>2. ASSUME NEW l \in Nat, l \in P PROVE l + 1 \in P
  <2>1. Shift(n, l) \in Nat /\ Shift(n, l + 1) = Shift(n, l) \div 2
    BY ShiftSteps
  <2>. QED
    BY <1>2, <2>1
<1>. HIDE DEF P
<1>3. Nat \subseteq P
  BY <1>1, <1>2, Induction, Zenon
<1>. QED
  BY <1>0, <1>3 DEF P

(* The lowest l bits of n are set. *)
Ones(n, l) == \A j \in 0 .. l - 1 : Shift(n, j) % 2 = 1

(* One more leaf is one more node of every layer up to the first in which  *)
(* no node is waiting.                                                     *)
LEMMA ShiftNext ==
  ASSUME NEW n \in Nat
  PROVE  \A l \in Nat : Shift(n + 1, l) = IF Ones(n, l) THEN Shift(n, l) + 1 ELSE Shift(n, l)
<1>. DEFINE P == {l \in Nat : Shift(n + 1, l) = IF Ones(n, l) THEN Shift(n, l) + 1 ELSE Shift(n, l)}
<1>1. 0 \in P
  <2>1. Ones(n, 0)
    BY DEF Ones
  <2>. QED
    BY <2>1, ShiftSteps
<1>2. ASSUME NEW l \in Nat, l \in P PROVE l + 1 \in P
  <2>1. /\ Shift(n, l) \in Nat /\ Shift(n, l + 1) = Shift(n, l) \div 2
        /\ Shift(n + 1, l + 1) = Shift(n + 1, l) \div 2
    <3>1. n + 1 \in Nat
      OBVIOUS
    <3>. QED
      BY <3>1, ShiftSteps, Zenon
  <2>2. Ones(n, l + 1) <=> Ones(n, l) /\ Shift(n, l) % 2 = 1
    BY DEF Ones
  <2>. QED
    BY <1>2, <2>1, <2>2
<1>. HIDE DEF P
<1>3. Nat \subseteq P
  BY <1>1, <1>2, Induction, Zenon
<1>. QED
  BY <1>3 DEF P

------------------------------------------------------------------------------
(* The right tree *)

(* The node number i of layer l. *)
Node(l, i) == <<l, i>>

(* The first width nodes of a layer. *)
Row(layer, width) == [i \in 1 .. width |-> Node(layer, i - 1)]

(* The nodes that wait for their right siblings after n leaves of layer    *)
(* base, for the lowest k layers from base on.                             *)
Waiting(base, n, k) ==
  [i \in 1 .. k |-> IF Shift(n, i - 1) % 2 = 1 THEN Node(base + (i - 1), Shift(n, i - 1) - 1)
                    ELSE None]

(* The right tree above layer base after n of its nodes, with k places for *)
(* parked nodes and the layers D cached.                                   *)
RightTree(base, n, k, D, all) ==
  [parked |-> Waiting(base, n, k),
   layers |-> [l \in D |-> Row(base + l, Shift(n, l))],
   allLayers |-> all]

(* There is a place for every parked node, layer 0 is cached, and a tree   *)
(* that caches all layers has a cache for every place.                     *)
RightShape(n, k, D, all) ==
  /\ k \in Nat \ {0}
  /\ D \subseteq Nat
  /\ 0 \in D
  /\ all \in BOOLEAN
  /\ Shift(n, k) = 0
  /\ all => D = 0 .. k - 1

(* A row is a sequence of nodes, and one node more is the next row. *)
LEMMA RowSteps ==
  ASSUME NEW l \in Nat, NEW w \in Nat
  PROVE  /\ Row(l, w) \in Seq(Nat \X Nat)
         /\ Len(Row(l, w)) = w
         /\ \A i \in 1 .. w : Row(l, w)[i] = Node(l, i - 1)
         /\ Append(Row(l, w), Node(l, w)) = Row(l, w + 1)
<1>1. Row(l, w) \in Seq(Nat \X Nat) /\ Len(Row(l, w)) = w
  BY DEF Row, Node
<1>2. \A i \in 1 .. w : Row(l, w)[i] = Node(l, i - 1)
  BY DEF Row
<1>3. Append(Row(l, w), Node(l, w)) = Row(l, w + 1)
  <2>. DEFINE s == Append(Row(l, w), Node(l, w))
              t == Row(l, w + 1)
  <2>0. Node(l, w) \in Nat \X Nat
    BY DEF Node
  <2>1. /\ s \in Seq(Nat \X Nat) /\ Len(s) = Len(Row(l, w)) + 1
        /\ \A i \in 1 .. Len(Row(l, w)) : s[i] = Row(l, w)[i]
        /\ s[Len(Row(l, w)) + 1] = Node(l, w)
    BY <1>1, <2>0, AppendProperties, SMT
  <2>2. t \in Seq(Nat \X Nat) /\ Len(t) = w + 1
    BY DEF Row, Node
  <2>3. \A i \in 1 .. w + 1 : t[i] = Node(l, i - 1)
    BY DEF Row
  <2>. HIDE DEF s, t
  <2>4. ASSUME NEW i \in 1 .. w + 1 PROVE s[i] = t[i]
    <3>1. CASE i \in 1 .. w
      BY <1>1, <1>2, <2>1, <2>3, <3>1, Zenon
    <3>2. CASE i = w + 1
      <4>1. i - 1 = w
        BY <3>2
      <4>. QED
        BY <1>1, <2>1, <2>3, <3>2, <4>1, Zenon
    <3>. QED
      BY <3>1, <3>2
  <2>5. Len(s) = Len(t) /\ \A i \in 1 .. Len(s) : s[i] = t[i]
    BY <1>1, <2>1, <2>2, <2>4
  <2>6. s = t
    BY <2>1, <2>2, <2>5, SeqEqual, Zenon
  <2>. QED
    BY <2>6 DEF s, t
<1>. QED
  BY <1>1, <1>2, <1>3

(* A shorter row is the beginning of a longer one. *)
LEMMA RowPrefix ==
  ASSUME NEW l \in Nat, NEW v \in Nat, NEW w \in Nat, w <= v
  PROVE  SubSeq(Row(l, v), 1, w) = Row(l, w)
<1>. DEFINE s == SubSeq(Row(l, v), 1, w)
            t == Row(l, w)
<1>1. /\ t \in Seq(Nat \X Nat) /\ Len(t) = w /\ \A i \in 1 .. w : t[i] = Node(l, i - 1)
  BY RowSteps, Zenon
<1>2. /\ Row(l, v) \in Seq(Nat \X Nat) /\ Len(Row(l, v)) = v
      /\ \A i \in 1 .. v : Row(l, v)[i] = Node(l, i - 1)
  BY RowSteps, Zenon
<1>3. /\ s \in Seq(Nat \X Nat) /\ Len(s) = w
      /\ \A i \in 1 .. w : s[i] = Row(l, v)[i]
  BY <1>2
<1>4. \A i \in 1 .. w : s[i] = t[i]
  <2>1. \A i \in 1 .. w : i \in 1 .. v
    OBVIOUS
  <2>. HIDE DEF s, t
  <2>. QED
    BY <1>1, <1>2, <1>3, <2>1, Zenon
<1>. HIDE DEF s, t
<1>5. s = t
  BY <1>1, <1>3, <1>4, SeqEqual, SMT
<1>. QED
  BY <1>5, Zenon DEF s, t

(* The layer in which a new node is parked. *)
FirstFree(parked) == Min({l \in 0 .. Len(parked) : l < Len(parked) => parked[l + 1] = None})

(* It is the first in which no node is waiting. *)
LEMMA Top ==
  ASSUME NEW base \in Nat, NEW n \in Nat, NEW k \in Nat, Shift(n, k) = 0,
         NEW parked, parked = Waiting(base, n, k),
         NEW top, top = FirstFree(parked)
  PROVE  /\ top \in 0 .. k
         /\ Ones(n, top)
         /\ Shift(n, top) % 2 = 0
         /\ \A l \in Nat : l > top => ~Ones(n, l)
<1>. DEFINE T == {l \in 0 .. Len(parked) : l < Len(parked) => parked[l + 1] = None}
<1>a. Len(parked) = k
  BY DEF Waiting
<1>0. \A l \in Nat : Shift(n, l) \in Nat
  BY ShiftSteps, Zenon
<1>1. ASSUME NEW l \in 0 .. k - 1 PROVE parked[l + 1] = None <=> Shift(n, l) % 2 = 0
  <2>1. parked[l + 1] = IF Shift(n, l) % 2 = 1 THEN Node(base + l, Shift(n, l) - 1) ELSE None
    BY DEF Waiting
  <2>2. Shift(n, l) \in Nat
    BY <1>0
  <2>3. Shift(n, l) % 2 = 1 => Node(base + l, Shift(n, l) - 1) \in Nat \X Nat
    BY <2>2 DEF Node
  <2>4. Shift(n, l) % 2 = 1 \/ Shift(n, l) % 2 = 0
    BY <2>2
  <2>. QED
    BY <2>1, <2>3, <2>4, NoneIsNoNode
<1>2. T \subseteq Nat /\ k \in T
  BY <1>a
<1>3. top \in T /\ \A l \in T : top <= l
  <2>1. \E m \in T : \A l \in T : m <= l
    BY <1>2, Least, Zenon
  <2>. HIDE DEF T
  <2>2. top = CHOOSE m \in T : \A l \in T : m =< l
    BY Zenon DEF Min, T, FirstFree
  <2>. QED
    BY <2>1, <2>2
<1>4. top \in 0 .. k
  BY <1>a, <1>3
<1>5. Ones(n, top)
  <2>. SUFFICES ASSUME NEW j \in 0 .. top - 1 PROVE Shift(n, j) % 2 = 1
    BY DEF Ones
  <2>1. j \in 0 .. k - 1 /\ j \notin T /\ j \in Nat
    BY <1>3, <1>4
  <2>2. Shift(n, j) % 2 # 0
    BY <1>1, <1>a, <2>1
  <2>3. j \in Nat
    BY <2>1
  <2>. QED
    BY <1>0, <2>2, <2>3
<1>6. Shift(n, top) % 2 = 0
  <2>1. CASE top = k
    BY <2>1
  <2>2. CASE top \in 0 .. k - 1
    BY <1>1, <1>3, <1>a, <2>2
  <2>. QED
    BY <1>4, <2>1, <2>2
<1>7. \A l \in Nat : l > top => ~Ones(n, l)
  BY <1>4, <1>6 DEF Ones
<1>. QED
  BY <1>4, <1>5, <1>6, <1>7

(* A parked node and its right sibling hash to their parent. *)
LEMMA HashParked ==
  ASSUME NEW base \in Nat, NEW n \in Nat, NEW l \in Nat, Shift(n, l) % 2 = 1
  PROVE  MerkleHash(Node(base + l, Shift(n, l) - 1), Node(base + l, Shift(n, l)))
           = Node(base + (l + 1), Shift(n, l + 1))
<1>. DEFINE left == Node(base + l, Shift(n, l) - 1)
            right == Node(base + l, Shift(n, l))
<1>0. Shift(n, l) \in Nat /\ Shift(n, l + 1) = Shift(n, l) \div 2
  BY ShiftSteps, Zenon
<1>1. /\ left # <<>> /\ right # <<>>
      /\ left[1] = base + l /\ right[1] = base + l
      /\ left[2] = Shift(n, l) - 1 /\ right[2] = Shift(n, l)
  BY DEF Node
<1>. HIDE DEF left, right
<1>2. left[2] % 2 = 0 /\ right[2] = left[2] + 1 /\ left[2] \div 2 = Shift(n, l + 1)
  BY <1>0, <1>1
<1>3. MerkleHash(left, right) = <<left[1] + 1, left[2] \div 2>>
  BY <1>1, <1>2, Zenon DEF MerkleHash, Bad
<1>4. left[1] + 1 = base + (l + 1)
  BY <1>1
<1>. QED
  BY <1>2, <1>3, <1>4, Zenon DEF Node, left, right

(* The nodes that a leaf completes on its way. *)
Climb(parked, leaf, top) ==
  LET node[l \in 0 .. top] == IF l = 0 THEN leaf ELSE MerkleHash(parked[l], node[l - 1])
  IN node

(* The caches that get one of these nodes, and what a cache held so far. *)
CachedOnTheWay(tr, top) == {l \in 0 .. top : tr.allLayers \/ l \in DOMAIN tr.layers}
Cached(tr, l) == IF l \in DOMAIN tr.layers THEN tr.layers[l] ELSE <<>>

(* The tree once the nodes are parked and cached. *)
GrownTree(tr, top, node) ==
  [parked |-> [i \in 1 .. Max({Len(tr.parked), top + 1}) |->
                 IF i <= top THEN None ELSE IF i = top + 1 THEN node[top] ELSE tr.parked[i]],
   layers |-> [l \in DOMAIN tr.layers \cup CachedOnTheWay(tr, top) |->
                 IF l \in CachedOnTheWay(tr, top) THEN Append(Cached(tr, l), node[l])
                 ELSE Cached(tr, l)],
   allLayers |-> tr.allLayers]

(* AddLeaf in these terms. *)
LEMMA AddLeafParts ==
  ASSUME NEW tr, tr = [parked |-> tr.parked, layers |-> tr.layers, allLayers |-> tr.allLayers],
         NEW leaf
  PROVE  AddLeaf(tr, leaf) =
           GrownTree(tr, FirstFree(tr.parked), Climb(tr.parked, leaf, FirstFree(tr.parked)))
<1>. DEFINE T == FirstFree(tr.parked)
            N == Climb(tr.parked, leaf, T)
            P == [i \in 1 .. Max({Len(tr.parked), T + 1}) |->
                 IF i <= T THEN None ELSE IF i = T + 1 THEN N[T] ELSE tr.parked[i]]
            Q == [l \in DOMAIN tr.layers \cup CachedOnTheWay(tr, T) |->
                 IF l \in CachedOnTheWay(tr, T) THEN Append(Cached(tr, l), N[l]) ELSE Cached(tr, l)]
<1>1. AddLeaf(tr, leaf) = [tr EXCEPT !.parked = P, !.layers = Q]
  BY Zenon DEF AddLeaf, FirstFree, Climb, CachedOnTheWay, Cached
<1>2. GrownTree(tr, T, N) = [parked |-> P, layers |-> Q, allLayers |-> tr.allLayers]
  BY Zenon DEF GrownTree
<1>. HIDE DEF P, Q, T, N
<1>3. AddLeaf(tr, leaf) = [parked |-> P, layers |-> Q, allLayers |-> tr.allLayers]
  BY <1>1, Zenon
<1>. QED
  BY <1>2, <1>3, Zenon DEF T, N

(* The greater of two numbers. *)
LEMMA MaxOfTwo ==
  ASSUME NEW a \in Nat, NEW b \in Nat
  PROVE  Max({a, b}) = IF a >= b THEN a ELSE b
  BY DEF Max

(* A left sibling waits in every layer below top. *)
WaitingBelow(parked, base, n, top) ==
  \A l \in 0 .. top - 1 : parked[l + 1] = Node(base + l, Shift(n, l) - 1)

(* The nodes on the way up are those of the right tree. *)
OnTheWay(node, base, n, top) == \A l \in 0 .. top : node[l] = Node(base + l, Shift(n, l))

(* The nodes that a new leaf completes. *)
LEMMA ClimbingNodes ==
  ASSUME NEW base \in Nat, NEW n \in Nat, NEW top \in Nat, Ones(n, top),
         NEW parked, WaitingBelow(parked, base, n, top)
  PROVE  OnTheWay(Climb(parked, Node(base, n), top), base, n, top)
<1>. DEFINE next(f, l) == IF l = 0 THEN Node(base, n) ELSE MerkleHash(parked[l], f[l - 1])
            node == CHOOSE f : f = [l \in 0 .. top |-> next(f, l)]
            right == [l \in 0 .. top |-> Node(base + l, Shift(n, l))]
<1>0. right[0] = Node(base, n)
  <2>1. Shift(n, 0) = n /\ base + 0 = base /\ 0 \in 0 .. top
    BY ShiftSteps
  <2>. QED
    BY <2>1, Zenon
<1>1. ASSUME NEW l \in 0 .. top - 1
      PROVE  MerkleHash(parked[l + 1], right[l]) = right[l + 1]
  <2>1. l \in Nat /\ Shift(n, l) % 2 = 1
    BY <1>1 DEF Ones
  <2>2. parked[l + 1] = Node(base + l, Shift(n, l) - 1)
    BY Zenon DEF WaitingBelow
  <2>3. right[l] = Node(base + l, Shift(n, l)) /\ right[l + 1] = Node(base + (l + 1), Shift(n, l + 1))
    OBVIOUS
  <2>. HIDE DEF right
  <2>4. MerkleHash(Node(base + l, Shift(n, l) - 1), Node(base + l, Shift(n, l)))
          = Node(base + (l + 1), Shift(n, l + 1))
    BY <2>1, HashParked, Zenon
  <2>. QED
    BY <2>2, <2>3, <2>4, Zenon
<1>2. right = [l \in 0 .. top |-> next(right, l)]
  <2>. SUFFICES ASSUME NEW l \in 0 .. top PROVE right[l] = next(right, l)
    BY Zenon
  <2>1. CASE l = 0
    BY <1>0, <2>1, Zenon
  <2>2. CASE l # 0
    <3>1. l - 1 \in 0 .. top - 1 /\ (l - 1) + 1 = l
      BY <2>2
    <3>. HIDE DEF right
    <3>2. MerkleHash(parked[(l - 1) + 1], right[l - 1]) = right[(l - 1) + 1]
      BY <1>1, <3>1, Zenon
    <3>. QED
      BY <2>2, <3>1, <3>2, Zenon
  <2>. QED
    BY <2>1, <2>2
<1>3. node = [l \in 0 .. top |-> next(node, l)]
  <2>. HIDE DEF right, next
  <2>. QED
    BY <1>2, Zenon
<1>9. Climb(parked, Node(base, n), top) = node
  BY Zenon DEF Climb
<1>. HIDE DEF node
<1>4. node[0] = right[0] /\ \A l \in 0 .. top - 1 : node[l] = right[l] => node[l + 1] = right[l + 1]
  <2>1. node[0] = Node(base, n)
    BY <1>3
  <2>. HIDE DEF right
  <2>2. ASSUME NEW l \in 0 .. top - 1, node[l] = right[l] PROVE node[l + 1] = right[l + 1]
    <3>1. l + 1 \in 0 .. top /\ l + 1 # 0 /\ (l + 1) - 1 = l
      OBVIOUS
    <3>2. node[l + 1] = next(node, l + 1)
      BY <1>3, <3>1, Zenon
    <3>. QED
      BY <1>1, <2>2, <3>1, <3>2, Zenon
  <2>. QED
    BY <1>0, <2>1, <2>2, Zenon
<1>. DEFINE P == {l \in Nat : l <= top => node[l] = right[l]}
<1>. HIDE DEF right
<1>5. 0 \in P /\ \A l \in Nat : l \in P => l + 1 \in P
  BY <1>4
<1>6. Nat \subseteq P
  <2>. HIDE DEF P
  <2>. QED
    BY <1>5, Induction, Zenon
<1>7. \A l \in 0 .. top : node[l] = right[l]
  BY <1>6
<1>8. \A l \in 0 .. top : node[l] = Node(base + l, Shift(n, l))
  BY <1>7, Zenon DEF right
<1>. QED
  BY <1>8, <1>9, Zenon DEF OnTheWay

(* One leaf that sequentialWork adds with Tree.AddLeaf makes the right     *)
(* tree of n leaves the right tree of n + 1; only a tree that caches all   *)
(* layers may open a new one.                                              *)
THEOREM AddLeafRight ==
  ASSUME NEW base \in Nat, NEW n \in Nat, NEW k, NEW D, NEW all, RightShape(n, k, D, all),
         NEW tr, tr = RightTree(base, n, k, D, all),
         NEW leaf, leaf = Node(base, n)
  PROVE  \E m, E :
           /\ RightShape(n + 1, m, E, all)
           /\ D \subseteq E
           /\ ~all => E = D
           /\ AddLeaf(tr, leaf) = RightTree(base, n + 1, m, E, all)
<1>. DEFINE parked == Waiting(base, n, k)
            layers == [l \in D |-> Row(base + l, Shift(n, l))]
            top == FirstFree(parked)
            node == Climb(parked, leaf, top)
            written == CachedOnTheWay(tr, top)
            m == Max({k, top + 1})
            E == D \cup written
<1>0. /\ k \in Nat \ {0} /\ D \subseteq Nat /\ 0 \in D /\ all \in BOOLEAN /\ Shift(n, k) = 0
      /\ all => D = 0 .. k - 1
  BY Zenon DEF RightShape
<1>size. \A l \in Nat : Shift(n, l) \in Nat
  BY ShiftSteps, Zenon
<1>1. /\ tr = [parked |-> parked, layers |-> layers, allLayers |-> all]
      /\ DOMAIN layers = D
      /\ \A l \in D : layers[l] = Row(base + l, Shift(n, l))
      /\ tr.parked = parked /\ tr.layers = layers /\ tr.allLayers = all
  BY Zenon DEF RightTree
<1>2. Len(parked) = k /\ \A i \in 1 .. k : parked[i] = 
             IF Shift(n, i - 1) % 2 = 1 THEN Node(base + (i - 1), Shift(n, i - 1) - 1) ELSE None
  BY <1>0 DEF Waiting
<1>3. /\ top \in 0 .. k
      /\ Ones(n, top)
      /\ Shift(n, top) % 2 = 0
      /\ \A l \in Nat : l > top => ~Ones(n, l)
  BY <1>0, Top, Zenon
<1>. HIDE DEF parked, layers, top, node
<1>4. AddLeaf(tr, leaf) =
           [parked |-> [i \in 1 .. m |->
              IF i <= top THEN None ELSE IF i = top + 1 THEN node[top] ELSE parked[i]],
            layers |-> [l \in E |->
              IF l \in written THEN Append(Cached(tr, l), node[l]) ELSE Cached(tr, l)],
            allLayers |-> all]
  <2>1. AddLeaf(tr, leaf) = GrownTree(tr, FirstFree(tr.parked), Climb(tr.parked, leaf, FirstFree(tr.parked)))
    BY <1>1, AddLeafParts, Zenon
  <2>2. AddLeaf(tr, leaf) = GrownTree(tr, top, node)
    BY <1>1, <2>1, Zenon DEF top, node
  <2>. QED
    BY <1>1, <1>2, <2>2, Zenon DEF GrownTree
<1>5. \A l \in 0 .. top : node[l] = Node(base + l, Shift(n, l))
  <2>1. WaitingBelow(parked, base, n, top)
    BY <1>0, <1>2, <1>3 DEF Ones, WaitingBelow
  <2>2. top \in Nat
    BY <1>3
  <2>3. Ones(n, top)
    BY <1>3
  <2>4. OnTheWay(Climb(parked, Node(base, n), top), base, n, top)
    BY <2>1, <2>2, <2>3, ClimbingNodes, Zenon
  <2>. QED
    BY <2>4, Zenon DEF node, OnTheWay
<1>6. m \in Nat \ {0} /\ m >= k /\ m >= top + 1 /\ (m = k \/ m = top + 1)
  <2>1. k \in Nat /\ top + 1 \in Nat
    BY <1>0, <1>3
  <2>. QED
    BY <1>0, <2>1, MaxOfTwo
<1>7. written = {l \in 0 .. top : all \/ l \in D}
  BY <1>1, Zenon DEF CachedOnTheWay
<1>. HIDE DEF m, written
<1>15. written \subseteq 0 .. top /\ D \subseteq Nat /\ 0 \in D /\ top \in Nat
  <2>1. written \subseteq 0 .. top
    BY <1>7, Zenon
  <2>2. top \in Nat
    BY <1>0, <1>3
  <2>. QED
    BY <1>0, <2>1, <2>2, Zenon
<1>8. \A l \in D : Cached(tr, l) = Row(base + l, Shift(n, l))
  BY <1>1, Zenon DEF Cached
<1>9. ASSUME NEW l \in Nat PROVE
        /\ Shift(n, l) \in Nat
        /\ l <= top => Shift(n + 1, l) = Shift(n, l) + 1
        /\ l > top => Shift(n + 1, l) = Shift(n, l)
        /\ l < top => Shift(n, l) % 2 = 1
  <2>1. Shift(n + 1, l) = IF Ones(n, l) THEN Shift(n, l) + 1 ELSE Shift(n, l)
    BY ShiftNext, Zenon
  <2>2. l <= top => Ones(n, l)
    BY <1>3 DEF Ones
  <2>3. l < top => Shift(n, l) % 2 = 1
    BY <1>3 DEF Ones
  <2>. QED
    BY <1>size, <1>3, <2>1, <2>2, <2>3
<1>10. RightShape(n + 1, m, E, all)
  <2>1. D \cup written \subseteq Nat /\ 0 \in D \cup written
    BY <1>15
  <2>2. Shift(n + 1, m) = 0
    <3>1. Shift(n + 1, m) = Shift(n, m)
      BY <1>3, <1>6, <1>9
    <3>2. Shift(n, m) = 0
      BY <1>0, <1>6, ShiftZero
    <3>. QED
      BY <3>1, <3>2
  <2>3. all => D \cup written = 0 .. m - 1
    BY <1>0, <1>3, <1>6, <1>7
  <2>. QED
    BY <1>0, <1>6, <2>1, <2>2, <2>3, Zenon DEF RightShape
<1>11. [i \in 1 .. m |-> IF i <= top THEN None ELSE IF i = top + 1 THEN node[top] ELSE parked[i]]
         = Waiting(base, n + 1, m)
  <2>. SUFFICES ASSUME NEW i \in 1 .. m
                PROVE  (IF i <= top THEN None ELSE IF i = top + 1 THEN node[top] ELSE parked[i])
                         = IF Shift(n + 1, i - 1) % 2 = 1
                           THEN Node(base + (i - 1), Shift(n + 1, i - 1) - 1) ELSE None
    BY Zenon DEF Waiting
  <2>0. i - 1 \in Nat /\ m \in Nat /\ top \in Nat
    BY <1>3, <1>6
  <2>1. CASE i <= top
    <3>1. Shift(n + 1, i - 1) % 2 = 0
      BY <1>9, <2>0, <2>1
    <3>. QED
      BY <2>1, <3>1
  <2>2. CASE i = top + 1
    <3>1. i - 1 = top /\ ~(i <= top)
      BY <2>0, <2>2
    <3>2. Shift(n + 1, top) = Shift(n, top) + 1 /\ Shift(n, top) \in Nat
      BY <1>9, <2>0
    <3>3. Shift(n + 1, top) % 2 = 1 /\ Shift(n + 1, top) - 1 = Shift(n, top)
      BY <1>3, <3>2
    <3>4. node[top] = Node(base + top, Shift(n, top))
      BY <1>5, <2>0
    <3>. QED
      BY <2>2, <3>1, <3>3, <3>4, Zenon
  <2>3. CASE i > top + 1
    <3>1. Shift(n + 1, i - 1) = Shift(n, i - 1)
      BY <1>9, <2>0, <2>3
    <3>2. i \in 1 .. k
      BY <1>0, <1>6, <2>0, <2>3
    <3>3. ~(i <= top) /\ i # top + 1
      BY <2>0, <2>3
    <3>. QED
      BY <1>2, <3>1, <3>2, <3>3, Zenon
  <2>. QED
    BY <2>0, <2>1, <2>2, <2>3
<1>12. [l \in E |-> IF l \in written THEN Append(Cached(tr, l), node[l]) ELSE Cached(tr, l)]
         = [l \in E |-> Row(base + l, Shift(n + 1, l))]
  <2>. SUFFICES ASSUME NEW l \in E
                PROVE  (IF l \in written THEN Append(Cached(tr, l), node[l]) ELSE Cached(tr, l))
                         = Row(base + l, Shift(n + 1, l))
    BY Zenon
  <2>0. l \in Nat /\ base + l \in Nat /\ Shift(n, l) \in Nat
    BY <1>9, <1>15
  <2>1. CASE l \in written
    <3>1. l \in 0 .. top
      BY <1>7, <2>1
    <3>2. Cached(tr, l) = Row(base + l, Shift(n, l))
      <4>1. CASE l \in D
        BY <1>8, <4>1, Zenon
      <4>2. CASE l \notin D
        <5>1. l = k
          BY <1>0, <1>3, <1>7, <2>1, <4>2
        <5>2. Cached(tr, l) = <<>>
          BY <1>1, <4>2, Zenon DEF Cached
        <5>3. Row(base + l, 0) = <<>>
          BY DEF Row
        <5>. QED
          BY <1>0, <5>1, <5>2, <5>3
      <4>. QED
        BY <4>1, <4>2
    <3>3. node[l] = Node(base + l, Shift(n, l)) /\ Shift(n + 1, l) = Shift(n, l) + 1
      BY <1>5, <1>9, <2>0, <3>1
    <3>4. Append(Row(base + l, Shift(n, l)), Node(base + l, Shift(n, l)))
            = Row(base + l, Shift(n, l) + 1)
      BY <2>0, RowSteps, Zenon
    <3>. QED
      BY <2>1, <3>2, <3>3, <3>4, Zenon
  <2>2. CASE l \notin written
    <3>1. l \in D /\ l > top
      BY <1>3, <1>7, <2>0, <2>2
    <3>2. Shift(n + 1, l) = Shift(n, l)
      BY <1>9, <2>0, <3>1
    <3>. QED
      BY <1>8, <2>2, <3>1, <3>2, Zenon
  <2>. QED
    BY <2>1, <2>2
<1>13. AddLeaf(tr, leaf) = RightTree(base, n + 1, m, E, all)
  BY <1>4, <1>11, <1>12, Zenon DEF RightTree
<1>14. D \subseteq E /\ (~all => E = D)
  BY <1>7
<1>. QED
  BY <1>10, <1>13, <1>14, Zenon

------------------------------------------------------------------------------
(* Labels *)

(* b[i] is what the first i nodes of s leave in the buffer. *)
Buffers(b, s) ==
  /\ b[0] = <<>>
  /\ \A i \in 0 .. Len(s) - 1 : b[i + 1] = IF Present(s[i + 1]) THEN Append(b[i], s[i + 1]) ELSE b[i]

(* Written is the last of these buffers. *)
LEMMA WrittenSteps ==
  ASSUME NEW V, NEW s \in Seq(V)
  PROVE  \E b : Buffers(b, s) /\ Written(s) = b[Len(s)]
<1>. DEFINE G == [p \in Nat \X Seq(V) |->
                    IF p[1] < Len(s) /\ Present(s[p[1] + 1]) THEN Append(p[2], s[p[1] + 1])
                    ELSE p[2]]
            next(f, i) == IF i = 0 THEN <<>>
                          ELSE IF Present(s[i]) THEN Append(f[i - 1], s[i])
                          ELSE f[i - 1]
            Is(f) == f = [i \in 0 .. Len(s) |-> next(f, i)]
            b == CHOOSE f : Is(f)
<1>0. Len(s) \in Nat
  OBVIOUS
<1>1. ASSUME NEW i \in Nat, NEW x \in Seq(V)
      PROVE  /\ G[<<i, x>>] = IF i < Len(s) /\ Present(s[i + 1]) THEN Append(x, s[i + 1]) ELSE x
             /\ G[<<i, x>>] \in Seq(V)
  <2>1. G[<<i, x>>] = IF i < Len(s) /\ Present(s[i + 1]) THEN Append(x, s[i + 1]) ELSE x
    OBVIOUS
  <2>2. i < Len(s) => s[i + 1] \in V
    BY <1>0
  <2>3. i < Len(s) => Append(x, s[i + 1]) \in Seq(V)
    BY <2>2
  <2>. HIDE DEF G
  <2>. QED
    BY <2>1, <2>3
<1>. HIDE DEF G
<1>2. PICK f : Follows(f, Seq(V), <<>>, G)
  <2>1. Maps(G, Seq(V))
    BY <1>1, Zenon DEF Maps
  <2>2. <<>> \in Seq(V)
    OBVIOUS
  <2>. QED
    BY <2>1, <2>2, Recursion, Zenon
<1>3. f[0] = <<>> /\ \A i \in Nat : f[i] \in Seq(V) /\ f[i + 1] = G[<<i, f[i]>>]
  BY <1>2 DEF Follows
<1>. DEFINE g == [i \in 0 .. Len(s) |-> f[i]]
<1>4. ASSUME NEW i \in 0 .. Len(s) PROVE g[i] = next(g, i)
  <2>1. CASE i = 0
    BY <1>3, <2>1
  <2>2. CASE i # 0
    <3>1. i - 1 \in Nat /\ i - 1 < Len(s) /\ (i - 1) + 1 = i /\ i - 1 \in 0 .. Len(s)
      BY <1>0, <2>2
    <3>2. f[(i - 1) + 1] = G[<<i - 1, f[i - 1]>>] /\ f[i - 1] \in Seq(V)
      BY <1>3, <3>1, Zenon
    <3>3. f[i] = IF Present(s[i]) THEN Append(f[i - 1], s[i]) ELSE f[i - 1]
      BY <1>1, <3>1, <3>2
    <3>4. g[i] = f[i] /\ g[i - 1] = f[i - 1]
      BY <3>1, Zenon
    <3>. QED
      BY <2>2, <3>3, <3>4, Zenon
  <2>. QED
    BY <2>1, <2>2
<1>5. Is(g)
  BY <1>4, Zenon
<1>. HIDE DEF g, next
<1>6. Is(b)
  BY <1>5, Zenon
<1>7. Written(s) = b[Len(s)]
  BY Zenon DEF Written, next
<1>. HIDE DEF b
<1>8. \A i \in 0 .. Len(s) : b[i] = next(b, i)
  BY <1>6, Zenon
<1>9. Buffers(b, s)
  BY <1>0, <1>8 DEF Buffers, next
<1>. QED
  BY <1>7, <1>9, Zenon

(* What absent nodes at the end add to the buffer is nothing. *)
LEMMA WrittenExtend ==
  ASSUME NEW V, NEW s \in Seq(V), NEW t \in Seq(V), Len(s) <= Len(t),
         \A i \in 1 .. Len(s) : t[i] = s[i],
         \A i \in 1 .. Len(t) : i > Len(s) => t[i] = None
  PROVE  Written(s) = Written(t)
<1>1. PICK b : Buffers(b, s) /\ Written(s) = b[Len(s)]
  BY WrittenSteps, Zenon
<1>2. PICK c : Buffers(c, t) /\ Written(t) = c[Len(t)]
  BY WrittenSteps, Zenon
<1>3. Len(s) \in Nat /\ Len(t) \in Nat
  OBVIOUS
<1>. DEFINE P == {i \in Nat : /\ i <= Len(s) => c[i] = b[i]
                              /\ i > Len(s) /\ i <= Len(t) => c[i] = b[Len(s)]}
<1>4. 0 \in P
  BY <1>1, <1>2, <1>3 DEF Buffers
<1>5. ASSUME NEW i \in Nat, i \in P PROVE i + 1 \in P
  <2>1. CASE i + 1 <= Len(s)
    <3>1. i \in 0 .. Len(s) - 1 /\ i \in 0 .. Len(t) - 1 /\ i + 1 \in 1 .. Len(s)
      BY <1>3, <2>1
    <3>2. t[i + 1] = s[i + 1] /\ c[i] = b[i]
      BY <1>3, <1>5, <3>1
    <3>3. c[i + 1] = b[i + 1]
      BY <1>1, <1>2, <3>1, <3>2, Zenon DEF Buffers
    <3>. QED
      BY <1>3, <2>1, <3>3
  <2>2. CASE i + 1 > Len(s) /\ i + 1 <= Len(t)
    <3>1. i \in 0 .. Len(t) - 1 /\ i + 1 \in 1 .. Len(t)
      BY <1>3, <2>2
    <3>2. t[i + 1] = None
      BY <2>2, <3>1
    <3>3. c[i + 1] = c[i]
      BY <1>2, <3>1, <3>2, Zenon DEF Buffers, Present
    <3>4. c[i] = b[Len(s)]
      BY <1>3, <1>5, <2>2
    <3>. QED
      BY <1>3, <2>2, <3>3, <3>4
  <2>3. CASE i + 1 > Len(t)
    BY <1>3, <2>3
  <2>. QED
    BY <1>3, <2>1, <2>2, <2>3
<1>. HIDE DEF P
<1>6. Nat \subseteq P
  BY <1>4, <1>5, Induction, Zenon
<1>7. c[Len(t)] = b[Len(s)]
  BY <1>3, <1>6 DEF P
<1>. QED
  BY <1>1, <1>2, <1>7, Zenon

(* The parked nodes of the right tree are those the next label has to      *)
(* commit to, however many places the tree has for them.                   *)
LEMMA WaitingIsLeftSiblings ==
  ASSUME NEW n \in Nat, NEW k \in Nat, Shift(n, k) = 0
  PROVE  Written(Waiting(0, n, k)) = LeftSiblings(n)
<1>. DEFINE V == (Nat \X Nat) \cup {None}
            s == Waiting(0, n, k)
            t == Waiting(0, n, n)
<1>1. LeftSiblings(n) = Written(t)
  <2>. DEFINE sibling(l) == IF Shift(n, l) % 2 = 1 THEN <<l, Shift(n, l) - 1>> ELSE None
  <2>1. t = [i \in 1 .. n |-> sibling(i - 1)]
    <3>. SUFFICES ASSUME NEW i \in 1 .. n
                  PROVE  (IF Shift(n, i - 1) % 2 = 1 THEN <<0 + (i - 1), Shift(n, i - 1) - 1>>
                          ELSE None) = sibling(i - 1)
      BY Zenon DEF Waiting, Node
    <3>1. 0 + (i - 1) = i - 1
      OBVIOUS
    <3>. QED
      BY <3>1, Zenon
  <2>. HIDE DEF t
  <2>. QED
    BY <2>1, Zenon DEF LeftSiblings
<1>2. ASSUME NEW m \in Nat
      PROVE  /\ Waiting(0, n, m) \in Seq(V) /\ Len(Waiting(0, n, m)) = m
             /\ \A i \in 1 .. m : Waiting(0, n, m)[i] =
                   IF Shift(n, i - 1) % 2 = 1 THEN Node(0 + (i - 1), Shift(n, i - 1) - 1) ELSE None
  <2>1. ASSUME NEW i \in 1 .. m
        PROVE  (IF Shift(n, i - 1) % 2 = 1 THEN Node(0 + (i - 1), Shift(n, i - 1) - 1) ELSE None) \in V
    <3>1. i - 1 \in Nat
      OBVIOUS
    <3>2. Shift(n, i - 1) \in Nat
      BY <3>1, ShiftSteps, Zenon
    <3>3. Shift(n, i - 1) % 2 = 1 => Node(0 + (i - 1), Shift(n, i - 1) - 1) \in Nat \X Nat
      BY <3>1, <3>2 DEF Node
    <3>. QED
      BY <3>3, Zenon
  <2>. HIDE DEF V
  <2>. QED
    BY <2>1 DEF Waiting
<1>. HIDE DEF V
<1>3. ASSUME NEW l \in Nat, l >= n \/ l >= k PROVE Shift(n, l) % 2 # 1
  <2>1. Shift(n, l) = 0
    BY <1>3, ShiftZero, ShiftOut
  <2>. QED
    BY <2>1
<1>4. ASSUME NEW i \in Nat, i > n \/ i > k, NEW m \in Nat, i \in 1 .. m PROVE Waiting(0, n, m)[i] = None
  <2>1. i - 1 \in Nat /\ (i - 1 >= n \/ i - 1 >= k)
    BY <1>4
  <2>2. Shift(n, i - 1) % 2 # 1
    BY <1>3, <2>1, Zenon
  <2>. QED
    BY <1>2, <1>4, <2>2, Zenon
<1>5. /\ s \in Seq(V) /\ Len(s) = k
      /\ t \in Seq(V) /\ Len(t) = n
  BY <1>2, Zenon
<1>6. \A i \in Nat : i \in 1 .. k /\ i \in 1 .. n => s[i] = t[i]
  BY <1>2, Zenon
<1>7. \A i \in Nat : /\ i \in 1 .. k /\ i > n => s[i] = None
                     /\ i \in 1 .. n /\ i > k => t[i] = None
  BY <1>4, Zenon
<1>. HIDE DEF s, t
<1>8. CASE k <= n
  <2>1. /\ Len(s) <= Len(t)
        /\ \A i \in 1 .. Len(s) : t[i] = s[i]
        /\ \A i \in 1 .. Len(t) : i > Len(s) => t[i] = None
    BY <1>5, <1>6, <1>7, <1>8
  <2>2. Written(s) = Written(t)
    BY <1>5, <2>1, WrittenExtend
  <2>. QED
    BY <1>1, <2>2, Zenon DEF s
<1>9. CASE n <= k
  <2>1. /\ Len(t) <= Len(s)
        /\ \A i \in 1 .. Len(t) : s[i] = t[i]
        /\ \A i \in 1 .. Len(s) : i > Len(t) => s[i] = None
    BY <1>5, <1>6, <1>7, <1>9
  <2>2. Written(t) = Written(s)
    BY <1>5, <2>1, WrittenExtend
  <2>. QED
    BY <1>1, <2>2, Zenon DEF s
<1>. QED
  BY <1>8, <1>9

------------------------------------------------------------------------------
(* Recovery *)

(* What a place for a parked node holds. *)
Places == (Nat \X Nat) \cup {None}

(* The parked nodes are a sequence of these. *)
LEMMA WaitingSeq ==
  ASSUME NEW base \in Nat, NEW n \in Nat, NEW m \in Nat
  PROVE  /\ Waiting(base, n, m) \in Seq(Places)
         /\ Len(Waiting(base, n, m)) = m
         /\ \A i \in 1 .. m : Waiting(base, n, m)[i] =
              IF Shift(n, i - 1) % 2 = 1 THEN Node(base + (i - 1), Shift(n, i - 1) - 1) ELSE None
<1>1. ASSUME NEW i \in 1 .. m
      PROVE  (IF Shift(n, i - 1) % 2 = 1 THEN Node(base + (i - 1), Shift(n, i - 1) - 1) ELSE None)
               \in Places
  <2>1. i - 1 \in Nat
    OBVIOUS
  <2>2. Shift(n, i - 1) \in Nat
    BY <2>1, ShiftSteps, Zenon
  <2>3. Shift(n, i - 1) % 2 = 1 => Node(base + (i - 1), Shift(n, i - 1) - 1) \in Nat \X Nat
    BY <2>1, <2>2 DEF Node
  <2>. QED
    BY <2>3, Zenon DEF Places
<1>. QED
  BY <1>1 DEF Waiting

(* The highest of the layers from 0 on, and how many they are. *)
LEMMA LayersUpTo ==
  ASSUME NEW t \in Nat
  PROVE  Max(0 .. t) = t /\ Cardinality(0 .. t) = t + 1
<1>1. Max(0 .. t) = t
  <2>1. t \in 0 .. t /\ \A l \in 0 .. t : t >= l
    OBVIOUS
  <2>2. \A m \in 0 .. t : (\A l \in 0 .. t : m >= l) => m = t
    <3>. SUFFICES ASSUME NEW m \in 0 .. t, \A l \in 0 .. t : m >= l PROVE m = t
      OBVIOUS
    <3>1. m >= t
      BY <2>1
    <3>. QED
      BY <3>1
  <2>. QED
    BY <2>1, <2>2, Zenon DEF Max
<1>2. Cardinality(0 .. t) = t + 1
  BY FS_Interval
<1>. QED
  BY <1>1, <1>2

(* makeRecoveryProofTree puts the right tree together from the layer files *)
(* and the small tree above them.                                          *)
THEOREM RecoveredRight ==
  ASSUME NEW n \in Nat, NEW t \in Nat,
         NEW fs, fs = [l \in 0 .. t |-> Row(l, Shift(n, l))],
         NEW k, NEW D, RightShape(Shift(n, t), k, D, TRUE),
         NEW rebuilt, rebuilt = RightTree(t, Shift(n, t), k, D, TRUE)
  PROVE  /\ RightShape(n, t + k, 0 .. t + k - 1, FALSE)
         /\ RecoveredTree(fs, n, rebuilt) = RightTree(0, n, t + k, 0 .. t + k - 1, FALSE)
<1>. DEFINE top == Max(DOMAIN fs)
            onDisk == [i \in 1 .. Cardinality(DOMAIN fs) |->
                         IF Shift(n, i - 1) % 2 # 0 THEN fs[i - 1][Shift(n, i - 1)] ELSE None]
            above == {top + l : l \in DOMAIN rebuilt.layers \ {0}}
            layers == [l \in DOMAIN fs \cup above |->
                         IF l \in DOMAIN fs THEN fs[l] ELSE rebuilt.layers[l - top]]
            n2 == Shift(n, t)
<1>0. RecoveredTree(fs, n, rebuilt) =
        [parked |-> onDisk \o Tail(rebuilt.parked), layers |-> layers, allLayers |-> FALSE]
  BY Zenon DEF RecoveredTree
<1>1. /\ DOMAIN fs = 0 .. t
      /\ \A l \in 0 .. t : fs[l] = Row(l, Shift(n, l))
  BY Zenon
<1>2. top = t /\ Cardinality(DOMAIN fs) = t + 1
  BY <1>1, LayersUpTo, Zenon
<1>3. /\ k \in Nat \ {0} /\ D = 0 .. k - 1 /\ Shift(n2, k) = 0
      /\ rebuilt.parked = Waiting(t, n2, k)
      /\ DOMAIN rebuilt.layers = 0 .. k - 1
      /\ \A l \in 0 .. k - 1 : rebuilt.layers[l] = Row(t + l, Shift(n2, l))
  BY Zenon DEF RightShape, RightTree
<1>4. n2 \in Nat /\ \A l \in Nat : Shift(n2, l) = Shift(n, t + l) /\ Shift(n, l) \in Nat
  BY ShiftSteps, ShiftShift, ZenonT(40)
<1>. HIDE DEF n2
<1>5. RightShape(n, t + k, 0 .. t + k - 1, FALSE)
  <2>1. Shift(n, t + k) = 0
    BY <1>3, <1>4
  <2>2. t + k \in Nat \ {0} /\ 0 .. t + k - 1 \subseteq Nat /\ 0 \in 0 .. t + k - 1
    BY <1>3
  <2>. QED
    BY <2>1, <2>2, Zenon DEF RightShape
<1>6. onDisk = Waiting(0, n, t + 1)
  <2>. SUFFICES ASSUME NEW i \in 1 .. t + 1
                PROVE  (IF Shift(n, i - 1) % 2 # 0 THEN fs[i - 1][Shift(n, i - 1)] ELSE None)
                         = IF Shift(n, i - 1) % 2 = 1
                           THEN Node(0 + (i - 1), Shift(n, i - 1) - 1) ELSE None
    BY <1>2, Zenon DEF Waiting
  <2>1. i - 1 \in Nat /\ i - 1 \in 0 .. t /\ 0 + (i - 1) = i - 1
    OBVIOUS
  <2>2. Shift(n, i - 1) \in Nat
    BY <1>4, <2>1, Zenon
  <2>3. fs[i - 1] = Row(i - 1, Shift(n, i - 1))
    BY <1>1, <2>1, Zenon
  <2>4. Shift(n, i - 1) % 2 = 1 => Shift(n, i - 1) \in 1 .. Shift(n, i - 1)
    BY <2>2
  <2>5. Shift(n, i - 1) % 2 = 1 =>
          Row(i - 1, Shift(n, i - 1))[Shift(n, i - 1)] = Node(i - 1, Shift(n, i - 1) - 1)
    BY <2>1, <2>2, <2>4, RowSteps, Zenon
  <2>6. Shift(n, i - 1) % 2 = 1 <=> Shift(n, i - 1) % 2 # 0
    BY <2>2
  <2>. QED
    BY <2>1, <2>3, <2>5, <2>6, Zenon
<1>7. onDisk \o Tail(rebuilt.parked) = Waiting(0, n, t + k)
  <2>. DEFINE s1 == Waiting(0, n, t + 1)
              s2 == Tail(Waiting(t, n2, k))
              u == Waiting(0, n, t + k)
  <2>0. t + 1 \in Nat /\ k \in Nat /\ t + k \in Nat
    BY <1>3
  <2>1. s1 \in Seq(Places) /\ Len(s1) = t + 1
    BY <2>0, WaitingSeq, Zenon
  <2>2. u \in Seq(Places) /\ Len(u) = t + k
    BY <2>0, WaitingSeq, Zenon
  <2>3. Waiting(t, n2, k) \in Seq(Places) /\ Len(Waiting(t, n2, k)) = k
    BY <1>4, <2>0, WaitingSeq, Zenon
  <2>4. /\ s2 \in Seq(Places) /\ Len(s2) = k - 1
        /\ \A i \in 1 .. k - 1 : s2[i] = Waiting(t, n2, k)[i + 1]
    BY <1>3, <2>3
  <2>5. /\ \A i \in 1 .. t + 1 : s1[i] =
             IF Shift(n, i - 1) % 2 = 1 THEN Node(0 + (i - 1), Shift(n, i - 1) - 1) ELSE None
        /\ \A i \in 1 .. t + k : u[i] =
             IF Shift(n, i - 1) % 2 = 1 THEN Node(0 + (i - 1), Shift(n, i - 1) - 1) ELSE None
        /\ \A i \in 1 .. k : Waiting(t, n2, k)[i] =
             IF Shift(n2, i - 1) % 2 = 1 THEN Node(t + (i - 1), Shift(n2, i - 1) - 1) ELSE None
    <3>1. \A i \in 1 .. t + 1 : s1[i] =
             IF Shift(n, i - 1) % 2 = 1 THEN Node(0 + (i - 1), Shift(n, i - 1) - 1) ELSE None
      BY <2>0, WaitingSeq, ZenonT(40)
    <3>2. \A i \in 1 .. t + k : u[i] =
             IF Shift(n, i - 1) % 2 = 1 THEN Node(0 + (i - 1), Shift(n, i - 1) - 1) ELSE None
      BY <2>0, WaitingSeq, ZenonT(40)
    <3>3. \A i \in 1 .. k : Waiting(t, n2, k)[i] =
             IF Shift(n2, i - 1) % 2 = 1 THEN Node(t + (i - 1), Shift(n2, i - 1) - 1) ELSE None
      BY <1>4, <2>0, WaitingSeq, ZenonT(40)
    <3>. QED
      BY <3>1, <3>2, <3>3, Zenon
  <2>. HIDE DEF s1, s2, u
  <2>6. /\ s1 \o s2 \in Seq(Places)
        /\ Len(s1 \o s2) = Len(s1) + Len(s2)
        /\ \A i \in 1 .. Len(s1) + Len(s2) :
             (s1 \o s2)[i] = IF i <= Len(s1) THEN s1[i] ELSE s2[i - Len(s1)]
    BY <2>1, <2>4, ConcatProperties, Zenon
  <2>7. Len(s1 \o s2) = t + k
    BY <1>3, <2>1, <2>4, <2>6
  <2>8. ASSUME NEW i \in 1 .. t + k PROVE (s1 \o s2)[i] = u[i]
    <3>1. CASE i <= t + 1
      <4>1. i \in 1 .. t + 1 /\ i \in 1 .. Len(s1) + Len(s2) /\ i <= Len(s1)
        BY <2>0, <2>1, <2>4, <3>1
      <4>. QED
        BY <2>5, <2>6, <4>1, Zenon
    <3>2. CASE i > t + 1
      <4>. DEFINE j == i - (t + 1)
      <4>1. /\ i \in 1 .. Len(s1) + Len(s2) /\ ~(i <= Len(s1)) /\ i - Len(s1) = j
            /\ j \in 1 .. k - 1 /\ j + 1 \in 1 .. k /\ (j + 1) - 1 = j /\ j \in Nat
            /\ t + j = i - 1 /\ 0 + (i - 1) = i - 1
        BY <2>0, <2>1, <2>4, <3>2
      <4>. HIDE DEF j
      <4>2. (s1 \o s2)[i] = Waiting(t, n2, k)[j + 1]
        BY <2>4, <2>6, <4>1, Zenon
      <4>3. Waiting(t, n2, k)[j + 1] = IF Shift(n2, j) % 2 = 1 THEN Node(t + j, Shift(n2, j) - 1) ELSE None
        BY <2>5, <4>1, Zenon
      <4>4. Shift(n2, j) = Shift(n, i - 1)
        BY <1>4, <4>1, Zenon
      <4>. QED
        BY <2>5, <4>1, <4>2, <4>3, <4>4, Zenon
    <3>3. i <= t + 1 \/ i > t + 1
      BY <2>0
    <3>. QED
      BY <3>1, <3>2, <3>3, Zenon
  <2>9. s1 \o s2 = u
    BY <2>2, <2>6, <2>7, <2>8, SeqEqual
  <2>. QED
    BY <1>3, <1>6, <2>9, Zenon DEF s1, s2, u
<1>8. layers = [l \in 0 .. t + k - 1 |-> Row(0 + l, Shift(n, l))]
  <2>1. DOMAIN fs \cup above = 0 .. t + k - 1
    <3>1. above = {t + l : l \in (0 .. k - 1) \ {0}}
      BY <1>2, <1>3, Zenon
    <3>2. (0 .. t) \cup {t + l : l \in (0 .. k - 1) \ {0}} \subseteq 0 .. t + k - 1
      BY <1>3
    <3>3. ASSUME NEW i \in 0 .. t + k - 1, i \notin 0 .. t
          PROVE  i \in {t + l : l \in (0 .. k - 1) \ {0}}
      <4>1. i - t \in (0 .. k - 1) \ {0} /\ t + (i - t) = i
        BY <1>3, <3>3
      <4>. QED
        BY <4>1, Zenon
    <3>. QED
      BY <1>1, <3>1, <3>2, <3>3, Zenon
  <2>2. ASSUME NEW l \in 0 .. t + k - 1
        PROVE  (IF l \in DOMAIN fs THEN fs[l] ELSE rebuilt.layers[l - top]) = Row(0 + l, Shift(n, l))
    <3>1. 0 + l = l
      OBVIOUS
    <3>2. CASE l \in 0 .. t
      BY <1>1, <3>1, <3>2, Zenon
    <3>3. CASE l \notin 0 .. t
      <4>1. l - t \in 0 .. k - 1 /\ l - t \in Nat /\ t + (l - t) = l
        BY <1>3, <3>3
      <4>2. rebuilt.layers[l - t] = Row(l, Shift(n2, l - t)) /\ Shift(n2, l - t) = Shift(n, l)
        BY <1>3, <1>4, <4>1, Zenon
      <4>. QED
        BY <1>1, <1>2, <3>1, <3>3, <4>2, Zenon
    <3>. QED
      BY <3>2, <3>3, Zenon
  <2>. HIDE DEF above, top
  <2>. QED
    BY <2>1, <2>2, Zenon
<1>9. RecoveredTree(fs, n, rebuilt) = RightTree(0, n, t + k, 0 .. t + k - 1, FALSE)
  BY <1>0, <1>7, <1>8, Zenon DEF RightTree
<1>. QED
  BY <1>5, <1>9, Zenon

(* tr is the right tree above layer base after n of its nodes. *)
IsRight(tr, base, n) ==
  /\ RightShape(n, Len(tr.parked), DOMAIN tr.layers, tr.allLayers)
  /\ tr = RightTree(base, n, Len(tr.parked), DOMAIN tr.layers, tr.allLayers)

(* How IsRight is shown, and what it says of the shape. *)
LEMMA RightTreeIsRight ==
  ASSUME NEW base \in Nat, NEW n \in Nat, NEW k, NEW D, NEW all, RightShape(n, k, D, all),
         NEW tr, tr = RightTree(base, n, k, D, all)
  PROVE  /\ IsRight(tr, base, n)
         /\ Len(tr.parked) = k /\ DOMAIN tr.layers = D /\ tr.allLayers = all
<1>1. tr.parked = Waiting(base, n, k) /\ DOMAIN tr.layers = D /\ tr.allLayers = all
  BY Zenon DEF RightTree
<1>2. k \in Nat
  BY DEF RightShape
<1>3. Len(tr.parked) = k
  <2>1. Len(Waiting(base, n, k)) = k
    BY <1>2, WaitingSeq, Zenon
  <2>. QED
    BY <1>1, <2>1, Zenon
<1>. QED
  BY <1>1, <1>3, Zenon DEF IsRight

(* The layers of a right tree. *)
LEMMA RightLayers ==
  ASSUME NEW base \in Nat, NEW n \in Nat, NEW tr, IsRight(tr, base, n)
  PROVE  /\ DOMAIN tr.layers \subseteq Nat
         /\ 0 \in DOMAIN tr.layers
         /\ \A l \in DOMAIN tr.layers : /\ tr.layers[l] = Row(base + l, Shift(n, l))
                                        /\ Len(tr.layers[l]) = Shift(n, l)
         /\ Len(tr.layers[0]) = n
<1>. DEFINE D == DOMAIN tr.layers
<1>1. D \subseteq Nat /\ 0 \in D
  BY Zenon DEF IsRight, RightShape
<1>2. \A l \in D : tr.layers[l] = Row(base + l, Shift(n, l))
  <2>1. tr.layers = [l \in D |-> Row(base + l, Shift(n, l))]
    <3>1. tr = RightTree(base, n, Len(tr.parked), D, tr.allLayers)
      BY Zenon DEF IsRight
    <3>. HIDE DEF D
    <3>2. RightTree(base, n, Len(tr.parked), D, tr.allLayers).layers = [l \in D |-> Row(base + l, Shift(n, l))]
      BY Zenon DEF RightTree
    <3>. QED
      BY <3>1, <3>2, Zenon
  <2>. HIDE DEF D
  <2>. QED
    BY <2>1, Zenon
<1>3. ASSUME NEW l \in D PROVE Len(tr.layers[l]) = Shift(n, l)
  <2>. HIDE DEF D
  <2>1. l \in Nat /\ base + l \in Nat
    BY <1>1
  <2>2. Shift(n, l) \in Nat
    BY <2>1, ShiftSteps, Zenon
  <2>3. Len(Row(base + l, Shift(n, l))) = Shift(n, l)
    BY <2>1, <2>2, RowSteps, Zenon
  <2>. QED
    BY <1>2, <2>3, Zenon
<1>4. Len(tr.layers[0]) = n
  BY <1>1, <1>3, ShiftSteps, Zenon
<1>. QED
  BY <1>1, <1>2, <1>3, <1>4

(* A new tree has no leaf. *)
LEMMA NewTreeIsRight ==
  ASSUME NEW base \in Nat
  PROVE  /\ IsRight(NewTree(TRUE), base, 0)
         /\ DOMAIN NewTree(TRUE).layers = {0}
         /\ NewTree(TRUE).layers[0] = <<>>
         /\ NewTree(TRUE).allLayers
<1>1. Shift(0, 0) = 0 /\ Shift(0, 1) = 0
  <2>1. Shift(0, 0) = 0 /\ Shift(0, 0 + 1) = Shift(0, 0) \div 2
    BY ShiftSteps
  <2>. QED
    BY <2>1
<1>2. RightShape(0, 1, {0}, TRUE)
  BY <1>1 DEF RightShape
<1>3. NewTree(TRUE) = RightTree(base, 0, 1, {0}, TRUE)
  <2>1. Waiting(base, 0, 1) = <<None>>
    <3>1. Waiting(base, 0, 1) = [i \in 1 .. 1 |-> None]
      BY <1>1 DEF Waiting
    <3>2. [i \in 1 .. 1 |-> None] = <<None>>
      OBVIOUS
    <3>. QED
      BY <3>1, <3>2, Zenon
  <2>2. [l \in {0} |-> Row(base + l, Shift(0, l))] = [l \in {0} |-> <<>>]
    BY <1>1 DEF Row
  <2>. QED
    BY <2>1, <2>2, Zenon DEF NewTree, RightTree
<1>4. IsRight(NewTree(TRUE), base, 0)
  BY <1>2, <1>3, RightTreeIsRight, Zenon
<1>. QED
  BY <1>4 DEF NewTree

(* The tree grown keeps the layers of tr cached, and only those unless tr  *)
(* caches all layers.                                                      *)
KeepsLayers(tr, grown) ==
  /\ DOMAIN tr.layers \subseteq DOMAIN grown.layers
  /\ ~tr.allLayers => DOMAIN grown.layers = DOMAIN tr.layers
  /\ grown.allLayers = tr.allLayers

(* AddLeaf keeps a tree right. *)
LEMMA AddLeafIsRight ==
  ASSUME NEW base \in Nat, NEW n \in Nat, NEW tr, IsRight(tr, base, n)
  PROVE  /\ IsRight(AddLeaf(tr, Node(base, n)), base, n + 1)
         /\ KeepsLayers(tr, AddLeaf(tr, Node(base, n)))
<1>. DEFINE k == Len(tr.parked)
            D == DOMAIN tr.layers
            all == tr.allLayers
<1>1. RightShape(n, k, D, all) /\ tr = RightTree(base, n, k, D, all)
  BY Zenon DEF IsRight
<1>. HIDE DEF k, D, all
<1>2. PICK m, E : /\ RightShape(n + 1, m, E, all)
                  /\ D \subseteq E
                  /\ ~all => E = D
                  /\ AddLeaf(tr, Node(base, n)) = RightTree(base, n + 1, m, E, all)
  BY <1>1, AddLeafRight, SMT
<1>3. n + 1 \in Nat
  OBVIOUS
<1>. DEFINE grown == AddLeaf(tr, Node(base, n))
<1>4. RightShape(n + 1, m, E, all) /\ grown = RightTree(base, n + 1, m, E, all)
  BY <1>2, Zenon
<1>. HIDE DEF grown
<1>5. IsRight(grown, base, n + 1) /\ DOMAIN grown.layers = E /\ grown.allLayers = all
  BY <1>3, <1>4, RightTreeIsRight, SMT
<1>. QED
  BY <1>2, <1>5, Zenon DEF KeepsLayers, D, all, grown

(* The parked nodes of the right tree are the left siblings of the next    *)
(* leaf, and the next label is the right one.                              *)
LEMMA RightLabel ==
  ASSUME NEW n \in Nat, NEW tr, IsRight(tr, 0, n)
  PROVE  /\ Written(tr.parked) = LeftSiblings(n)
         /\ MakeLabel(n, tr.parked) = Node(0, n)
<1>. DEFINE k == Len(tr.parked)
<1>1. k \in Nat /\ Shift(n, k) = 0
  BY Zenon DEF IsRight, RightShape
<1>2. tr.parked = Waiting(0, n, k)
  <2>1. tr = RightTree(0, n, k, DOMAIN tr.layers, tr.allLayers)
    BY Zenon DEF IsRight
  <2>2. RightTree(0, n, k, DOMAIN tr.layers, tr.allLayers).parked = Waiting(0, n, k)
    BY Zenon DEF RightTree
  <2>. HIDE DEF k
  <2>. QED
    BY <2>1, <2>2, Zenon
<1>. HIDE DEF k
<1>3. Written(tr.parked) = LeftSiblings(n)
  BY <1>1, <1>2, WaitingIsLeftSiblings, Zenon
<1>. QED
  BY <1>3, Zenon DEF MakeLabel, LabelHash, Node

------------------------------------------------------------------------------
(* Proofs and their verification *)

(* Two numbers less than n apart differ modulo n. *)
LEMMA ModuloDiffers ==
  ASSUME NEW n \in Nat, n > 0, NEW a \in Nat, NEW b \in Nat, a < b, b < a + n
  PROVE  a % n # b % n
<1>. SUFFICES ASSUME a % n = b % n PROVE FALSE
  OBVIOUS
<1>. DEFINE p == a \div n
            q == b \div n
<1>1. p \in Int /\ q \in Int /\ a = n * p + (a % n) /\ b = n * q + (b % n)
  OBVIOUS
<1>. HIDE DEF p, q
<1>2. a % n \in Int
  OBVIOUS
<1>3. b - a = n * q - n * p
  <2>. DEFINE x == n * p
              y == n * q
  <2>1. x \in Int /\ y \in Int
    BY <1>1
  <2>. HIDE DEF x, y
  <2>2. b - a = y - x
    BY <1>1, <1>2, <2>1 DEF x, y
  <2>. QED
    BY <2>2 DEF x, y
<1>4. n * q - n * p = n * (q - p)
  BY <1>1
<1>. DEFINE d == q - p
<1>5. d \in Int /\ b - a = n * d
  BY <1>1, <1>3, <1>4
<1>. HIDE DEF d
<1>6. CASE d <= 0
  <2>1. n * d <= 0
    BY <1>5, <1>6
  <2>. QED
    BY <1>5, <2>1
<1>7. CASE d >= 1
  <2>1. n * d >= n
    BY <1>5, <1>7
  <2>. QED
    BY <1>5, <2>1
<1>. QED
  BY <1>5, <1>6, <1>7

(* The indices after k draws. *)
Drawn(challenge, spaceSize, k) == {Digest(challenge, i) % spaceSize : i \in 0 .. k - 1}

(* Every second draw gives a new index, until all are drawn. *)
LEMMA DrawsReach ==
  ASSUME NEW c, IsFiniteSet(c), NEW n \in Nat, n > 0
  PROVE  \A t \in Nat : t <= n => /\ IsFiniteSet(Drawn(c, n, 2 * t))
                                  /\ Cardinality(Drawn(c, n, 2 * t)) = t
<1>. DEFINE P == {t \in Nat : t <= n => /\ IsFiniteSet(Drawn(c, n, 2 * t))
                                        /\ Cardinality(Drawn(c, n, 2 * t)) = t}
            z == Cardinality(c)
<1>0. z \in Nat
  BY FS_CardinalityType
<1>. HIDE DEF z
<1>a. \A i \in Nat : Digest(c, i) = i \div 2 + z
  BY Zenon DEF Digest, z
<1>1. 0 \in P
  <2>1. 0 .. 2 * 0 - 1 = {}
    OBVIOUS
  <2>2. Drawn(c, n, 2 * 0) = {}
    BY <2>1, Zenon DEF Drawn
  <2>. QED
    BY <2>2, FS_EmptySet, Zenon
<1>2. ASSUME NEW t \in Nat, t \in P PROVE t + 1 \in P
  <2>0. t + 1 \in Nat
    OBVIOUS
  <2>. SUFFICES ASSUME t + 1 <= n
                PROVE  /\ IsFiniteSet(Drawn(c, n, 2 * (t + 1)))
                       /\ Cardinality(Drawn(c, n, 2 * (t + 1))) = t + 1
    BY <2>0, Zenon
  <2>. DEFINE D == Drawn(c, n, 2 * t)
              E == Drawn(c, n, 2 * (t + 1))
              x == (t + z) % n
  <2>1. IsFiniteSet(D) /\ Cardinality(D) = t
    BY <1>2
  <2>2. E = D \cup {x}
    <3>1. ASSUME NEW i \in 0 .. 2 * (t + 1) - 1 PROVE Digest(c, i) % n \in D \cup {x}
      <4>1. CASE i \in 0 .. 2 * t - 1
        BY <4>1, Zenon DEF Drawn
      <4>2. CASE i >= 2 * t
        <5>1. i \in Nat /\ i \div 2 = t
          BY <4>2
        <5>2. Digest(c, i) = t + z
          BY <1>a, <5>1, Zenon
        <5>. QED
          BY <5>2, Zenon
      <4>. QED
        BY <4>1, <4>2
    <3>2. \A i \in 0 .. 2 * t - 1 : i \in 0 .. 2 * (t + 1) - 1
      OBVIOUS
    <3>3. D \subseteq E
      BY <3>2, Zenon DEF Drawn
    <3>4. x \in E
      <4>1. 2 * t \in 0 .. 2 * (t + 1) - 1 /\ 2 * t \in Nat /\ (2 * t) \div 2 = t
        OBVIOUS
      <4>2. Digest(c, 2 * t) = t + z
        BY <1>a, <4>1, Zenon
      <4>. QED
        BY <4>1, <4>2, Zenon DEF Drawn
    <3>5. E \subseteq D \cup {x}
      <4>. HIDE DEF D, x
      <4>. QED
        BY <3>1, Zenon DEF Drawn
    <3>. HIDE DEF D, E, x
    <3>. QED
      BY <3>3, <3>4, <3>5, Zenon
  <2>3. x \notin D
    <3>1. ASSUME NEW i \in 0 .. 2 * t - 1 PROVE Digest(c, i) % n # x
      <4>. DEFINE j == i \div 2
      <4>1. i \in Nat /\ j \in Nat /\ j < t
        OBVIOUS
      <4>. HIDE DEF j
      <4>2. Digest(c, i) = j + z
        BY <1>a, <4>1, Zenon DEF j
      <4>3. j + z \in Nat /\ t + z \in Nat /\ j + z < t + z /\ t + z < (j + z) + n
        BY <1>0, <4>1
      <4>4. (j + z) % n # (t + z) % n
        BY <4>3, ModuloDiffers
      <4>. QED
        BY <4>2, <4>4, Zenon
    <3>. HIDE DEF x
    <3>. QED
      BY <3>1, Zenon DEF Drawn
  <2>. HIDE DEF D, E, x
  <2>4. IsFiniteSet(E) /\ Cardinality(E) = t + 1
    BY <2>1, <2>2, <2>3, FS_AddElement
  <2>. QED
    BY <2>4, Zenon DEF E
<1>. HIDE DEF P
<1>3. Nat \subseteq P
  BY <1>1, <1>2, Induction, Zenon
<1>. QED
  BY <1>3 DEF P

(* FiatShamir draws securityParam different indices of leaves. *)
LEMMA FiatShamirIndices ==
  ASSUME NEW c, IsFiniteSet(c), NEW n \in Nat, NEW t \in Nat, t <= n
  PROVE  /\ FiatShamir(c, n, t) \subseteq 0 .. n - 1
         /\ IsFiniteSet(FiatShamir(c, n, t))
         /\ Cardinality(FiatShamir(c, n, t)) = t
<1>. DEFINE Enough(k) == /\ Cardinality(Drawn(c, n, k)) = t
                         /\ \A j \in 0 .. k - 1 : Drawn(c, n, j) # Drawn(c, n, k)
            K == {k \in Nat : Cardinality(Drawn(c, n, k)) = t}
            m == CHOOSE k \in 0 .. 2 * n : Enough(k)
<1>1. FiatShamir(c, n, t) = Drawn(c, n, m)
  <2>1. ~(t > n)
    OBVIOUS
  <2>. QED
    BY <2>1, Zenon DEF FiatShamir, Drawn
<1>2. 2 * t \in K /\ 2 * t \in Nat
  <2>1. 2 * t \in Nat
    OBVIOUS
  <2>2. CASE n > 0
    <3>1. Cardinality(Drawn(c, n, 2 * t)) = t
      BY <2>2, DrawsReach
    <3>. QED
      BY <2>1, <3>1, Zenon
  <2>3. CASE n = 0
    <3>1. t = 0 /\ 0 .. 2 * t - 1 = {}
      BY <2>3
    <3>2. Drawn(c, n, 2 * t) = {}
      BY <3>1, Zenon DEF Drawn
    <3>. QED
      BY <2>1, <3>1, <3>2, FS_EmptySet, Zenon
  <2>. QED
    BY <2>2, <2>3
<1>3. \E k \in 0 .. 2 * n : Enough(k)
  <2>1. PICK k \in K : \A j \in K : k <= j
    <3>1. K \subseteq Nat /\ K # {}
      BY <1>2, Zenon
    <3>. HIDE DEF K
    <3>. QED
      BY <3>1, Least, Zenon
  <2>2. k \in Nat /\ k <= 2 * t /\ Cardinality(Drawn(c, n, k)) = t
    BY <1>2, <2>1, Zenon
  <2>3. ASSUME NEW j \in 0 .. k - 1 PROVE Drawn(c, n, j) # Drawn(c, n, k)
    <3>1. j \in Nat /\ ~(k <= j)
      BY <2>2
    <3>2. j \notin K
      BY <2>1, <3>1, Zenon
    <3>. QED
      BY <2>2, <3>1, <3>2, Zenon
  <2>4. k \in 0 .. 2 * n
    BY <2>2
  <2>. QED
    BY <2>2, <2>3, <2>4, Zenon
<1>4. m \in 0 .. 2 * n /\ Enough(m)
  <2>. HIDE DEF Enough
  <2>. QED
    BY <1>3, Zenon
<1>. HIDE DEF m
<1>5. Drawn(c, n, m) \subseteq 0 .. n - 1
  <2>1. CASE n > 0
    <3>. SUFFICES ASSUME NEW i \in 0 .. m - 1 PROVE Digest(c, i) % n \in 0 .. n - 1
      BY Zenon DEF Drawn
    <3>. DEFINE x == Digest(c, i)
    <3>1. x \in Nat
      <4>1. Cardinality(c) \in Nat
        BY FS_CardinalityType
      <4>2. i \in Nat
        BY <1>4
      <4>. QED
        BY <4>1, <4>2 DEF Digest
    <3>. HIDE DEF x
    <3>2. x % n \in 0 .. n - 1
      BY <2>1, <3>1
    <3>. QED
      BY <3>2, Zenon DEF x
  <2>2. CASE n = 0
    <3>1. 0 .. m - 1 = {}
      BY <1>4, <2>2
    <3>. QED
      BY <3>1, Zenon DEF Drawn
  <2>. QED
    BY <2>1, <2>2
<1>6. IsFiniteSet(0 .. n - 1)
  BY FS_Interval
<1>7. IsFiniteSet(Drawn(c, n, m))
  BY <1>5, <1>6, FS_Subset, Zenon
<1>. QED
  BY <1>1, <1>4, <1>5, <1>7, Zenon

(* How many of S are below x. *)
Rank(S, x) == Cardinality({j \in S : j < x})

(* Sorted lists every index once. *)
LEMMA SortedIndices ==
  ASSUME NEW S, S \subseteq Nat, IsFiniteSet(S)
  PROVE  /\ DOMAIN Sorted(S) = 1 .. Cardinality(S)
         /\ Sorted(S) \in [1 .. Cardinality(S) -> S]
         /\ Range(Sorted(S)) = S
<1>. DEFINE t == Cardinality(S)
            f == [x \in S |-> Rank(S, x) + 1]
<1>0. t \in Nat
  BY FS_CardinalityType
<1>1. ASSUME NEW x \in S
      PROVE  IsFiniteSet({j \in S : j < x}) /\ Rank(S, x) \in Nat /\ Rank(S, x) + 1 <= t
  <2>. DEFINE B == {j \in S : j < x}
  <2>1. x \notin B
    OBVIOUS
  <2>2. B \subseteq S /\ B \cup {x} \subseteq S
    BY Zenon
  <2>. HIDE DEF B
  <2>3. IsFiniteSet(B)
    BY <2>2, FS_Subset, Zenon
  <2>4. Cardinality(B) \in Nat
    BY <2>3, FS_CardinalityType
  <2>5. Cardinality(B \cup {x}) = Cardinality(B) + 1
    BY <2>1, <2>3, FS_AddElement
  <2>6. Cardinality(B \cup {x}) <= t
    BY <2>2, FS_Subset, Zenon
  <2>. QED
    BY <2>3, <2>4, <2>5, <2>6 DEF B, Rank
<1>2. ASSUME NEW x \in S, NEW y \in S, x < y PROVE Rank(S, x) < Rank(S, y)
  <2>. DEFINE B == {j \in S : j < x}
              C == {j \in S : j < y}
  <2>1. x \notin B /\ B \cup {x} \subseteq C
    <3>1. x \in Nat /\ y \in Nat /\ ~(x < x)
      OBVIOUS
    <3>2. \A j \in S : j < x => j < y
      <4>. SUFFICES ASSUME NEW j \in S, j < x PROVE j < y
        OBVIOUS
      <4>1. j \in Nat
        OBVIOUS
      <4>. QED
        BY <1>2, <3>1, <4>1
    <3>. QED
      BY <1>2, <3>1, <3>2, Zenon
  <2>2. IsFiniteSet(B) /\ IsFiniteSet(C) /\ Cardinality(B) \in Nat /\ Cardinality(C) \in Nat
    BY <1>1, Zenon DEF Rank
  <2>. HIDE DEF B, C
  <2>3. Cardinality(B \cup {x}) = Cardinality(B) + 1
    BY <2>1, <2>2, FS_AddElement, Zenon
  <2>4. Cardinality(B \cup {x}) <= Cardinality(C)
    BY <2>1, <2>2, FS_Subset, Zenon
  <2>5. Cardinality(B) < Cardinality(C)
    BY <2>2, <2>3, <2>4
  <2>. QED
    BY <2>5, Zenon DEF B, C, Rank
<1>3. ASSUME NEW x \in S, NEW y \in S, Rank(S, x) = Rank(S, y) PROVE x = y
  <2>0. x \in Nat /\ y \in Nat
    OBVIOUS
  <2>1. Rank(S, x) \in Nat
    BY <1>1, Zenon
  <2>2. ~(Rank(S, x) < Rank(S, y)) /\ ~(Rank(S, y) < Rank(S, x))
    BY <1>3, <2>1
  <2>3. ~(x < y) /\ ~(y < x)
    BY <1>2, <2>2, Zenon
  <2>. QED
    BY <2>0, <2>3
<1>. HIDE DEF t
<1>b. \A x \in S : Rank(S, x) \in Nat /\ Rank(S, x) + 1 <= t
  BY <1>1, Zenon
<1>4. f \in Injection(S, 1 .. t)
  <2>1. f \in [S -> 1 .. t]
    BY <1>0, <1>b
  <2>2. ASSUME NEW x \in S, NEW y \in S, f[x] = f[y] PROVE x = y
    <3>1. Rank(S, x) + 1 = Rank(S, y) + 1
      BY <2>2, Zenon
    <3>2. Rank(S, x) = Rank(S, y)
      BY <1>b, <3>1
    <3>. QED
      BY <1>3, <3>2, Zenon
  <2>. HIDE DEF f
  <2>. QED
    BY <2>1, <2>2, Zenon DEF Injection, IsInjective
<1>5. f \in Surjection(S, 1 .. t)
  <2>1. IsFiniteSet(1 .. t) /\ Cardinality(1 .. t) = t
    BY <1>0, FS_Interval
  <2>. HIDE DEF f
  <2>. QED
    BY <1>4, <2>1, FS_Injection, Zenon DEF t
<1>6. ASSUME NEW k \in 1 .. t PROVE \E x \in S : Rank(S, x) = k - 1
  <2>1. PICK x \in S : f[x] = k
    <3>. HIDE DEF f
    <3>. QED
      BY <1>5, Zenon DEF Surjection
  <2>2. Rank(S, x) + 1 = k
    BY <2>1, Zenon
  <2>3. Rank(S, x) = k - 1
    BY <1>b, <2>2
  <2>. QED
    BY <2>3
<1>. DEFINE id(k) == CHOOSE x \in S : Rank(S, x) = k - 1
<1>7. \A k \in 1 .. t : id(k) \in S /\ Rank(S, id(k)) = k - 1
  BY <1>6, Zenon
<1>8. Sorted(S) = [k \in 1 .. t |-> id(k)]
  BY Zenon DEF Sorted, Rank, t
<1>. HIDE DEF id
<1>9. Sorted(S) \in [1 .. t -> S]
  BY <1>7, <1>8, Zenon
<1>10. ASSUME NEW x \in S PROVE \E k \in 1 .. t : Sorted(S)[k] = x
  <2>1. Rank(S, x) + 1 \in 1 .. t /\ (Rank(S, x) + 1) - 1 = Rank(S, x)
    BY <1>0, <1>b
  <2>2. id(Rank(S, x) + 1) \in S /\ Rank(S, id(Rank(S, x) + 1)) = Rank(S, x)
    BY <1>7, <2>1, Zenon
  <2>3. id(Rank(S, x) + 1) = x
    BY <1>3, <2>2, Zenon
  <2>. QED
    BY <1>8, <2>1, <2>3, Zenon
<1>11. DOMAIN Sorted(S) = 1 .. t
  BY <1>8, Zenon
<1>12. Range(Sorted(S)) = S
  BY <1>9, <1>10, <1>11, Zenon DEF Range
<1>. QED
  BY <1>9, <1>11, <1>12, Zenon DEF t

(* The nodes above a row are the next layer's row. *)
LEMMA ParentsOfRow ==
  ASSUME NEW l \in Nat, NEW w \in Nat
  PROVE  Parents(Row(l, w)) = Row(l + 1, w \div 2)
<1>1. /\ Len(Row(l, w)) = w
      /\ \A i \in 1 .. w : Row(l, w)[i] = Node(l, i - 1)
  BY RowSteps, Zenon
<1>2. ASSUME NEW i \in 1 .. w \div 2
      PROVE  MerkleHash(Row(l, w)[2 * i - 1], Row(l, w)[2 * i]) = Node(l + 1, i - 1)
  <2>1. /\ 2 * i - 1 \in 1 .. w /\ 2 * i \in 1 .. w
        /\ ((2 * i - 1) - 1) % 2 = 0 /\ ((2 * i - 1) - 1) \div 2 = i - 1
        /\ 2 * i - 1 = ((2 * i - 1) - 1) + 1
    OBVIOUS
  <2>. DEFINE left == Node(l, (2 * i - 1) - 1)
              right == Node(l, 2 * i - 1)
  <2>2. Row(l, w)[2 * i - 1] = left /\ Row(l, w)[2 * i] = right
    BY <1>1, <2>1, Zenon
  <2>3. /\ left # <<>> /\ right # <<>> /\ left[1] = l /\ right[1] = l
        /\ left[2] = (2 * i - 1) - 1 /\ right[2] = 2 * i - 1
    BY DEF Node
  <2>. HIDE DEF left, right
  <2>4. MerkleHash(left, right) = <<left[1] + 1, left[2] \div 2>>
    BY <2>1, <2>3, Zenon DEF MerkleHash, Bad
  <2>5. MerkleHash(left, right) = Node(l + 1, i - 1)
    BY <2>1, <2>3, <2>4, Zenon DEF Node
  <2>. QED
    BY <2>2, <2>5, Zenon
<1>. QED
  BY <1>1, <1>2, Zenon DEF Parents, Row

(* They are those of the right tree, also where a layer is not cached. *)
LEMMA CachedNodeRight ==
  ASSUME NEW n \in Nat, NEW tr, IsRight(tr, 0, n), NEW layer \in Nat, NEW index \in Nat,
         index < Shift(n, layer)
  PROVE  CachedNode(tr.layers, layer, index) = Node(layer, index)
<1>. DEFINE layers == tr.layers
            D == DOMAIN layers
            next(f, l) == IF l \in D THEN layers[l] ELSE Parents(f[l - 1])
            row == CHOOSE f : f = [l \in 0 .. layer |-> next(f, l)]
            right == [l \in 0 .. layer |-> Row(l, Shift(n, l))]
<1>0. CachedNode(layers, layer, index) = row[layer][index + 1]
  BY Zenon DEF CachedNode
<1>1. /\ D \subseteq Nat /\ 0 \in D
      /\ \A l \in D : layers[l] = Row(0 + l, Shift(n, l))
  BY RightLayers, SMT
<1>. HIDE DEF layers, D
<1>2. \A l \in D : layers[l] = Row(l, Shift(n, l))
  <2>1. D \subseteq Nat
    BY <1>1
  <2>2. \A l \in D : 0 + l = l
    BY <2>1
  <2>. QED
    BY <1>1, <2>2, Zenon
<1>3. ASSUME NEW l \in 0 .. layer, l \notin D, NEW f, f[l - 1] = Row(l - 1, Shift(n, l - 1))
      PROVE  Parents(f[l - 1]) = Row(l, Shift(n, l))
  <2>1. l # 0
    BY <1>1, <1>3, Zenon
  <2>2. l - 1 \in Nat /\ (l - 1) + 1 = l
    BY <2>1
  <2>3. Shift(n, l - 1) \in Nat /\ Shift(n, (l - 1) + 1) = Shift(n, l - 1) \div 2
    BY <2>2, ShiftSteps, Zenon
  <2>4. Parents(Row(l - 1, Shift(n, l - 1))) = Row((l - 1) + 1, Shift(n, l - 1) \div 2)
    BY <2>2, <2>3, ParentsOfRow, Zenon
  <2>. QED
    BY <1>3, <2>2, <2>3, <2>4, Zenon
<1>4. right = [l \in 0 .. layer |-> next(right, l)]
  <2>. SUFFICES ASSUME NEW l \in 0 .. layer PROVE right[l] = next(right, l)
    BY Zenon
  <2>1. CASE l \in D
    BY <1>2, <2>1, Zenon
  <2>2. CASE l \notin D
    <3>1. l # 0
      BY <1>1, <2>2, Zenon
    <3>2. l - 1 \in 0 .. layer
      BY <3>1
    <3>3. right[l - 1] = Row(l - 1, Shift(n, l - 1)) /\ right[l] = Row(l, Shift(n, l))
      BY <3>2, Zenon
    <3>. HIDE DEF right
    <3>. QED
      BY <1>3, <2>2, <3>3, Zenon
  <2>. QED
    BY <2>1, <2>2
<1>5. row = [l \in 0 .. layer |-> next(row, l)]
  <2>. HIDE DEF right, next
  <2>. QED
    BY <1>4, Zenon
<1>. HIDE DEF row
<1>. DEFINE P == {l \in Nat : l <= layer => row[l] = Row(l, Shift(n, l))}
<1>6. 0 \in P
  <2>1. 0 \in 0 .. layer
    OBVIOUS
  <2>2. row[0] = next(row, 0)
    BY <1>5, <2>1, Zenon
  <2>. QED
    BY <1>1, <1>2, <2>2, Zenon
<1>7. ASSUME NEW l \in Nat, l \in P PROVE l + 1 \in P
  <2>0. l + 1 \in Nat
    OBVIOUS
  <2>. SUFFICES ASSUME l + 1 <= layer PROVE row[l + 1] = Row(l + 1, Shift(n, l + 1))
    BY <2>0, Zenon
  <2>1. l + 1 \in 0 .. layer /\ (l + 1) - 1 = l /\ l <= layer
    OBVIOUS
  <2>2. row[l + 1] = next(row, l + 1) /\ row[l] = Row(l, Shift(n, l))
    BY <1>5, <1>7, <2>1, Zenon
  <2>3. CASE l + 1 \in D
    BY <1>2, <2>2, <2>3, Zenon
  <2>4. CASE l + 1 \notin D
    <3>1. row[(l + 1) - 1] = Row((l + 1) - 1, Shift(n, (l + 1) - 1))
      BY <2>1, <2>2, Zenon
    <3>2. Parents(row[(l + 1) - 1]) = Row(l + 1, Shift(n, l + 1))
      BY <1>3, <2>1, <2>4, <3>1, Zenon
    <3>. QED
      BY <2>2, <2>4, <3>2, Zenon
  <2>. QED
    BY <2>3, <2>4
<1>. HIDE DEF P
<1>8. Nat \subseteq P
  BY <1>6, <1>7, Induction, Zenon
<1>9. row[layer] = Row(layer, Shift(n, layer))
  <2>1. layer \in P /\ layer <= layer
    BY <1>8
  <2>. QED
    BY <2>1, Zenon DEF P
<1>10. Shift(n, layer) \in Nat
  BY ShiftSteps, Zenon
<1>11. index + 1 \in 1 .. Shift(n, layer) /\ (index + 1) - 1 = index
  BY <1>10
<1>12. Row(layer, Shift(n, layer))[index + 1] = Node(layer, (index + 1) - 1)
  BY <1>10, <1>11, RowSteps, Zenon
<1>. QED
  BY <1>0, <1>9, <1>11, <1>12, Zenon DEF layers

(* What is written is present. *)
LEMMA WrittenPresent ==
  ASSUME NEW V, NEW s \in Seq(V \cup {None})
  PROVE  Written(s) \in Seq(V \ {None})
<1>1. PICK b : Buffers(b, s) /\ Written(s) = b[Len(s)]
  BY WrittenSteps, Zenon
<1>2. Len(s) \in Nat /\ \A i \in 1 .. Len(s) : s[i] \in V \cup {None}
  OBVIOUS
<1>. DEFINE P == {i \in Nat : i <= Len(s) => b[i] \in Seq(V \ {None})}
<1>3. 0 \in P
  <2>1. b[0] = <<>>
    BY <1>1, Zenon DEF Buffers
  <2>2. <<>> \in Seq(V \ {None})
    OBVIOUS
  <2>3. 0 \in Nat
    OBVIOUS
  <2>. QED
    BY <2>1, <2>2, <2>3, Zenon
<1>4. ASSUME NEW i \in Nat, i \in P PROVE i + 1 \in P
  <2>0. i + 1 \in Nat
    OBVIOUS
  <2>. SUFFICES ASSUME i + 1 <= Len(s) PROVE b[i + 1] \in Seq(V \ {None})
    BY <2>0, Zenon
  <2>1. i <= Len(s) /\ i \in 0 .. Len(s) - 1 /\ i + 1 \in 1 .. Len(s)
    BY <1>2
  <2>2. b[i] \in Seq(V \ {None})
    BY <1>4, <2>1, Zenon
  <2>3. b[i + 1] = IF Present(s[i + 1]) THEN Append(b[i], s[i + 1]) ELSE b[i]
    BY <1>1, <2>1, Zenon DEF Buffers
  <2>4. Present(s[i + 1]) => s[i + 1] \in V \ {None}
    BY <1>2, <2>1, Zenon DEF Present
  <2>5. \A x \in V \ {None} : Append(b[i], x) \in Seq(V \ {None})
    BY <2>2
  <2>. QED
    BY <2>2, <2>3, <2>4, <2>5, Zenon
<1>. HIDE DEF P
<1>5. Nat \subseteq P
  BY <1>3, <1>4, Induction, Zenon
<1>6. Len(s) \in P /\ Len(s) <= Len(s)
  BY <1>2, <1>5
<1>. QED
  BY <1>1, <1>6, Zenon DEF P

(* Present nodes are all written. *)
LEMMA WrittenWhole ==
  ASSUME NEW V, NEW s \in Seq(V \ {None})
  PROVE  Written(s) = s
<1>. DEFINE W == V \ {None}
<1>1. PICK b : Buffers(b, s) /\ Written(s) = b[Len(s)]
  BY WrittenSteps, Zenon
<1>2. Len(s) \in Nat /\ \A i \in 1 .. Len(s) : s[i] \in W /\ Present(s[i])
  BY DEF Present
<1>. DEFINE P == {i \in Nat : i <= Len(s) => /\ b[i] \in Seq(W) /\ Len(b[i]) = i
                                             /\ \A j \in 1 .. i : b[i][j] = s[j]}
<1>3. 0 \in P
  <2>1. b[0] = <<>>
    BY <1>1, Zenon DEF Buffers
  <2>2. <<>> \in Seq(W) /\ Len(<<>>) = 0 /\ 1 .. 0 = {}
    OBVIOUS
  <2>3. 0 \in Nat
    OBVIOUS
  <2>. HIDE DEF W
  <2>. QED
    BY <2>1, <2>2, <2>3, Zenon
<1>4. ASSUME NEW i \in Nat, i \in P PROVE i + 1 \in P
  <2>0. i + 1 \in Nat
    OBVIOUS
  <2>. SUFFICES ASSUME i + 1 <= Len(s)
                PROVE  /\ b[i + 1] \in Seq(W) /\ Len(b[i + 1]) = i + 1
                       /\ \A j \in 1 .. i + 1 : b[i + 1][j] = s[j]
    BY <2>0, Zenon
  <2>1. i <= Len(s) /\ i \in 0 .. Len(s) - 1 /\ i + 1 \in 1 .. Len(s)
    BY <1>2
  <2>. DEFINE c == b[i]
              x == s[i + 1]
  <2>2. c \in Seq(W) /\ Len(c) = i /\ \A j \in 1 .. i : c[j] = s[j]
    BY <1>4, <2>1, Zenon
  <2>3. b[i + 1] = Append(c, x) /\ x \in W
    BY <1>1, <1>2, <2>1, Zenon DEF Buffers
  <2>. HIDE DEF c, x, W
  <2>4. /\ Append(c, x) \in Seq(W) /\ Len(Append(c, x)) = i + 1
        /\ \A j \in 1 .. i : Append(c, x)[j] = c[j]
        /\ Append(c, x)[i + 1] = x
    BY <2>2, <2>3, AppendProperties, SMT
  <2>5. ASSUME NEW j \in 1 .. i + 1 PROVE Append(c, x)[j] = s[j]
    <3>1. CASE j \in 1 .. i
      BY <2>2, <2>4, <3>1, Zenon
    <3>2. CASE j = i + 1
      <4>1. s[j] = x
        BY <3>2, Zenon DEF x
      <4>. QED
        BY <2>4, <3>2, <4>1, Zenon
    <3>3. j \in 1 .. i \/ j = i + 1
      OBVIOUS
    <3>. QED
      BY <3>1, <3>2, <3>3, Zenon
  <2>. QED
    BY <2>3, <2>4, <2>5, Zenon
<1>. HIDE DEF P
<1>5. Nat \subseteq P
  BY <1>3, <1>4, Induction, Zenon
<1>6. Len(s) \in P /\ Len(s) <= Len(s)
  BY <1>2, <1>5
<1>. DEFINE w == b[Len(s)]
<1>7. w \in Seq(W) /\ Len(w) = Len(s) /\ \A j \in 1 .. Len(s) : w[j] = s[j]
  BY <1>6, Zenon DEF P
<1>. HIDE DEF w, W
<1>8. w = s
  BY <1>7, SeqEqual, SMT DEF W
<1>. QED
  BY <1>1, <1>8, Zenon DEF w

(* A verifier makes the label of a leaf from its left siblings. *)
LEMMA LabelFromLeftSiblings ==
  ASSUME NEW n \in Nat
  PROVE  MakeLabel(n, LeftSiblings(n)) = Node(0, n)
<1>. DEFINE V == Nat \X Nat
            s == Waiting(0, n, n)
<1>1. Shift(n, n) = 0
  BY ShiftOut
<1>2. Written(s) = LeftSiblings(n)
  BY <1>1, WaitingIsLeftSiblings, Zenon
<1>3. s \in Seq(V \cup {None})
  <2>1. ASSUME NEW i \in 1 .. n
        PROVE  (IF Shift(n, i - 1) % 2 = 1 THEN Node(0 + (i - 1), Shift(n, i - 1) - 1) ELSE None)
                 \in V \cup {None}
    <3>1. i - 1 \in Nat
      OBVIOUS
    <3>2. Shift(n, i - 1) \in Nat
      BY <3>1, ShiftSteps, Zenon
    <3>3. Shift(n, i - 1) % 2 = 1 => Node(0 + (i - 1), Shift(n, i - 1) - 1) \in V
      BY <3>1, <3>2 DEF Node
    <3>. QED
      BY <3>3, Zenon
  <2>. HIDE DEF V
  <2>. QED
    BY <2>1 DEF Waiting
<1>. HIDE DEF V, s
<1>4. LeftSiblings(n) \in Seq(V \ {None})
  BY <1>2, <1>3, WrittenPresent, Zenon
<1>5. Written(LeftSiblings(n)) = LeftSiblings(n)
  BY <1>4, WrittenWhole, Zenon
<1>. QED
  BY <1>5, Zenon DEF MakeLabel, LabelHash, Node

(* The root of the right tree of n leaves, as the verifier computes it. *)
RootOf(n) == {<<l, <<l, Shift(n, l) - 1>>>> : l \in {k \in 0 .. n : Shift(n, k) % 2 = 1}}

(* It is the root of a right tree, and a finite set. *)
LEMMA RootRight ==
  ASSUME NEW n \in Nat, NEW tr, IsRight(tr, 0, n)
  PROVE  Root(tr) = RootOf(n) /\ IsFiniteSet(RootOf(n))
<1>. DEFINE k == Len(tr.parked)
            parked == tr.parked
            at(l) == <<l, <<l, Shift(n, l) - 1>>>>
            B == {l \in 0 .. n : Shift(n, l) % 2 = 1}
<1>1. k \in Nat /\ Shift(n, k) = 0
  BY Zenon DEF IsRight, RightShape
<1>2. parked = Waiting(0, n, k)
  <2>. DEFINE D == DOMAIN tr.layers
              all == tr.allLayers
  <2>1. tr = RightTree(0, n, k, D, all)
    BY Zenon DEF IsRight
  <2>. HIDE DEF k, D, all
  <2>2. RightTree(0, n, k, D, all).parked = Waiting(0, n, k)
    BY Zenon DEF RightTree
  <2>. QED
    BY <2>1, <2>2, Zenon
<1>. HIDE DEF k, parked
<1>3. /\ DOMAIN parked = 1 .. k
      /\ \A i \in 1 .. k : parked[i] =
           IF Shift(n, i - 1) % 2 = 1 THEN Node(0 + (i - 1), Shift(n, i - 1) - 1) ELSE None
  BY <1>2, Zenon DEF Waiting
<1>4. ASSUME NEW l \in Nat PROVE Shift(n, l) \in Nat /\ (Shift(n, l) % 2 = 1 => l < k /\ l <= n)
  <2>1. Shift(n, l) \in Nat
    BY ShiftSteps, Zenon
  <2>2. l >= k => Shift(n, l) = 0
    BY <1>1, ShiftZero, Zenon
  <2>3. l >= n => Shift(n, l) = 0
    BY ShiftOut, Zenon
  <2>. QED
    BY <1>1, <2>1, <2>2, <2>3
<1>5. ASSUME NEW i \in 1 .. k, Present(parked[i]) PROVE i - 1 \in B /\ <<i - 1, parked[i]>> = at(i - 1)
  <2>1. i - 1 \in Nat /\ 0 + (i - 1) = i - 1
    OBVIOUS
  <2>2. Shift(n, i - 1) % 2 = 1 /\ parked[i] = Node(0 + (i - 1), Shift(n, i - 1) - 1)
    BY <1>3, <1>5, Zenon DEF Present
  <2>3. i - 1 \in 0 .. n
    BY <1>4, <2>1, <2>2
  <2>. QED
    BY <2>1, <2>2, <2>3, Zenon DEF Node
<1>6. ASSUME NEW l \in B
      PROVE  l + 1 \in 1 .. k /\ Present(parked[l + 1]) /\ <<(l + 1) - 1, parked[l + 1]>> = at(l)
  <2>1. l \in Nat /\ Shift(n, l) % 2 = 1 /\ (l + 1) - 1 = l /\ 0 + l = l
    OBVIOUS
  <2>2. l + 1 \in 1 .. k /\ Shift(n, l) \in Nat
    BY <1>1, <1>4, <2>1
  <2>3. parked[l + 1] = Node(l, Shift(n, l) - 1)
    BY <1>3, <2>1, <2>2, Zenon
  <2>4. Node(l, Shift(n, l) - 1) \in Nat \X Nat
    BY <2>1, <2>2 DEF Node
  <2>5. Present(parked[l + 1])
    BY <2>3, <2>4, NoneIsNoNode, Zenon DEF Present
  <2>. QED
    BY <2>1, <2>2, <2>3, <2>5, Zenon DEF Node
<1>7. Root(tr) = {<<i - 1, parked[i]>> : i \in {j \in 1 .. k : Present(parked[j])}}
  BY <1>3, Zenon DEF Root, parked
<1>8. RootOf(n) = {at(l) : l \in B}
  BY Zenon DEF RootOf
<1>9. IsFiniteSet({at(l) : l \in B})
  <2>. DEFINE R == {at(l) : l \in B}
              f == [p \in R |-> p[1]]
  <2>1. \A l \in B : at(l)[1] = l
    BY Zenon
  <2>2. IsFiniteSet(0 .. n)
    BY FS_Interval
  <2>. HIDE DEF at
  <2>3. f \in [R -> 0 .. n]
    BY <2>1, Zenon
  <2>4. ASSUME NEW p \in R, NEW q \in R, f[p] = f[q] PROVE p = q
    <3>1. p[1] = q[1]
      BY <2>4, Zenon
    <3>2. PICK l \in B : p = at(l)
      OBVIOUS
    <3>3. PICK m \in B : q = at(m)
      OBVIOUS
    <3>4. l = m
      BY <2>1, <3>1, <3>2, <3>3, Zenon
    <3>. QED
      BY <3>2, <3>3, <3>4, Zenon
  <2>. HIDE DEF f, R
  <2>5. f \in Injection(R, 0 .. n)
    BY <2>3, <2>4, Zenon DEF Injection, IsInjective
  <2>6. IsFiniteSet(R)
    BY <2>2, <2>5, FS_Injection, Zenon
  <2>. QED
    BY <2>6, Zenon DEF R
<1>. HIDE DEF B, at
<1>10. Root(tr) \subseteq {at(l) : l \in B}
  BY <1>5, <1>7, Zenon
<1>11. {at(l) : l \in B} \subseteq Root(tr)
  BY <1>6, <1>7, Zenon
<1>. QED
  BY <1>8, <1>9, <1>10, <1>11, Zenon

(* The proof that generateProof makes from a right tree with at least as   *)
(* many leaves as the security parameter is accepted by verifier.Validate. *)
THEOREM ProofRight ==
  ASSUME NEW n \in Nat, NEW t \in Nat, t <= n, NEW tr, IsRight(tr, 0, n)
  PROVE  Validate(MerkleProof(tr, n, t), n, t)
<1>. DEFINE root == Root(tr)
            S == FiatShamir(root, n, t)
            order == Sorted(S)
            leaf(k) == tr.layers[0][order[k] + 1]
            proof == MerkleProof(tr, n, t)
<1>1. root = RootOf(n) /\ IsFiniteSet(root)
  <2>1. Root(tr) = RootOf(n) /\ IsFiniteSet(RootOf(n))
    BY RootRight
  <2>. QED
    BY <2>1, Zenon
<1>2. /\ proof.root = root
      /\ proof.provenLeaves = [k \in DOMAIN order |-> leaf(k)]
      /\ proof.proofNodes = [p \in Siblings(S, n) |-> CachedNode(tr.layers, p[1], p[2])]
  BY Zenon DEF MerkleProof
<1>3. S \subseteq 0 .. n - 1 /\ IsFiniteSet(S) /\ Cardinality(S) = t
  <2>. HIDE DEF root
  <2>. QED
    BY <1>1, FiatShamirIndices
<1>. HIDE DEF S, proof
<1>4. DOMAIN order = 1 .. t /\ order \in [1 .. t -> S] /\ Range(order) = S
  <2>1. S \subseteq Nat
    BY <1>3
  <2>2. /\ DOMAIN Sorted(S) = 1 .. Cardinality(S)
        /\ Sorted(S) \in [1 .. Cardinality(S) -> S]
        /\ Range(Sorted(S)) = S
    BY <1>3, <2>1, SortedIndices, Zenon
  <2>. QED
    BY <1>3, <2>2, Zenon
<1>5. tr.layers[0] = Row(0, n)
  <2>1. 0 \in DOMAIN tr.layers /\ tr.layers[0] = Row(0 + 0, Shift(n, 0))
    BY RightLayers, SMT
  <2>2. Shift(n, 0) = n
    BY ShiftSteps, Zenon
  <2>3. 0 + 0 = 0
    OBVIOUS
  <2>. QED
    BY <2>1, <2>2, <2>3, Zenon
<1>. HIDE DEF order
<1>6. ASSUME NEW k \in 1 .. t
      PROVE  order[k] \in Nat /\ leaf(k) = Node(0, order[k])
  <2>. DEFINE id == order[k]
  <2>1. id \in 0 .. n - 1
    BY <1>3, <1>4, Zenon
  <2>. HIDE DEF id
  <2>2. id \in Nat /\ id + 1 \in 1 .. n /\ (id + 1) - 1 = id
    BY <2>1
  <2>3. Row(0, n)[id + 1] = Node(0, (id + 1) - 1)
    BY <2>2, RowSteps, Zenon
  <2>. QED
    BY <1>5, <2>2, <2>3, Zenon DEF id
<1>. HIDE DEF leaf
<1>7. /\ DOMAIN proof.provenLeaves = 1 .. t
      /\ \A k \in 1 .. t : proof.provenLeaves[k] = Node(0, order[k])
  BY <1>2, <1>4, <1>6, Zenon
<1>8. Len(proof.provenLeaves) = t
  <2>1. proof.provenLeaves = [k \in 1 .. t |-> leaf(k)]
    BY <1>2, <1>4, Zenon
  <2>. QED
    BY <2>1
<1>9. ASSUME NEW p \in Siblings(S, n) PROVE CachedNode(tr.layers, p[1], p[2]) = p
  <2>1. p \in (0 .. n) \X (0 .. n) /\ p[2] < Shift(n, p[1])
    BY Zenon DEF Siblings
  <2>2. p[1] \in Nat /\ p[2] \in Nat /\ p = <<p[1], p[2]>>
    BY <2>1
  <2>3. CachedNode(tr.layers, p[1], p[2]) = Node(p[1], p[2])
    BY <2>1, <2>2, CachedNodeRight
  <2>. QED
    BY <2>2, <2>3, Zenon DEF Node
<1>10. /\ DOMAIN proof.proofNodes = Siblings(S, n)
       /\ \A p \in Siblings(S, n) : proof.proofNodes[p] = p
  BY <1>2, <1>9, Zenon
<1>11. PartialTreeValid(order, proof, n)
  <2>1. \A k \in DOMAIN order : proof.provenLeaves[k] = <<0, order[k]>>
    BY <1>4, <1>7, Zenon DEF Node
  <2>2. DOMAIN proof.proofNodes = Siblings(Range(order), n)
    BY <1>4, <1>10, Zenon
  <2>3. \A p \in DOMAIN proof.proofNodes : proof.proofNodes[p] = p
    BY <1>10, Zenon
  <2>4. proof.root = RootOf(n)
    BY <1>1, <1>2, Zenon
  <2>. HIDE DEF root
  <2>. QED
    BY <2>1, <2>2, <2>3, <2>4, Zenon DEF PartialTreeValid, RootOf
<1>12. \A k \in DOMAIN order : proof.provenLeaves[k] = MakeLabel(order[k], LeftSiblings(order[k]))
  BY <1>4, <1>6, <1>7, LabelFromLeftSiblings, Zenon
<1>13. Sorted(FiatShamir(proof.root, n, t)) = order
  BY <1>2, Zenon DEF order, S
<1>14. Validate(proof, n, t)
  <2>. HIDE DEF root
  <2>. QED
    BY <1>8, <1>11, <1>12, <1>13, Zenon DEF Validate
<1>. QED
  BY <1>14, Zenon DEF proof
==============================================================================
