---------------------------- MODULE Prover_proofs ----------------------------
(***************************************************************************)
(* For every security parameter, checkpoint rate, memory layer, number of  *)
(* leaves and number of stops: the tree of an execution and its layer      *)
(* files hold the nodes of the right tree, recovery gives it back, the     *)
(* saved proof passes the verifier, and an execution does what ProvenWork  *)
(* promises.                                                               *)
(***************************************************************************)
EXTENDS Prover, ProofTree_proofs

(* Where sequentialWork owns the tree. *)
Running == {"work", "select", "flush", "save", "prove"}

(* The layer files fs reach from layer 0 to t without a gap, hold nodes of *)
(* the right tree only, and at least those of n leaves.                    *)
StoredAs(fs, t, n) ==
  /\ t \in Nat
  /\ DOMAIN fs = 0 .. t
  /\ fs = [l \in 0 .. t |-> Row(l, Len(fs[l]))]
  /\ \A l \in 0 .. t : Len(fs[l]) \in Nat /\ Len(fs[l]) >= Shift(n, l)

(* Every file belongs to a cached layer, which it does not run ahead of;   *)
(* until the first recovery the files are those of the layers below        *)
(* memoryLayer.                                                            *)
WorksOn(tr, n, fs, mem) ==
  /\ IsRight(tr, 0, n)
  /\ DOMAIN fs # {}
  /\ DOMAIN fs \subseteq DOMAIN tr.layers
  /\ \A l \in DOMAIN fs : Len(fs[l]) <= Shift(n, l)
  /\ tr.allLayers => mem >= 1 /\ DOMAIN fs = {l \in DOMAIN tr.layers : l < mem}

(* The files hold exactly the nodes of n leaves. *)
FlushedAt(fs, n) == \A l \in DOMAIN fs : Len(fs[l]) = Shift(n, l)

(* The small tree of recovery is right above the top file's layer t. *)
RebuildsOn(tr, t) ==
  /\ tr.allLayers
  /\ Len(tr.layers[0]) \in Nat
  /\ IsRight(tr, t, Len(tr.layers[0]))

(* The inductive invariant, one conjunct per phase of an execution: a new  *)
(* round has no file; once there are files they are right and hold what    *)
(* the saved leaves need; a process that is down or recovering goes on     *)
(* from the saved leaves; the working tree is right and not behind its     *)
(* files; a checkpoint finds the files flushed; recovery rebuilds the      *)
(* right tree above the top file.                                          *)
Fresh == pc = "new" => DOMAIN files = {} /\ tree = NewTree(TRUE) /\ leaves = 0
Stored == DOMAIN files # {} => StoredAs(files, TopLayer, numLeaves)
GoesBack == pc \in {"off", "recover", "failed"} => leaves = numLeaves
Working == pc \in Running => WorksOn(tree, leaves, files, memoryLayer)
Flushed == pc \in {"save", "prove"} => FlushedAt(files, leaves)
Rebuilds == pc = "recover" /\ DOMAIN files # {} => RebuildsOn(tree, TopLayer)

TreeInv ==
  /\ TypeOK
  /\ Fresh
  /\ Stored
  /\ GoesBack
  /\ Working
  /\ Flushed
  /\ Rebuilds
  /\ FailsOnlyWithoutNodes

(* Files of the right nodes, w[l] of them in layer l; that n leaves have   *)
(* no more; and that the files fs are as long.                             *)
Rows(t, w) == [l \in 0 .. t |-> Row(l, w[l])]
Covers(w, t, n) == \A l \in 0 .. t : w[l] \in Nat /\ w[l] >= Shift(n, l)
Widths(fs, t, w) == \A l \in 0 .. t : Len(fs[l]) = w[l]

(* How StoredAs is shown. *)
LEMMA RowsAreStored ==
  ASSUME NEW t \in Nat, NEW n \in Nat, NEW w, Covers(w, t, n)
  PROVE  StoredAs(Rows(t, w), t, n) /\ Widths(Rows(t, w), t, w)
<1>. DEFINE fs == Rows(t, w)
<1>1. \A l \in 0 .. t : fs[l] = Row(l, w[l]) /\ w[l] \in Nat /\ l \in Nat
  BY DEF Rows, Covers
<1>2. ASSUME NEW l \in 0 .. t PROVE Len(fs[l]) = w[l]
  <2>1. Len(Row(l, w[l])) = w[l]
    BY <1>1, RowSteps, Zenon
  <2>. QED
    BY <1>1, <2>1, Zenon
<1>3. fs = [l \in 0 .. t |-> Row(l, Len(fs[l]))]
  <2>1. fs = [l \in 0 .. t |-> Row(l, w[l])]
    BY Zenon DEF Rows
  <2>. HIDE DEF fs
  <2>. QED
    BY <1>2, <2>1, Zenon
<1>4. DOMAIN fs = 0 .. t
  BY Zenon DEF Rows
<1>5. \A l \in 0 .. t : Len(fs[l]) \in Nat /\ Len(fs[l]) >= Shift(n, l)
  BY <1>1, <1>2, Zenon DEF Covers
<1>. HIDE DEF fs
<1>6. StoredAs(fs, t, n) /\ Widths(fs, t, w)
  BY <1>2, <1>3, <1>4, <1>5, Zenon DEF StoredAs, Widths
<1>. QED
  BY <1>6, Zenon DEF fs

(* What StoredAs says. *)
LEMMA StoredRows ==
  ASSUME NEW fs, NEW t, NEW n, StoredAs(fs, t, n)
  PROVE  /\ t \in Nat /\ DOMAIN fs = 0 .. t /\ DOMAIN fs # {} /\ Max(DOMAIN fs) = t
         /\ \A l \in 0 .. t : /\ fs[l] = Row(l, Len(fs[l]))
                              /\ Len(fs[l]) \in Nat
                              /\ Len(fs[l]) >= Shift(n, l)
<1>1. t \in Nat /\ DOMAIN fs = 0 .. t
  BY Zenon DEF StoredAs
<1>2. Max(DOMAIN fs) = t
  BY <1>1, LayersUpTo, Zenon
<1>3. DOMAIN fs # {}
  BY <1>1
<1>4. \A l \in 0 .. t : fs[l] = Row(l, Len(fs[l]))
  <2>. DEFINE g == [l \in 0 .. t |-> Row(l, Len(fs[l]))]
  <2>1. fs = g
    BY Zenon DEF StoredAs
  <2>2. \A l \in 0 .. t : g[l] = Row(l, Len(fs[l]))
    BY Zenon
  <2>. HIDE DEF g
  <2>. QED
    BY <2>1, <2>2, Zenon
<1>5. \A l \in 0 .. t : Len(fs[l]) \in Nat /\ Len(fs[l]) >= Shift(n, l)
  BY Zenon DEF StoredAs
<1>. QED
  BY <1>1, <1>2, <1>3, <1>4, <1>5, Zenon

(* A new execution has neither files nor leaves. *)
LEMMA InitTree == Init => TreeInv
<1>. SUFFICES ASSUME Init PROVE TreeInv
  OBVIOUS
<1>1. TypeOK
  <2>1. DOMAIN files = {}
    BY Zenon DEF Init
  <2>2. pc \in ProverPcs /\ afterwards \in {"work", "off", "prove"} /\ ctxDone \in BOOLEAN /\ stop \in BOOLEAN
    BY Zenon DEF Init, ProverPcs
  <2>3. leaves = 0 /\ numLeaves = 0 /\ stops = 0 /\ memoryLayer \in Nat
    BY ProverConstants, Zenon DEF Init
  <2>4. leaves \in Nat /\ numLeaves \in 0 .. leaves /\ stops \in 0 .. MaxStops
    BY <2>3, ProverConstants
  <2>. QED
    BY <2>1, <2>2, <2>3, <2>4, Zenon DEF TypeOK
<1>2. Fresh /\ Stored /\ GoesBack /\ Working /\ Flushed /\ Rebuilds /\ FailsOnlyWithoutNodes
  BY DEF Init, Fresh, Stored, GoesBack, Working, Running, Flushed, Rebuilds, FailsOnlyWithoutNodes
<1>. QED
  BY <1>1, <1>2 DEF TreeInv

(* makeProofTree: layer 0 gets its file. *)
LEMMA MakeKeeps == TreeInv /\ makeProofTree => TreeInv'
<1>. SUFFICES ASSUME TreeInv, makeProofTree PROVE TreeInv'
  OBVIOUS
<1>1. /\ pc = "new" /\ pc' = "work" /\ memoryLayer' = Max({memoryLayer, 1})
      /\ files' = [l \in {0} |-> <<>>]
      /\ UNCHANGED <<afterwards, ctxDone, stop, tree, leaves, numLeaves, nip, stops>>
  BY DEF makeProofTree
<1>2. tree = NewTree(TRUE) /\ leaves = 0 /\ numLeaves = 0
  BY <1>1 DEF TreeInv, Fresh, TypeOK
<1>3. memoryLayer' \in Nat /\ memoryLayer' >= 1
  <2>1. memoryLayer \in Nat
    BY DEF TreeInv, TypeOK
  <2>. QED
    BY <1>1, <2>1, MaxOfTwo
<1>4. TypeOK'
  BY <1>1, <1>3 DEF TreeInv, TypeOK, ProverPcs
<1>5. StoredAs(files', 0, 0)
  <2>. DEFINE w == [l \in 0 .. 0 |-> 0]
  <2>2. Shift(0, 0) = 0
    BY ShiftSteps
  <2>3. Covers(w, 0, 0)
    BY <2>2 DEF Covers
  <2>4. files' = Rows(0, w)
    BY <1>1 DEF Row, Rows
  <2>. HIDE DEF w
  <2>. QED
    BY <2>3, <2>4, RowsAreStored, Zenon
<1>6. TopLayer' = 0 /\ DOMAIN files' = {0} /\ files'[0] = <<>>
  <2>1. DOMAIN files' = {0} /\ files'[0] = <<>>
    BY <1>1
  <2>2. Max(DOMAIN files') = 0
    BY <1>5, StoredRows, Zenon
  <2>. QED
    BY <2>1, <2>2 DEF TopLayer
<1>7. WorksOn(tree, 0, files', memoryLayer')
  <2>1. /\ IsRight(tree, 0, 0)
        /\ DOMAIN tree.layers = {0}
        /\ tree.allLayers
    BY <1>2, NewTreeIsRight, Zenon
  <2>2. \A l \in DOMAIN files' : Len(files'[l]) <= Shift(0, l)
    BY <1>6, ShiftSteps
  <2>3. {l \in DOMAIN tree.layers : l < memoryLayer'} = {0}
    BY <1>3, <2>1
  <2>. QED
    BY <1>3, <1>6, <2>1, <2>2, <2>3 DEF WorksOn
<1>. QED
  BY <1>1, <1>2, <1>4, <1>5, <1>6, <1>7
    DEF TreeInv, Fresh, Stored, GoesBack, Working, Flushed, Rebuilds, FailsOnlyWithoutNodes

(* AppendLeaf: the next leaf of the right tree; a layer it opens gets an   *)
(* empty file if it lies below memoryLayer.                                *)
LEMMA AppendKeeps == TreeInv /\ AppendLeaf => TreeInv'
<1>. SUFFICES ASSUME TreeInv, AppendLeaf PROVE TreeInv'
  OBVIOUS
<1>. DEFINE opened == {l \in DOMAIN tree'.layers \ DOMAIN tree.layers : HasLayerFile(l)}
<1>1. /\ pc = "work" /\ pc' = "select" /\ leaves' = leaves + 1
      /\ tree' = AddLeaf(tree, MakeLabel(leaves, tree.parked))
      /\ files' = [l \in DOMAIN files \cup opened |-> IF l \in DOMAIN files THEN files[l] ELSE <<>>]
      /\ UNCHANGED <<afterwards, ctxDone, stop, memoryLayer, numLeaves, nip, stops>>
  BY DEF AppendLeaf
<1>2. /\ leaves \in Nat /\ numLeaves \in Nat /\ numLeaves <= leaves /\ memoryLayer \in Nat
      /\ leaves + 1 \in Nat
  BY DEF TreeInv, TypeOK
<1>3. /\ IsRight(tree, 0, leaves)
      /\ DOMAIN files # {}
      /\ DOMAIN files \subseteq DOMAIN tree.layers
      /\ \A l \in DOMAIN files : Len(files[l]) <= Shift(leaves, l)
      /\ tree.allLayers => memoryLayer >= 1 /\ DOMAIN files = {l \in DOMAIN tree.layers : l < memoryLayer}
  BY <1>1, Zenon DEF TreeInv, Working, WorksOn, Running
<1>. DEFINE t == TopLayer
<1>4. StoredAs(files, t, numLeaves)
  BY <1>3, Zenon DEF TreeInv, Stored
<1>. HIDE DEF t
<1>5. /\ t \in Nat /\ DOMAIN files = 0 .. t
      /\ \A l \in 0 .. t : /\ files[l] = Row(l, Len(files[l]))
                           /\ Len(files[l]) \in Nat
                           /\ Len(files[l]) >= Shift(numLeaves, l)
  BY <1>4, StoredRows, Zenon
<1>6. /\ IsRight(tree', 0, leaves + 1)
      /\ DOMAIN tree.layers \subseteq DOMAIN tree'.layers
      /\ ~tree.allLayers => DOMAIN tree'.layers = DOMAIN tree.layers
      /\ tree'.allLayers = tree.allLayers
  <2>1. tree' = AddLeaf(tree, Node(0, leaves))
    BY <1>1, <1>2, <1>3, RightLabel, Zenon
  <2>2. leaves \in Nat /\ IsRight(tree, 0, leaves)
    BY <1>2, <1>3, Zenon
  <2>3. /\ IsRight(AddLeaf(tree, Node(0, leaves)), 0, leaves + 1)
        /\ KeepsLayers(tree, AddLeaf(tree, Node(0, leaves)))
    BY <2>2, AddLeafIsRight, Zenon
  <2>. QED
    BY <2>1, <2>3, Zenon DEF KeepsLayers
<1>. DEFINE new == DOMAIN files \cup opened
<1>7. PICK u \in Nat : /\ u >= t /\ new = 0 .. u
                       /\ new \subseteq DOMAIN tree'.layers
                       /\ \A l \in new : l \notin DOMAIN files => Shift(leaves, l) = 0
                       /\ tree'.allLayers => memoryLayer >= 1 /\ new = {l \in DOMAIN tree'.layers : l < memoryLayer}
  <2>1. CASE ~tree.allLayers
    <3>1. opened = {}
      BY <1>6, <2>1, Zenon
    <3>2. new = 0 .. t
      BY <1>5, <3>1
    <3>. QED
      BY <1>3, <1>5, <1>6, <2>1, <3>2
  <2>2. CASE tree.allLayers
    <3>1. /\ memoryLayer >= 1
          /\ DOMAIN files = {l \in DOMAIN tree.layers : l < memoryLayer}
      BY <1>3, <2>2, Zenon
    <3>2. new = {l \in DOMAIN tree'.layers : l < memoryLayer}
      BY <1>6, <3>1, Zenon DEF HasLayerFile
    <3>3. PICK m \in Nat \ {0} : DOMAIN tree'.layers = 0 .. m - 1
      BY <1>6, <2>2, Zenon DEF IsRight, RightShape
    <3>. DEFINE u == IF m <= memoryLayer THEN m - 1 ELSE memoryLayer - 1
    <3>4. u \in Nat /\ new = 0 .. u
      BY <1>2, <3>1, <3>2, <3>3
    <3>. HIDE DEF u, new
    <3>5. DOMAIN files \subseteq new
      BY Zenon DEF new
    <3>6. u >= t
      BY <1>5, <3>4, <3>5
    <3>7. /\ new \subseteq DOMAIN tree'.layers
          /\ \A l \in new : l \notin DOMAIN files => l \notin DOMAIN tree.layers
      BY <3>1, <3>2, Zenon
    <3>8. PICK k \in Nat \ {0} : DOMAIN tree.layers = 0 .. k - 1 /\ Shift(leaves, k) = 0
      BY <1>3, <2>2, Zenon DEF IsRight, RightShape
    <3>9. ASSUME NEW l \in new, l \notin DOMAIN files PROVE Shift(leaves, l) = 0
      <4>1. l \in Nat /\ l \notin 0 .. k - 1
        BY <3>4, <3>7, <3>8, <3>9
      <4>2. l >= k
        BY <4>1
      <4>. QED
        BY <1>2, <3>8, <4>1, <4>2, ShiftZero
    <3>. QED
      BY <1>6, <2>2, <3>1, <3>2, <3>4, <3>6, <3>7, <3>9
  <2>. QED
    BY <2>1, <2>2
<1>. DEFINE w == [l \in 0 .. u |-> IF l \in 0 .. t THEN Len(files[l]) ELSE 0]
<1>8. files' = Rows(u, w)
  <2>2. ASSUME NEW l \in 0 .. u
        PROVE  (IF l \in DOMAIN files THEN files[l] ELSE <<>>) = Row(l, w[l])
    <3>1. CASE l \in 0 .. t
      BY <1>5, <3>1, Zenon
    <3>2. CASE l \notin 0 .. t
      <4>1. w[l] = 0
        BY <3>2, Zenon
      <4>2. Row(l, 0) = <<>>
        BY DEF Row
      <4>. QED
        BY <1>5, <3>2, <4>1, <4>2, Zenon
    <3>. QED
      BY <3>1, <3>2
  <2>. HIDE DEF w
  <2>3. files' = [l \in new |-> IF l \in DOMAIN files THEN files[l] ELSE <<>>]
    BY <1>1, Zenon
  <2>. HIDE DEF new
  <2>. QED
    BY <1>7, <2>2, <2>3, Zenon DEF Rows
<1>9. ASSUME NEW l \in 0 .. u
      PROVE  w[l] \in Nat /\ w[l] >= Shift(numLeaves, l) /\ w[l] <= Shift(leaves + 1, l)
  <2>1. l \in Nat
    OBVIOUS
  <2>2. /\ Shift(numLeaves, l) \in Nat /\ Shift(leaves, l) \in Nat /\ Shift(leaves + 1, l) \in Nat
    BY <1>2, <2>1, ShiftSteps, Zenon
  <2>3. Shift(numLeaves, l) <= Shift(leaves, l) /\ Shift(leaves, l) <= Shift(leaves + 1, l)
    <3>1. leaves <= leaves + 1
      BY <1>2
    <3>. QED
      BY <1>2, <2>1, <3>1, ShiftMonotone, Zenon
  <2>4. CASE l \in 0 .. t
    <3>1. /\ w[l] = Len(files[l]) /\ w[l] \in Nat /\ w[l] >= Shift(numLeaves, l)
          /\ w[l] <= Shift(leaves, l)
      BY <1>3, <1>5, <2>4, Zenon
    <3>. HIDE DEF w
    <3>. QED
      BY <2>2, <2>3, <3>1
  <2>5. CASE l \notin 0 .. t
    <3>1. Shift(leaves, l) = 0
      BY <1>5, <1>7, <2>5, Zenon
    <3>2. w[l] = 0
      BY <2>5, Zenon
    <3>. HIDE DEF w
    <3>. QED
      BY <2>2, <2>3, <3>1, <3>2
  <2>. QED
    BY <2>4, <2>5
<1>. HIDE DEF w, new
<1>10. StoredAs(files', u, numLeaves) /\ \A l \in 0 .. u : Len(files'[l]) = w[l]
  <2>1. numLeaves \in Nat
    BY <1>2
  <2>2. Covers(w, u, numLeaves)
    BY <1>9, Zenon DEF Covers
  <2>3. StoredAs(Rows(u, w), u, numLeaves) /\ Widths(Rows(u, w), u, w)
    BY <2>1, <2>2, RowsAreStored, Zenon
  <2>. QED
    BY <1>8, <2>3, Zenon DEF Widths
<1>11. TopLayer' = u /\ DOMAIN files' = 0 .. u /\ DOMAIN files' # {}
  BY <1>10, StoredRows, Zenon DEF TopLayer
<1>12. WorksOn(tree', leaves + 1, files', memoryLayer)
  <2>1. \A l \in DOMAIN files' : Len(files'[l]) <= Shift(leaves + 1, l)
    BY <1>9, <1>10, <1>11, Zenon
  <2>. QED
    BY <1>6, <1>7, <1>11, <2>1, Zenon DEF WorksOn
<1>13. TypeOK'
  <2>1. DOMAIN files' \subseteq Nat
    BY <1>11
  <2>2. leaves' \in Nat /\ numLeaves' \in 0 .. leaves'
    BY <1>1, <1>2
  <2>. QED
    BY <1>1, <2>1, <2>2 DEF TreeInv, TypeOK, ProverPcs
<1>. QED
  BY <1>1, <1>10, <1>11, <1>12, <1>13
    DEF TreeInv, Fresh, Stored, GoesBack, Working, Flushed, Rebuilds, FailsOnlyWithoutNodes

(* Steps that leave the tree and the files alone and stay in the work. *)
LEMMA QuietKeeps ==
  ASSUME TreeInv, UNCHANGED <<tree, leaves, memoryLayer, files, numLeaves>>, TypeOK',
         pc = "select", pc' \in {"work", "flush"}
  PROVE  TreeInv'
<1>1. WorksOn(tree, leaves, files, memoryLayer) /\ Stored
  BY DEF TreeInv, Working, Running
<1>2. TopLayer' = TopLayer
  BY DEF TopLayer
<1>. QED
  BY <1>1, <1>2, Zenon DEF TreeInv, Fresh, Stored, GoesBack, Working, Flushed, Rebuilds, FailsOnlyWithoutNodes

(* The select of sequentialWork only decides where to go on. *)
LEMMA SelectKeeps == TreeInv /\ (CancelWork \/ StopWork \/ KeepWorking) => TreeInv'
<1>. SUFFICES ASSUME TreeInv, CancelWork \/ StopWork \/ KeepWorking PROVE TreeInv'
  OBVIOUS
<1>1. /\ pc = "select" /\ pc' \in {"work", "flush"}
      /\ UNCHANGED <<tree, leaves, memoryLayer, files, numLeaves, ctxDone, stop, stops>>
      /\ afterwards' \in {afterwards, "off", "prove", "work"}
  BY DEF CancelWork, StopWork, KeepWorking, Persist, disk
<1>2. TypeOK'
  BY <1>1 DEF TreeInv, TypeOK, ProverPcs
<1>. QED
  BY <1>1, <1>2, QuietKeeps

(* Steps of the world that change nothing the invariant is about. *)
LEMMA WorldKeeps == TreeInv /\ (EndOfRound \/ Cancel \/ UNCHANGED vars) => TreeInv'
<1>. SUFFICES ASSUME TreeInv, EndOfRound \/ Cancel \/ UNCHANGED vars PROVE TreeInv'
  OBVIOUS
<1>1. UNCHANGED <<pc, afterwards, tree, leaves, memoryLayer, files, numLeaves>>
  BY DEF EndOfRound, Cancel, vars, process, disk
<1>2. ctxDone' \in BOOLEAN /\ stop' \in BOOLEAN
  BY Zenon DEF EndOfRound, Cancel, vars, process, disk, TreeInv, TypeOK
<1>3. stops' \in 0 .. MaxStops
  BY ProverConstants DEF EndOfRound, Cancel, vars, process, disk, TreeInv, TypeOK
<1>4. TypeOK'
  BY <1>1, <1>2, <1>3, Zenon DEF TreeInv, TypeOK
<1>5. TopLayer' = TopLayer
  BY <1>1 DEF TopLayer
<1>. QED
  BY <1>1, <1>4, <1>5, Zenon
    DEF TreeInv, Fresh, Stored, GoesBack, Working, Flushed, Rebuilds, FailsOnlyWithoutNodes

(* What the invariant says while the work is under way. *)
LEMMA InTheWork ==
  ASSUME TreeInv, pc \in Running
  PROVE  /\ leaves \in Nat /\ numLeaves \in Nat /\ numLeaves <= leaves
         /\ StoredAs(files, TopLayer, numLeaves)
         /\ TopLayer \in Nat /\ DOMAIN files = 0 .. TopLayer
         /\ WorksOn(tree, leaves, files, memoryLayer)
         /\ \A l \in 0 .. TopLayer :
              /\ Len(files[l]) \in Nat /\ Len(files[l]) >= Shift(numLeaves, l)
              /\ Len(files[l]) <= Shift(leaves, l)
              /\ files[l] = Row(l, Len(files[l]))
              /\ tree.layers[l] = Row(l, Shift(leaves, l))
              /\ Len(tree.layers[l]) = Shift(leaves, l)
              /\ Shift(leaves, l) \in Nat /\ Shift(leaves, l) >= Shift(numLeaves, l)
<1>1. leaves \in Nat /\ numLeaves \in Nat /\ numLeaves <= leaves
  BY DEF TreeInv, TypeOK
<1>2. WorksOn(tree, leaves, files, memoryLayer)
  BY Zenon DEF TreeInv, Working
<1>3. StoredAs(files, TopLayer, numLeaves)
  BY <1>2, Zenon DEF TreeInv, Stored, WorksOn
<1>4. /\ TopLayer \in Nat /\ DOMAIN files = 0 .. TopLayer
      /\ \A l \in 0 .. TopLayer : /\ files[l] = Row(l, Len(files[l]))
                                  /\ Len(files[l]) \in Nat
                                  /\ Len(files[l]) >= Shift(numLeaves, l)
  BY <1>3, StoredRows, Zenon
<1>5. ASSUME NEW l \in 0 .. TopLayer
      PROVE  /\ Len(files[l]) <= Shift(leaves, l)
             /\ tree.layers[l] = Row(l, Shift(leaves, l))
             /\ Len(tree.layers[l]) = Shift(leaves, l)
             /\ Shift(leaves, l) \in Nat /\ Shift(leaves, l) >= Shift(numLeaves, l)
  <2>1. IsRight(tree, 0, leaves) /\ l \in DOMAIN tree.layers /\ Len(files[l]) <= Shift(leaves, l)
    BY <1>2, <1>4, Zenon DEF WorksOn
  <2>2. l \in Nat /\ 0 + l = l
    BY <1>4
  <2>3. tree.layers[l] = Row(0 + l, Shift(leaves, l)) /\ Len(tree.layers[l]) = Shift(leaves, l)
    <3>1. leaves \in Nat /\ IsRight(tree, 0, leaves)
      BY <1>1, <2>1
    <3>2. \A k \in DOMAIN tree.layers : /\ tree.layers[k] = Row(0 + k, Shift(leaves, k))
                                        /\ Len(tree.layers[k]) = Shift(leaves, k)
      BY <3>1, RightLayers, SMT
    <3>. QED
      BY <2>1, <3>2, Zenon
  <2>4. Shift(leaves, l) \in Nat /\ Shift(numLeaves, l) \in Nat
    BY <1>1, <2>2, ShiftSteps, Zenon
  <2>5. Shift(numLeaves, l) <= Shift(leaves, l)
    BY <1>1, <2>2, ShiftMonotone, Zenon
  <2>. QED
    BY <2>1, <2>2, <2>3, <2>4, <2>5
<1>. QED
  BY <1>1, <1>2, <1>3, <1>4, <1>5, Zenon

(* Flush: the files catch up with the caches. *)
LEMMA FlushKeeps == TreeInv /\ Flush => TreeInv'
<1>. SUFFICES ASSUME TreeInv, Flush PROVE TreeInv'
  OBVIOUS
<1>1. /\ pc = "flush" /\ pc' = "save"
      /\ files' = [l \in DOMAIN files |-> tree.layers[l]]
      /\ UNCHANGED <<afterwards, ctxDone, stop, tree, leaves, memoryLayer, numLeaves, nip, stops>>
  BY DEF Flush, process
<1>. DEFINE t == TopLayer
            w == [l \in 0 .. t |-> Shift(leaves, l)]
<1>2. /\ leaves \in Nat /\ numLeaves \in Nat /\ t \in Nat /\ DOMAIN files = 0 .. t
      /\ WorksOn(tree, leaves, files, memoryLayer)
      /\ \A l \in 0 .. t : /\ tree.layers[l] = Row(l, Shift(leaves, l))
                           /\ Shift(leaves, l) \in Nat /\ Shift(leaves, l) >= Shift(numLeaves, l)
  BY <1>1, InTheWork, Zenon DEF Running
<1>. HIDE DEF t
<1>3. files' = Rows(t, w)
  <2>1. \A l \in 0 .. t : w[l] = Shift(leaves, l)
    BY Zenon
  <2>. HIDE DEF w
  <2>. QED
    BY <1>1, <1>2, <2>1, Zenon DEF Rows
<1>4. \A l \in 0 .. t : w[l] = Shift(leaves, l)
  BY Zenon
<1>. HIDE DEF w
<1>5. StoredAs(files', t, numLeaves) /\ Widths(files', t, w)
  <2>1. Covers(w, t, numLeaves)
    BY <1>2, <1>4, Zenon DEF Covers
  <2>. QED
    BY <1>2, <1>3, <2>1, RowsAreStored, Zenon
<1>6. /\ TopLayer' = t /\ DOMAIN files' = 0 .. t /\ DOMAIN files' # {}
      /\ \A l \in DOMAIN files' : Len(files'[l]) = Shift(leaves, l)
  BY <1>4, <1>5, StoredRows, Zenon DEF TopLayer, Widths
<1>7. WorksOn(tree, leaves, files', memoryLayer)
  <2>1. \A l \in DOMAIN files' : Len(files'[l]) <= Shift(leaves, l)
    BY <1>2, <1>6
  <2>. QED
    BY <1>2, <1>6, <2>1, Zenon DEF WorksOn
<1>8. TypeOK'
  BY <1>1, <1>2, <1>6 DEF TreeInv, TypeOK, ProverPcs
<1>. QED
  BY <1>1, <1>5, <1>6, <1>7, <1>8
    DEF TreeInv, Fresh, Stored, GoesBack, Working, Flushed, FlushedAt, Rebuilds, FailsOnlyWithoutNodes

(* SaveLeaves and generateProof: the state catches up with the files. *)
LEMMA SaveKeeps == TreeInv /\ (SaveLeaves \/ generateProof) => TreeInv'
<1>. SUFFICES ASSUME TreeInv, SaveLeaves \/ generateProof PROVE TreeInv'
  OBVIOUS
<1>1. /\ pc \in {"save", "prove"} /\ pc' \in {"work", "off", "prove", "finished"}
      /\ numLeaves' = leaves
      /\ UNCHANGED <<afterwards, ctxDone, stop, tree, leaves, memoryLayer, files, stops>>
  BY DEF SaveLeaves, generateProof, process, TreeInv, TypeOK
<1>. DEFINE t == TopLayer
<1>2. /\ leaves \in Nat /\ t \in Nat /\ DOMAIN files = 0 .. t
      /\ WorksOn(tree, leaves, files, memoryLayer)
      /\ StoredAs(files, t, numLeaves)
      /\ \A l \in 0 .. t : Shift(leaves, l) \in Nat
  BY <1>1, InTheWork, Zenon DEF Running
<1>3. FlushedAt(files, leaves)
  BY <1>1, Zenon DEF TreeInv, Flushed
<1>4. TopLayer' = t
  BY <1>1 DEF TopLayer
<1>. HIDE DEF t
<1>5. StoredAs(files, t, leaves)
  <2>1. \A l \in 0 .. t : Len(files[l]) \in Nat /\ Len(files[l]) >= Shift(leaves, l)
    BY <1>2, <1>3, SMTT(30) DEF FlushedAt
  <2>. QED
    BY <1>2, <2>1, Zenon DEF StoredAs
<1>6. TypeOK'
  BY <1>1, <1>2 DEF TreeInv, TypeOK, ProverPcs
<1>. QED
  BY <1>1, <1>2, <1>3, <1>4, <1>5, <1>6, Zenon
    DEF TreeInv, Fresh, Stored, GoesBack, Working, Running, Flushed, Rebuilds, FailsOnlyWithoutNodes

(* What the invariant says during recovery, once there is a file. *)
LEMMA InRecovery ==
  ASSUME TreeInv, pc = "recover", DOMAIN files # {}
  PROVE  /\ numLeaves \in Nat /\ leaves = numLeaves
         /\ StoredAs(files, TopLayer, numLeaves)
         /\ RebuildsOn(tree, TopLayer)
         /\ TopLayer \in Nat /\ DOMAIN files = 0 .. TopLayer
         /\ \A l \in 0 .. TopLayer :
              /\ Len(files[l]) \in Nat /\ Len(files[l]) >= Shift(numLeaves, l)
              /\ files[l] = Row(l, Len(files[l]))
<1>1. numLeaves \in Nat /\ leaves = numLeaves
  BY DEF TreeInv, TypeOK, GoesBack
<1>2. StoredAs(files, TopLayer, numLeaves) /\ RebuildsOn(tree, TopLayer)
  BY Zenon DEF TreeInv, Stored, Rebuilds
<1>3. /\ TopLayer \in Nat /\ DOMAIN files = 0 .. TopLayer
      /\ \A l \in 0 .. TopLayer : /\ files[l] = Row(l, Len(files[l]))
                                  /\ Len(files[l]) \in Nat
                                  /\ Len(files[l]) >= Shift(numLeaves, l)
  BY <1>2, StoredRows, Zenon
<1>. QED
  BY <1>1, <1>2, <1>3, Zenon

(* Restart: recovery begins with a small tree of no leaf. *)
LEMMA RestartKeeps == TreeInv /\ Restart => TreeInv'
<1>. SUFFICES ASSUME TreeInv, Restart PROVE TreeInv'
  OBVIOUS
<1>1. /\ pc = "off" /\ pc' = "recover" /\ tree' = NewTree(TRUE)
      /\ ctxDone' = FALSE /\ stop' = FALSE
      /\ UNCHANGED <<afterwards, leaves, memoryLayer, files, numLeaves, stops>>
  BY DEF Restart, disk
<1>2. TopLayer' = TopLayer
  BY <1>1 DEF TopLayer
<1>3. DOMAIN files # {} => RebuildsOn(tree', TopLayer)
  <2>. SUFFICES ASSUME DOMAIN files # {} PROVE RebuildsOn(tree', TopLayer)
    OBVIOUS
  <2>1. TopLayer \in Nat
    BY StoredRows, Zenon DEF TreeInv, Stored
  <2>2. /\ IsRight(tree', TopLayer, 0) /\ tree'.layers[0] = <<>> /\ tree'.allLayers
    BY <1>1, <2>1, NewTreeIsRight, Zenon
  <2>3. Len(tree'.layers[0]) = 0 /\ Len(tree'.layers[0]) \in Nat
    BY <2>2
  <2>. QED
    BY <2>2, <2>3, Zenon DEF RebuildsOn
<1>4. TypeOK'
  BY <1>1, Zenon DEF TreeInv, TypeOK, ProverPcs
<1>. QED
  BY <1>1, <1>2, <1>3, <1>4, Zenon
    DEF TreeInv, Fresh, Stored, GoesBack, Working, Running, Flushed, Rebuilds, FailsOnlyWithoutNodes

(* TruncateLayer: the file keeps what the saved leaves need. *)
LEMMA TruncateKeeps == ASSUME NEW layer \in DOMAIN files PROVE TreeInv /\ TruncateLayer(layer) => TreeInv'
<1>. SUFFICES ASSUME TreeInv, TruncateLayer(layer) PROVE TreeInv'
  OBVIOUS
<1>. DEFINE t == TopLayer
            x == Shift(numLeaves, layer)
            w == [l \in 0 .. t |-> IF l = layer THEN x ELSE Len(files[l])]
<1>1. /\ pc = "recover" /\ pc' = pc
      /\ Len(files[layer]) > x
      /\ files' = [files EXCEPT ![layer] = SubSeq(files[layer], 1, x)]
      /\ UNCHANGED <<afterwards, ctxDone, stop, tree, leaves, memoryLayer, numLeaves, stops>>
  BY DEF TruncateLayer, expectedWidth, process
<1>2. /\ numLeaves \in Nat /\ leaves = numLeaves
      /\ StoredAs(files, t, numLeaves)
      /\ RebuildsOn(tree, t)
      /\ t \in Nat /\ DOMAIN files = 0 .. t
      /\ \A l \in 0 .. t :
              /\ Len(files[l]) \in Nat /\ Len(files[l]) >= Shift(numLeaves, l)
              /\ files[l] = Row(l, Len(files[l]))
  BY <1>1, InRecovery, Zenon
<1>. HIDE DEF t
<1>3. layer \in 0 .. t /\ layer \in Nat /\ x \in Nat
  <2>1. layer \in 0 .. t /\ layer \in Nat
    BY <1>2
  <2>. QED
    BY <1>2, <2>1, ShiftSteps, Zenon
<1>. HIDE DEF x
<1>4. SubSeq(files[layer], 1, x) = Row(layer, x)
  <2>. DEFINE v == Len(files[layer])
  <2>1. v \in Nat /\ x <= v /\ files[layer] = Row(layer, v)
    BY <1>1, <1>2, <1>3
  <2>. HIDE DEF v
  <2>. QED
    BY <1>3, <2>1, RowPrefix, Zenon
<1>5. files' = Rows(t, w)
  <2>1. ASSUME NEW l \in 0 .. t PROVE files'[l] = Row(l, w[l])
    BY <1>1, <1>2, <1>4, Zenon
  <2>2. files' = [l \in 0 .. t |-> files'[l]]
    BY <1>1, <1>2
  <2>. HIDE DEF w
  <2>. QED
    BY <2>1, <2>2, Zenon DEF Rows
<1>6. Covers(w, t, numLeaves)
  <2>. SUFFICES ASSUME NEW l \in 0 .. t PROVE w[l] \in Nat /\ w[l] >= Shift(numLeaves, l)
    BY Zenon DEF Covers
  <2>1. CASE l = layer
    BY <1>3, <2>1 DEF x
  <2>2. CASE l # layer
    BY <1>2, <2>2, Zenon
  <2>. QED
    BY <2>1, <2>2
<1>. HIDE DEF w
<1>7. StoredAs(files', t, numLeaves)
  BY <1>2, <1>5, <1>6, RowsAreStored, Zenon
<1>8. TopLayer' = t /\ DOMAIN files' = 0 .. t
  BY <1>7, StoredRows, Zenon DEF TopLayer
<1>9. TypeOK'
  BY <1>1, <1>2, <1>8 DEF TreeInv, TypeOK
<1>. QED
  BY <1>1, <1>2, <1>7, <1>8, <1>9
    DEF TreeInv, Fresh, Stored, GoesBack, Working, Running, Flushed, Rebuilds, FailsOnlyWithoutNodes

(* RebuildNode: the nodes of the top file are the leaves of the small tree. *)
LEMMA RebuildKeeps == TreeInv /\ RebuildNode => TreeInv'
<1>. SUFFICES ASSUME TreeInv, RebuildNode PROVE TreeInv'
  OBVIOUS
<1>. DEFINE t == TopLayer
            read == Len(tree.layers[0])
<1>1. /\ pc = "recover" /\ pc' = pc /\ 0 \in DOMAIN files
      /\ read < Len(files[t])
      /\ tree' = AddLeaf(tree, files[t][read + 1])
      /\ UNCHANGED <<afterwards, ctxDone, stop, leaves, memoryLayer, files, numLeaves, stops>>
  BY DEF RebuildNode, FilesMatch, disk
<1>2. DOMAIN files # {}
  BY <1>1, Zenon
<1>3. /\ RebuildsOn(tree, t) /\ t \in Nat
      /\ Len(files[t]) \in Nat /\ files[t] = Row(t, Len(files[t]))
  <2>1. TopLayer \in 0 .. TopLayer
    BY <1>1, <1>2, InRecovery
  <2>. QED
    BY <1>1, <1>2, <2>1, InRecovery, Zenon
<1>4. TopLayer' = t
  BY <1>1 DEF TopLayer
<1>. HIDE DEF t
<1>5. IsRight(tree, t, read) /\ tree.allLayers /\ read \in Nat
  BY <1>3, Zenon DEF RebuildsOn
<1>. HIDE DEF read
<1>6. files[t][read + 1] = Node(t, read)
  <2>1. read + 1 \in 1 .. Len(files[t]) /\ (read + 1) - 1 = read
    BY <1>1, <1>3, <1>5
  <2>2. Row(t, Len(files[t]))[read + 1] = Node(t, (read + 1) - 1)
    BY <1>3, <2>1, RowSteps, Zenon
  <2>. QED
    BY <1>3, <2>1, <2>2, Zenon
<1>7. RebuildsOn(tree', t)
  <2>1. IsRight(tree', t, read + 1) /\ KeepsLayers(tree, tree')
    BY <1>1, <1>3, <1>5, <1>6, AddLeafIsRight, Zenon
  <2>2. read + 1 \in Nat
    BY <1>5
  <2>3. Len(tree'.layers[0]) = read + 1
    BY <1>3, <2>1, <2>2, RightLayers, Zenon
  <2>. QED
    BY <1>5, <2>1, <2>2, <2>3, Zenon DEF RebuildsOn, KeepsLayers
<1>8. TypeOK'
  BY <1>1, Zenon DEF TreeInv, TypeOK
<1>. QED
  BY <1>1, <1>4, <1>7, <1>8
    DEF TreeInv, Fresh, Stored, GoesBack, Working, Running, Flushed, Rebuilds, FailsOnlyWithoutNodes, t

(* RecoverTree: the tree put together is the one of the saved leaves. *)
LEMMA RecoverKeeps == TreeInv /\ RecoverTree => TreeInv'
<1>. SUFFICES ASSUME TreeInv, RecoverTree PROVE TreeInv'
  OBVIOUS
<1>. DEFINE t == TopLayer
            n == numLeaves
            k == Len(tree.parked)
            D == DOMAIN tree.layers
<1>1. /\ pc = "recover" /\ pc' = "work" /\ 0 \in DOMAIN files
      /\ \A l \in DOMAIN files : Len(files[l]) = Shift(n, l)
      /\ Len(tree.layers[0]) = Len(files[t])
      /\ tree' = RecoveredTree(files, n, tree)
      /\ leaves' = n
      /\ UNCHANGED <<afterwards, ctxDone, stop, memoryLayer, files, numLeaves, stops>>
  BY DEF RecoverTree, FilesMatch, expectedWidth, disk
<1>2. DOMAIN files # {}
  BY <1>1, Zenon
<1>3. /\ n \in Nat /\ leaves = n
      /\ StoredAs(files, t, n)
      /\ RebuildsOn(tree, t)
      /\ t \in Nat /\ DOMAIN files = 0 .. t
      /\ \A l \in 0 .. t : files[l] = Row(l, Len(files[l]))
  BY <1>1, <1>2, InRecovery, Zenon
<1>4. TopLayer' = t
  BY <1>1 DEF TopLayer
<1>. HIDE DEF t, n
<1>5. files = [l \in 0 .. t |-> Row(l, Shift(n, l))]
  <2>1. \A l \in 0 .. t : files[l] = Row(l, Shift(n, l))
    BY <1>1, <1>3, Zenon
  <2>2. files = [l \in 0 .. t |-> files[l]]
    <3>1. files = [l \in 0 .. t |-> Row(l, Len(files[l]))]
      BY <1>3, Zenon DEF StoredAs
    <3>. QED
      BY <1>3, <3>1, Zenon
  <2>. QED
    BY <2>1, <2>2, Zenon
<1>6. Len(tree.layers[0]) = Shift(n, t)
  <2>1. t \in DOMAIN files
    BY <1>3
  <2>. QED
    BY <1>1, <2>1, Zenon
<1>7. IsRight(tree, t, Shift(n, t)) /\ tree.allLayers
  BY <1>3, <1>6, Zenon DEF RebuildsOn
<1>8. RightShape(Shift(n, t), k, D, TRUE) /\ tree = RightTree(t, Shift(n, t), k, D, TRUE)
  <2>1. /\ RightShape(Shift(n, t), k, D, tree.allLayers)
        /\ tree = RightTree(t, Shift(n, t), k, D, tree.allLayers)
    BY <1>7, Zenon DEF IsRight
  <2>2. tree.allLayers = TRUE
    <3>1. tree.allLayers \in BOOLEAN
      BY <2>1, Zenon DEF RightShape
    <3>. QED
      BY <1>7, <3>1, Zenon
  <2>. HIDE DEF k, D
  <2>. QED
    BY <2>1, <2>2, Zenon
<1>. HIDE DEF k, D
<1>9. /\ RightShape(n, t + k, 0 .. t + k - 1, FALSE)
      /\ tree' = RightTree(0, n, t + k, 0 .. t + k - 1, FALSE)
  BY <1>1, <1>3, <1>5, <1>8, RecoveredRight, SMT
<1>10. /\ IsRight(tree', 0, n)
       /\ DOMAIN tree'.layers = 0 .. t + k - 1 /\ tree'.allLayers = FALSE
  <2>. DEFINE m == t + k
              E == 0 .. t + k - 1
              partly == FALSE
  <2>1. RightShape(n, m, E, partly) /\ tree' = RightTree(0, n, m, E, partly)
    BY <1>9, Zenon
  <2>2. 0 \in Nat /\ n \in Nat
    BY <1>3
  <2>. HIDE DEF m, E, partly
  <2>3. IsRight(tree', 0, n) /\ DOMAIN tree'.layers = E /\ tree'.allLayers = partly
    BY <2>1, <2>2, RightTreeIsRight, SMT
  <2>. QED
    BY <2>3, Zenon DEF E, partly
<1>11. WorksOn(tree', n, files, memoryLayer)
  <2>1. k \in Nat \ {0}
    BY <1>8 DEF RightShape
  <2>2. 0 .. t \subseteq 0 .. t + k - 1
    BY <1>3, <2>1
  <2>3. \A l \in DOMAIN files : Shift(n, l) <= Shift(n, l)
    <3>1. \A l \in DOMAIN files : l \in Nat
      BY <1>3
    <3>2. \A l \in DOMAIN files : Shift(n, l) \in Nat
      BY <1>3, <3>1, ShiftSteps, Zenon
    <3>. QED
      BY <3>2
  <2>. QED
    BY <1>1, <1>2, <1>3, <1>10, <2>2, <2>3, Zenon DEF WorksOn
<1>12. TypeOK'
  BY <1>1, <1>3 DEF TreeInv, TypeOK, ProverPcs, n
<1>. QED
  BY <1>1, <1>3, <1>4, <1>11, <1>12
    DEF TreeInv, Fresh, Stored, GoesBack, Working, Running, Flushed, Rebuilds, FailsOnlyWithoutNodes, n, t

(* RecoveryFails: neither is layer 0 missing beside other files nor is a   *)
(* file too short.                                                         *)
LEMMA FailKeeps == TreeInv /\ RecoveryFails => TreeInv'
<1>. SUFFICES ASSUME TreeInv, RecoveryFails PROVE TreeInv'
  OBVIOUS
<1>1. /\ pc = "recover" /\ pc' = "failed"
      /\ UNCHANGED <<afterwards, ctxDone, stop, tree, leaves, memoryLayer, files, numLeaves, stops>>
  BY DEF RecoveryFails, process, disk
<1>2. TopLayer' = TopLayer
  BY <1>1 DEF TopLayer
<1>3. DOMAIN files = {} \/ Shift(numLeaves, TopLayer) = 0
  <2>. SUFFICES ASSUME DOMAIN files # {} PROVE Shift(numLeaves, TopLayer) = 0
    BY Zenon
  <2>1. /\ numLeaves \in Nat /\ TopLayer \in Nat /\ DOMAIN files = 0 .. TopLayer
        /\ \A l \in 0 .. TopLayer :
             Len(files[l]) \in Nat /\ Len(files[l]) >= Shift(numLeaves, l)
    BY <1>1, InRecovery, Zenon
  <2>2. 0 \in DOMAIN files /\ TopLayer \in DOMAIN files /\ \A l \in DOMAIN files : l \in Nat
    BY <2>1
  <2>3. \A l \in DOMAIN files : Shift(numLeaves, l) \in Nat
    BY <2>1, <2>2, ShiftSteps, Zenon
  <2>4. ~ \E l \in DOMAIN files : Len(files[l]) < Shift(numLeaves, l)
    BY <2>1, <2>3
  <2>5. /\ \A l \in DOMAIN files : Len(files[l]) = Shift(numLeaves, l)
        /\ files[TopLayer] = <<>>
    BY <2>2, <2>4, Zenon DEF RecoveryFails, FilesMatch, expectedWidth
  <2>6. Len(files[TopLayer]) = 0
    BY <2>5
  <2>. QED
    BY <2>2, <2>5, <2>6, Zenon
<1>4. TypeOK'
  BY <1>1, Zenon DEF TreeInv, TypeOK, ProverPcs
<1>. QED
  BY <1>1, <1>2, <1>3, <1>4
    DEF TreeInv, Fresh, Stored, GoesBack, Working, Running, Flushed, Rebuilds, FailsOnlyWithoutNodes

(* Crash: what reaches a file is the beginning of its cache. *)
LEMMA CrashKeeps == TreeInv /\ Crash => TreeInv'
<1>. SUFFICES ASSUME TreeInv, Crash PROVE TreeInv'
  OBVIOUS
<1>1. /\ pc \notin Down /\ pc' = "off" /\ leaves' = numLeaves
      /\ stops < MaxStops /\ stops' = stops + 1
      /\ UNCHANGED <<afterwards, ctxDone, stop, tree, memoryLayer, numLeaves>>
  BY DEF Crash
<1>2. /\ DOMAIN files' # {} => StoredAs(files', TopLayer', numLeaves)
      /\ DOMAIN files' \subseteq Nat
  <2>1. CASE UNCHANGED files
    <3>1. TopLayer' = TopLayer
      BY <2>1 DEF TopLayer
    <3>. QED
      BY <2>1, <3>1, Zenon DEF TreeInv, Stored, TypeOK
  <2>2. CASE ~ UNCHANGED files
    <3>1. pc \in Running
      BY <1>1, <2>2 DEF Crash, TreeInv, TypeOK, ProverPcs, Down, Running
    <3>2. PICK width \in [DOMAIN files -> 0 .. leaves] :
            /\ \A l \in DOMAIN files : width[l] \in Len(files[l]) .. Len(tree.layers[l])
            /\ files' = [l \in DOMAIN files |-> SubSeq(tree.layers[l], 1, width[l])]
      BY <2>2, Zenon DEF Crash
    <3>. DEFINE t == TopLayer
    <3>3. /\ leaves \in Nat /\ numLeaves \in Nat /\ t \in Nat /\ DOMAIN files = 0 .. t
          /\ \A l \in 0 .. t : /\ tree.layers[l] = Row(l, Shift(leaves, l))
                               /\ Len(tree.layers[l]) = Shift(leaves, l)
                               /\ Shift(leaves, l) \in Nat
                               /\ Len(files[l]) \in Nat
                               /\ Len(files[l]) >= Shift(numLeaves, l)
      BY <3>1, InTheWork, Zenon
    <3>. HIDE DEF t
    <3>4. ASSUME NEW l \in 0 .. t
          PROVE  /\ l \in Nat /\ width[l] \in Nat
                 /\ width[l] >= Shift(numLeaves, l) /\ width[l] <= Shift(leaves, l)
      <4>1. l \in Nat /\ l \in DOMAIN files
        BY <3>3
      <4>2. Shift(numLeaves, l) \in Nat
        BY <3>3, <4>1, ShiftSteps, Zenon
      <4>3. width[l] \in Len(files[l]) .. Shift(leaves, l)
        BY <3>2, <3>3, <4>1, Zenon
      <4>. QED
        BY <3>3, <4>1, <4>2, <4>3
    <3>5. ASSUME NEW l \in 0 .. t PROVE SubSeq(tree.layers[l], 1, width[l]) = Row(l, width[l])
      <4>1. SubSeq(Row(l, Shift(leaves, l)), 1, width[l]) = Row(l, width[l])
        BY <3>3, <3>4, RowPrefix, Zenon
      <4>. QED
        BY <3>3, <4>1, Zenon
    <3>6. files' = Rows(t, width)
      BY <3>2, <3>3, <3>5, Zenon DEF Rows
    <3>7. Covers(width, t, numLeaves)
      BY <3>4, Zenon DEF Covers
    <3>8. StoredAs(files', t, numLeaves)
      BY <3>3, <3>6, <3>7, RowsAreStored, Zenon
    <3>9. TopLayer' = t /\ DOMAIN files' = 0 .. t
      BY <3>8, StoredRows, Zenon DEF TopLayer
    <3>10. 0 .. t \subseteq Nat
      BY <3>3
    <3>. QED
      BY <3>8, <3>9, <3>10, Zenon
  <2>. QED
    BY <2>1, <2>2
<1>3. TypeOK'
  BY <1>1, <1>2, ProverConstants DEF TreeInv, TypeOK, ProverPcs
<1>. QED
  BY <1>1, <1>2, <1>3
    DEF TreeInv, Fresh, Stored, GoesBack, Working, Running, Flushed, Rebuilds, FailsOnlyWithoutNodes

(* One lemma per action: every step keeps TreeInv. *)
LEMMA NextTree == TreeInv /\ [Next]_vars => TreeInv'
<1>. SUFFICES ASSUME TreeInv, [Next]_vars PROVE TreeInv'
  OBVIOUS
<1>1. CASE makeProofTree
  BY <1>1, MakeKeeps, Zenon
<1>2. CASE AppendLeaf
  BY <1>2, AppendKeeps, Zenon
<1>3. CASE CancelWork \/ StopWork \/ KeepWorking
  BY <1>3, SelectKeeps, Zenon
<1>4. CASE Flush
  BY <1>4, FlushKeeps, Zenon
<1>5. CASE SaveLeaves \/ generateProof
  BY <1>5, SaveKeeps, Zenon
<1>6. CASE Restart
  BY <1>6, RestartKeeps, Zenon
<1>7. CASE \E l \in DOMAIN files : TruncateLayer(l)
  BY <1>7, TruncateKeeps, Zenon
<1>8. CASE RebuildNode
  BY <1>8, RebuildKeeps, Zenon
<1>9. CASE RecoverTree
  BY <1>9, RecoverKeeps, Zenon
<1>10. CASE RecoveryFails
  BY <1>10, FailKeeps, Zenon
<1>11. CASE EndOfRound \/ Cancel \/ UNCHANGED vars
  BY <1>11, WorldKeeps, Zenon
<1>12. CASE Crash
  BY <1>12, CrashKeeps, Zenon
<1>. QED
  BY <1>1, <1>2, <1>3, <1>4, <1>5, <1>6, <1>7, <1>8, <1>9, <1>10, <1>11, <1>12, Zenon
    DEF Next, Works

(* TreeInv holds throughout every execution, whatever crashes and          *)
(* cancellations interrupt it.                                             *)
THEOREM TreeInvariant == Spec => []TreeInv
  BY InitTree, NextTree, PTL DEF Spec

(* Rows of the right nodes are canonical. *)
LEMMA RowsCanonical ==
  ASSUME NEW layers, DOMAIN layers \subseteq Nat, NEW w,
         \A l \in DOMAIN layers : w[l] \in Nat /\ layers[l] = Row(l, w[l])
  PROVE  Canonical(layers)
<1>. SUFFICES ASSUME NEW l \in DOMAIN layers, NEW i \in DOMAIN layers[l]
              PROVE  layers[l][i] = <<l, i - 1>>
  BY Zenon DEF Canonical
<1>1. l \in Nat /\ w[l] \in Nat /\ layers[l] = Row(l, w[l])
  OBVIOUS
<1>. DEFINE v == w[l]
<1>. HIDE DEF v
<1>2. i \in 1 .. v /\ Row(l, v)[i] = Node(l, i - 1)
  <2>1. DOMAIN Row(l, v) = 1 .. v
    BY Zenon DEF Row
  <2>2. i \in 1 .. v
    BY <1>1, <2>1, Zenon DEF v
  <2>. QED
    BY <1>1, <2>2, RowSteps, Zenon DEF v
<1>. QED
  BY <1>1, <1>2, Zenon DEF v, Node

(* A right tree's layers are canonical and its parked nodes are what the   *)
(* next label has to commit to.                                            *)
LEMMA RightCanonical ==
  ASSUME NEW n \in Nat, NEW tr, IsRight(tr, 0, n)
  PROVE  Canonical(tr.layers) /\ Written(tr.parked) = LeftSiblings(n)
<1>. DEFINE D == DOMAIN tr.layers
            w == [l \in D |-> Shift(n, l)]
<1>1. /\ D \subseteq Nat
      /\ \A l \in D : tr.layers[l] = Row(0 + l, Shift(n, l))
  BY RightLayers, SMT
<1>. HIDE DEF D
<1>2. \A l \in D : l \in Nat /\ 0 + l = l
  <2>1. D \subseteq Nat
    BY <1>1
  <2>. QED
    BY <2>1
<1>3. \A l \in D : Shift(n, l) \in Nat
  BY <1>2, ShiftSteps, Zenon
<1>4. \A l \in D : w[l] \in Nat /\ tr.layers[l] = Row(l, w[l])
  BY <1>1, <1>2, <1>3, Zenon
<1>. HIDE DEF w
<1>5. Canonical(tr.layers)
  BY <1>1, <1>4, RowsCanonical, Zenon DEF D
<1>6. Written(tr.parked) = LeftSiblings(n)
  BY RightLabel, SMT
<1>. QED
  BY <1>5, <1>6

(* Files and tree are right, so they are canonical. *)
LEMMA TreeInvCanonical == TreeInv => TreeCanonical
<1>. SUFFICES ASSUME TreeInv PROVE TreeCanonical
  OBVIOUS
<1>1. Canonical(files)
  <2>1. CASE DOMAIN files = {}
    BY <2>1, Zenon DEF Canonical
  <2>2. CASE DOMAIN files # {}
    <3>. DEFINE t == TopLayer
                w == [l \in 0 .. t |-> Len(files[l])]
    <3>1. /\ t \in Nat /\ DOMAIN files = 0 .. t
          /\ \A l \in 0 .. t : files[l] = Row(l, Len(files[l])) /\ Len(files[l]) \in Nat
      BY <2>2, StoredRows, Zenon DEF TreeInv, Stored
    <3>. HIDE DEF t
    <3>2. DOMAIN files \subseteq Nat
      BY <3>1
    <3>3. \A l \in DOMAIN files : w[l] \in Nat /\ files[l] = Row(l, w[l])
      BY <3>1, Zenon
    <3>. HIDE DEF w
    <3>. QED
      BY <3>2, <3>3, RowsCanonical, Zenon
  <2>. QED
    BY <2>1, <2>2, Zenon
<1>2. ASSUME pc \notin Down \cup {"recover"}
      PROVE  Canonical(tree.layers) /\ Written(tree.parked) = LeftSiblings(leaves)
  <2>1. leaves \in Nat
    BY DEF TreeInv, TypeOK
  <2>2. IsRight(tree, 0, leaves)
    <3>1. CASE pc = "new"
      BY <3>1, NewTreeIsRight, Zenon DEF TreeInv, Fresh
    <3>2. CASE pc # "new"
      <4>1. pc \in Running
        BY <1>2, <3>2 DEF TreeInv, TypeOK, ProverPcs, Down, Running
      <4>. QED
        BY <4>1, Zenon DEF TreeInv, Working, WorksOn
    <3>. QED
      BY <3>1, <3>2
  <2>. QED
    BY <2>1, <2>2, RightCanonical
<1>. QED
  BY <1>1, <1>2, Zenon DEF TreeCanonical

(* The files hold what the saved leaves need. *)
LEMMA TreeInvDurable == TreeInv => CheckpointDurable
<1>. SUFFICES ASSUME TreeInv, DOMAIN files # {} PROVE CheckpointDurable
  BY Zenon DEF CheckpointDurable
<1>1. /\ DOMAIN files = 0 .. TopLayer
      /\ \A l \in 0 .. TopLayer : Len(files[l]) >= Shift(numLeaves, l)
  BY StoredRows, Zenon DEF TreeInv, Stored
<1>. QED
  BY <1>1, Zenon DEF CheckpointDurable

(* The prover's variables keep their types; in particular the saved number *)
(* of leaves never exceeds the number the process goes on from.            *)
THEOREM ProverTypes == Spec => []TypeOK
<1>1. TreeInv => TypeOK
  BY DEF TreeInv
<1>. QED
  BY <1>1, TreeInvariant, PTL

(* sequentialWork always extends the tree an undisturbed execution would   *)
(* have, and no layer file ever holds another node than the right one.     *)
THEOREM TreeIsCanonical == Spec => []TreeCanonical
  BY TreeInvCanonical, TreeInvariant, PTL

(* persist flushes before it saves: no crash finds the state file ahead of *)
(* a layer file.                                                           *)
THEOREM CheckpointsDurable == Spec => []CheckpointDurable
  BY TreeInvDurable, TreeInvariant, PTL

(* makeRecoveryProofTree fails only where the round had no node in its top *)
(* layer.                                                                  *)
THEOREM RecoveryGivesUp == Spec => []FailsOnlyWithoutNodes
<1>1. TreeInv => FailsOnlyWithoutNodes
  BY DEF TreeInv
<1>. QED
  BY <1>1, TreeInvariant, PTL
------------------------------------------------------------------------------
(* The proof and the refinement *)

(* persist is on its way to the proof, or has just returned. *)
Proving == pc = "prove" \/ (pc \in {"flush", "save"} /\ afterwards = "prove")

(* What the refinement needs: numbers are numbers, persist returns to one  *)
(* of three places, and a proof is under way only when sequentialWork has  *)
(* seen enough leaves.                                                     *)
ProverInv ==
  /\ leaves \in Nat
  /\ numLeaves \in Nat
  /\ afterwards \in {"work", "off", "prove"}
  /\ Proving => leaves >= SecurityParam

(* A new execution is not proving. *)
LEMMA InitProverInv == Init => ProverInv
  BY DEF Init, ProverInv, Proving

(* Every step of the execution keeps ProverInv: the guard of StopWork is   *)
(* the only way to a proof, and no step between it and the proof changes   *)
(* the number of leaves.                                                   *)
LEMMA NextProverInv == ProverInv /\ [Next]_vars => ProverInv'
<1> SUFFICES ASSUME ProverInv, [Next]_vars PROVE ProverInv'
  OBVIOUS
<1> USE DEF ProverInv, Proving
<1>1. CASE makeProofTree
  BY <1>1 DEF makeProofTree
<1>2. CASE AppendLeaf
  BY <1>2 DEF AppendLeaf
<1>3. CASE CancelWork
  BY <1>3 DEF CancelWork, Persist, disk
<1>4. CASE StopWork
  BY <1>4, ProverConstants DEF StopWork, Persist, disk
<1>5. CASE KeepWorking
  BY <1>5 DEF KeepWorking, Persist, disk
<1>6. CASE Flush
  BY <1>6 DEF Flush, process
<1>7. CASE SaveLeaves
  BY <1>7 DEF SaveLeaves, process
<1>8. CASE generateProof
  BY <1>8 DEF generateProof, process
<1>9. CASE Restart
  BY <1>9 DEF Restart, disk
<1>10. CASE \E l \in DOMAIN files : TruncateLayer(l)
  BY <1>10 DEF TruncateLayer, process
<1>11. CASE RebuildNode
  BY <1>11 DEF RebuildNode, disk
<1>12. CASE RecoverTree
  BY <1>12 DEF RecoverTree, disk
<1>13. CASE RecoveryFails
  BY <1>13 DEF RecoveryFails, process, disk
<1>14. CASE EndOfRound
  BY <1>14 DEF EndOfRound, disk
<1>15. CASE Cancel
  BY <1>15 DEF Cancel, disk
<1>16. CASE Crash
  BY <1>16 DEF Crash
<1>17. CASE UNCHANGED vars
  BY <1>17 DEF vars, process, disk
<1> QED
  BY <1>1, <1>2, <1>3, <1>4, <1>5, <1>6, <1>7, <1>8, <1>9, <1>10, <1>11, <1>12,
     <1>13, <1>14, <1>15, <1>16, <1>17 DEF Next, Works

(* sequentialWork reaches generateProof only with SecurityParam leaves. *)
THEOREM ProverInvariant == Spec => []ProverInv
  BY InitProverInv, NextProverInv, PTL DEF Spec

(* A new execution has no work, nothing kept and nothing proven. *)
LEMMA InitRefines == Init => Work!Init
  BY DEF Init, Work!Init

(* A leaf extends the work, a checkpoint keeps it, a crash loses it back to *)
(* the last checkpoint, the proof finishes it; every other step leaves the *)
(* three numbers as they are.                                              *)
LEMMA NextRefines == ProverInv /\ [Next]_vars => [Work!Next]_(Work!workVars)
<1> SUFFICES ASSUME ProverInv, [Next]_vars PROVE [Work!Next]_(Work!workVars)
  OBVIOUS
<1> USE DEF Work!Next, Work!workVars
<1>1. CASE AppendLeaf
  BY <1>1 DEF AppendLeaf, Work!Extend
<1>2. CASE SaveLeaves
  BY <1>2 DEF SaveLeaves, process, Work!Keep, ProverInv
<1>3. CASE generateProof
  BY <1>3 DEF generateProof, process, Work!Finish, ProverInv, Proving
<1>4. CASE Crash
  BY <1>4 DEF Crash, Down, Work!Lose
<1>5. CASE RecoverTree
  BY <1>5 DEF RecoverTree, disk, Work!Lose
<1>6. CASE makeProofTree \/ CancelWork \/ StopWork \/ KeepWorking
  BY <1>6 DEF makeProofTree, CancelWork, StopWork, KeepWorking, Persist, disk
<1>7. CASE Flush \/ Restart \/ (\E l \in DOMAIN files : TruncateLayer(l)) \/ RebuildNode
  BY <1>7, Zenon DEF Flush, Restart, TruncateLayer, RebuildNode, process, disk
<1>8. CASE RecoveryFails \/ EndOfRound \/ Cancel
  BY <1>8 DEF RecoveryFails, EndOfRound, Cancel, Down, process, disk
<1>9. CASE UNCHANGED vars
  BY <1>9 DEF vars, process, disk
<1> QED
  BY <1>1, <1>2, <1>3, <1>4, <1>5, <1>6, <1>7, <1>8, <1>9 DEF Next, Works

(* The prover, with crashes, cancellations and recoveries at any step,     *)
(* implements ProvenWork: no recovery goes back behind the last checkpoint *)
(* and no proof is made of fewer than SecurityParam leaves.                *)
THEOREM Refinement == Spec => ImplementsProvenWork
<1>1. Init => Work!Init
  BY InitRefines
<1>2. ProverInv /\ [Next]_vars => [Work!Next]_(Work!workVars)
  BY NextRefines
<1> QED
  BY <1>1, <1>2, ProverInvariant, PTL DEF Spec, ImplementsProvenWork, Work!Spec

(* generateProof makes its proof from the right tree of enough leaves, and *)
(* a finished execution takes no further step.                             *)
LEMMA NextVerifies == TreeInv /\ ProverInv /\ ProofVerifies /\ [Next]_vars => ProofVerifies'
<1>. SUFFICES ASSUME TreeInv, ProverInv, ProofVerifies, [Next]_vars, pc' = "finished"
              PROVE  Validate(nip', numLeaves', SecurityParam)
  BY Zenon DEF ProofVerifies
<1>1. CASE generateProof
  <2>1. pc = "prove" /\ nip' = MerkleProof(tree, leaves, SecurityParam) /\ numLeaves' = leaves
    BY <1>1 DEF generateProof
  <2>2. leaves \in Nat /\ SecurityParam \in Nat /\ SecurityParam <= leaves
    BY <2>1, ProverConstants DEF ProverInv, Proving
  <2>3. IsRight(tree, 0, leaves)
    BY <2>1, Zenon DEF TreeInv, Working, Running, WorksOn
  <2>4. Validate(MerkleProof(tree, leaves, SecurityParam), leaves, SecurityParam)
    BY <2>2, <2>3, ProofRight, Zenon
  <2>. QED
    BY <2>1, <2>4, Zenon
<1>2. CASE ~generateProof
  <2>1. UNCHANGED vars
    <3>1. afterwards # "finished"
      BY DEF ProverInv
    <3>2. ~(EndOfRound \/ Cancel \/ Crash)
      BY DEF EndOfRound, Cancel, Crash, Down
    <3>3. ~(makeProofTree \/ AppendLeaf \/ CancelWork \/ StopWork \/ KeepWorking \/ Flush)
      BY DEF makeProofTree, AppendLeaf, CancelWork, StopWork, KeepWorking, Flush, Persist
    <3>4. ~(SaveLeaves \/ Restart \/ RebuildNode \/ RecoverTree \/ RecoveryFails)
      BY <3>1 DEF SaveLeaves, Restart, RebuildNode, RecoverTree, RecoveryFails
    <3>5. ~(\E l \in DOMAIN files : TruncateLayer(l))
      BY DEF TruncateLayer
    <3>. QED
      BY <1>2, <3>2, <3>3, <3>4, <3>5, Zenon DEF Next, Works
  <2>2. pc = "finished" /\ nip' = nip /\ numLeaves' = numLeaves
    BY <2>1 DEF vars, disk
  <2>. QED
    BY <2>2, Zenon DEF ProofVerifies
<1>. QED
  BY <1>1, <1>2

(* The proof that an execution saves passes verifier.Validate with the     *)
(* number of leaves saved beside it, however often the tree was recovered. *)
THEOREM SavedProofVerifies == Spec => []ProofVerifies
<1>1. Init => ProofVerifies
  BY DEF Init, ProofVerifies
<1>. QED
  BY <1>1, NextVerifies, TreeInvariant, ProverInvariant, PTL DEF Spec
==============================================================================
