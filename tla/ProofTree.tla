------------------------------ MODULE ProofTree ------------------------------
(***************************************************************************)
(* The Merkle tree of a proof of sequential work as pure operators: labels *)
(* and nodes (shared, hash), the tree with its layer caches (the           *)
(* merkle-tree library, as prover/prover.go uses it), its recovery from    *)
(* layer files (prover/prover.go) and the verification of a proof          *)
(* (verifier/verifier.go).                                                 *)
(*                                                                         *)
(* Hashes are abstracted to what they identify.  For a fixed statement     *)
(* there is one right tree; its node number i of layer l is <<l, i>>, and  *)
(* every hash of anything else is Bad.                                     *)
(***************************************************************************)
EXTENDS Integers, Sequences, FiniteSets, FiniteSetsExt, SequencesExt

CONSTANT None

ASSUME NoneIsNoNode == None \notin Nat \X Nat

Bad == <<>>
Present(node) == node # None

(* n >> layer *)
Shift(n, layer) ==
  LET shifted[l \in Nat] == IF l = 0 THEN n ELSE shifted[l - 1] \div 2
  IN shifted[layer]

(* GenMerkleHashFunc: the hash of two children, salted with the statement. *)
MerkleHash(left, right) ==
  IF /\ left # Bad
     /\ right # Bad
     /\ left[1] = right[1]
     /\ left[2] % 2 = 0
     /\ right[2] = left[2] + 1
  THEN <<left[1] + 1, left[2] \div 2>>
  ELSE Bad

(* What goes into the buffer of MakeLabelFunc: absent siblings contribute  *)
(* nothing.                                                                *)
Written(leftSiblings) ==
  LET buffer[i \in 0 .. Len(leftSiblings)] ==
        IF i = 0 THEN <<>>
        ELSE IF Present(leftSiblings[i]) THEN Append(buffer[i - 1], leftSiblings[i])
        ELSE buffer[i - 1]
  IN buffer[Len(leftSiblings)]

(* The roots of the full subtrees to the left of leaf id, lowest first:    *)
(* what the label of leaf id has to commit to.                             *)
LeftSiblings(id) ==
  LET sibling(l) == IF Shift(id, l) % 2 = 1 THEN <<l, Shift(id, l) - 1>> ELSE None
  IN Written([i \in 1 .. id |-> sibling(i - 1)])

(* GenLabelHashFunc: the hash of a leaf's number and the nodes written to it. *)
LabelHash(labelID, siblings) ==
  IF siblings = LeftSiblings(labelID) THEN <<0, labelID>> ELSE Bad

MakeLabel(labelID, leftSiblings) == LabelHash(labelID, Written(leftSiblings))
------------------------------------------------------------------------------
(* The tree: parked[l + 1] is the node of layer l that waits for its right *)
(* sibling, or None; layers maps every cached layer to its nodes.  Unless  *)
(* allLayers holds only the layers cached from the start stay cached.      *)

NewTree(allLayers) ==
  [parked |-> <<None>>, layers |-> [l \in {0} |-> <<>>], allLayers |-> allLayers]

(* Tree.AddLeaf: the new node climbs while a left sibling is parked. *)
AddLeaf(tree, leaf) ==
  LET parked == tree.parked
      top == Min({l \in 0 .. Len(parked) : l < Len(parked) => parked[l + 1] = None})
      node[l \in 0 .. top] == IF l = 0 THEN leaf ELSE MerkleHash(parked[l], node[l - 1])
      written == {l \in 0 .. top : tree.allLayers \/ l \in DOMAIN tree.layers}
      cached(l) == IF l \in DOMAIN tree.layers THEN tree.layers[l] ELSE <<>>
  IN [tree EXCEPT
       !.parked = [i \in 1 .. Max({Len(parked), top + 1}) |->
                     IF i <= top THEN None ELSE IF i = top + 1 THEN node[top] ELSE parked[i]],
       !.layers = [l \in DOMAIN tree.layers \cup written |->
                     IF l \in written THEN Append(cached(l), node[l]) ELSE cached(l)]]

(* Tree.Root: determined by the parked nodes and their layers. *)
Root(tree) == {<<i - 1, tree.parked[i]>> : i \in {j \in DOMAIN tree.parked : Present(tree.parked[j])}}

(* makeRecoveryProofTree, once the layer files have the expected widths and *)
(* the nodes of the top one are the leaves of the small tree rebuilt.      *)
RecoveredTree_ForgetsMemory(files, nextLeafID, rebuilt) ==
  [parked |-> [i \in 1 .. Cardinality(DOMAIN files) |->
                 IF Shift(nextLeafID, i - 1) % 2 # 0
                 THEN files[i - 1][Shift(nextLeafID, i - 1)] ELSE None],
   layers |-> files,
   allLayers |-> FALSE]

RecoveredTree(files, nextLeafID, rebuilt) ==
  LET topLayer == Max(DOMAIN files)
      parkedOnDisk == [i \in 1 .. Cardinality(DOMAIN files) |->
                         IF Shift(nextLeafID, i - 1) % 2 # 0
                         THEN files[i - 1][Shift(nextLeafID, i - 1)] ELSE None]
      above == {topLayer + l : l \in DOMAIN rebuilt.layers \ {0}}
  IN [parked |-> parkedOnDisk \o Tail(rebuilt.parked),
      layers |-> [l \in DOMAIN files \cup above |->
                    IF l \in DOMAIN files THEN files[l] ELSE rebuilt.layers[l - topLayer]],
      allLayers |-> FALSE]
------------------------------------------------------------------------------
(* Proofs *)

(* Stands in for sha256(challenge, i): it repeats itself, and its values   *)
(* reach every index.                                                      *)
Digest(challenge, i) == i \div 2 + Cardinality(challenge)

FiatShamir_CountsDraws(challenge, spaceSize, securityParam) ==
  IF securityParam > spaceSize THEN 0 .. spaceSize - 1
  ELSE {Digest(challenge, i) % spaceSize : i \in 0 .. securityParam - 1}

(* FiatShamir: indices are drawn until there are securityParam of them. *)
FiatShamir(challenge, spaceSize, securityParam) ==
  LET drawn(k) == {Digest(challenge, i) % spaceSize : i \in 0 .. k - 1}
  IN IF securityParam > spaceSize THEN 0 .. spaceSize - 1
     ELSE drawn(CHOOSE k \in 0 .. 2 * spaceSize : /\ Cardinality(drawn(k)) = securityParam
                                                  /\ \A j \in 0 .. k - 1 : drawn(j) # drawn(k))

(* The challenged indices in ascending order: the k-th has k - 1 below it. *)
Sorted(indices) ==
  [k \in 1 .. Cardinality(indices) |->
     CHOOSE id \in indices : Cardinality({j \in indices : j < id}) = k - 1]

(* The nodes of the layer above row. *)
Parents(row) == [i \in 1 .. Len(row) \div 2 |-> MerkleHash(row[2 * i - 1], row[2 * i])]

(* A node of a full subtree, from its layer's cache or from the layer below. *)
CachedNode(layers, layer, index) ==
  LET row[l \in 0 .. layer] ==
        IF l \in DOMAIN layers THEN layers[l] ELSE Parents(row[l - 1])
  IN row[layer][index + 1]

(* The siblings on the paths from the leaves to the root, where they are   *)
(* roots of full subtrees.                                                 *)
Siblings(indices, numLeaves) ==
  {p \in (0 .. numLeaves) \X (0 .. numLeaves) :
     /\ p[2] < Shift(numLeaves, p[1])
     /\ \E id \in indices : Shift(id, p[1]) = IF p[2] % 2 = 0 THEN p[2] + 1 ELSE p[2] - 1}

(* generateProof, after the sequential work. *)
MerkleProof(tree, leaves, securityParam) ==
  LET indices == FiatShamir(Root(tree), leaves, securityParam)
      order == Sorted(indices)
  IN [root |-> Root(tree),
      provenLeaves |-> [k \in DOMAIN order |-> tree.layers[0][order[k] + 1]],
      proofNodes |-> [p \in Siblings(indices, leaves) |-> CachedNode(tree.layers, p[1], p[2])]]

(* ValidatePartialTreeWithParkingSnapshots: leaves and nodes hash to the   *)
(* root.                                                                   *)
PartialTreeValid(indices, proof, numLeaves) ==
  /\ \A k \in DOMAIN indices : proof.provenLeaves[k] = <<0, indices[k]>>
  /\ DOMAIN proof.proofNodes = Siblings(Range(indices), numLeaves)
  /\ \A p \in DOMAIN proof.proofNodes : proof.proofNodes[p] = p
  /\ proof.root = {<<l, <<l, Shift(numLeaves, l) - 1>>>> :
                     l \in {k \in 0 .. numLeaves : Shift(numLeaves, k) % 2 = 1}}

Validate(proof, numLeaves, securityParam) ==
  LET indices == Sorted(FiatShamir(proof.root, numLeaves, securityParam))
  IN /\ Len(proof.provenLeaves) = securityParam
     /\ PartialTreeValid(indices, proof, numLeaves)
     /\ \A k \in DOMAIN indices :
          proof.provenLeaves[k] = MakeLabel(indices[k], LeftSiblings(indices[k]))
==============================================================================
