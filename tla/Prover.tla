-------------------------------- MODULE Prover -------------------------------
(***************************************************************************)
(* The execution of one round: prover/prover.go with the persistence that  *)
(* service/round.go hands to it.  The round's state file says that the     *)
(* execution started; from here to the saved proof the process may be      *)
(* cancelled or crash at any step and is then started again.               *)
(***************************************************************************)
EXTENDS ProofTree

CONSTANTS
  SecurityParam,     \* shared.T: leaves a proof has to open
  CheckpointRate,    \* hardShutdownCheckpointRate
  MinMemoryLayers,   \* the configured MinMemoryLayer is one of these
  MaxLeaves,         \* bound: the round ends before more leaves are made
  MaxStops           \* bound: crashes and cancellations

ASSUME ProverConstants ==
  /\ SecurityParam \in Nat
  /\ CheckpointRate \in Nat \ {0}
  /\ MinMemoryLayers \subseteq Nat
  /\ MaxLeaves \in Nat
  /\ MaxStops \in Nat

VARIABLES
  \* the process
  pc,          \* see ProverPcs
  afterwards,  \* where sequentialWork goes on when persist returns
  ctxDone,     \* the context is cancelled
  stop,        \* the channel closed at the end of the round
  tree,        \* the Merkle tree with its caches, buffered nodes included
  leaves,      \* nextLeafID; while the process is down, what it will be
  memoryLayer, \* layers from here on are cached in memory only
  \* the round's directory
  files,       \* layer -> nodes in the layer's file
  numLeaves,   \* state file: leaves at the last checkpoint
  nip,         \* state file: the proof, or None
  stops        \* crashes and cancellations so far

process == <<afterwards, ctxDone, stop, tree, leaves, memoryLayer>>
disk == <<files, numLeaves, nip>>
vars == <<pc, process, disk, stops>>

ProverPcs == {"new", "work", "select", "flush", "save", "prove", "off", "recover",
              "finished", "failed"}

Down == {"off", "finished", "failed"}

Init ==
  /\ pc = "new"
  /\ afterwards = "work"
  /\ ctxDone = FALSE
  /\ stop = FALSE
  /\ tree = NewTree(TRUE)
  /\ leaves = 0
  /\ memoryLayer \in MinMemoryLayers
  /\ files = [l \in {} |-> <<>>]
  /\ numLeaves = 0
  /\ nip = None
  /\ stops = 0

(* makeProofTree: the file of layer 0 is created with the tree. *)
makeProofTree ==
  /\ pc = "new"
  /\ pc' = "work"
  /\ memoryLayer' = Max({memoryLayer, 1})
  /\ files' = [l \in {0} |-> <<>>]
  /\ UNCHANGED <<afterwards, ctxDone, stop, tree, leaves, numLeaves, nip, stops>>
------------------------------------------------------------------------------
(* sequentialWork *)

(* GetLayerFactory: layers below memoryLayer get a file. *)
HasLayerFile(layer) == layer < memoryLayer

(* One leaf, which may open a new layer. *)
AppendLeaf ==
  /\ pc = "work"
  /\ tree' = AddLeaf(tree, MakeLabel(leaves, tree.parked))
  /\ leaves' = leaves + 1
  /\ LET opened == {l \in DOMAIN tree'.layers \ DOMAIN tree.layers : HasLayerFile(l)}
     IN files' = [l \in DOMAIN files \cup opened |->
                    IF l \in DOMAIN files THEN files[l] ELSE <<>>]
  /\ pc' = "select"
  /\ UNCHANGED <<afterwards, ctxDone, stop, memoryLayer, numLeaves, nip, stops>>

Persist(then) ==
  /\ pc' = "flush"
  /\ afterwards' = then

(* select: the context is done. *)
CancelWork ==
  /\ pc = "select"
  /\ ctxDone
  /\ Persist("off")
  /\ UNCHANGED <<ctxDone, stop, tree, leaves, memoryLayer, disk, stops>>

StopWork_AnyLeaves ==
  /\ pc = "select"
  /\ stop
  /\ Persist("prove")
  /\ UNCHANGED <<ctxDone, stop, tree, leaves, memoryLayer, disk, stops>>

(* select: the round is over.  Too few leaves: go on, without a checkpoint. *)
StopWork ==
  /\ pc = "select"
  /\ stop
  /\ \/ /\ leaves < SecurityParam
        /\ pc' = "work"
        /\ UNCHANGED afterwards
     \/ /\ leaves >= SecurityParam
        /\ Persist("prove")
  /\ UNCHANGED <<ctxDone, stop, tree, leaves, memoryLayer, disk, stops>>

(* default: a checkpoint now and then. *)
KeepWorking ==
  /\ pc = "select"
  /\ ~ctxDone
  /\ ~stop
  /\ leaves < MaxLeaves
  /\ \/ /\ leaves % CheckpointRate = 0
        /\ Persist("work")
     \/ /\ leaves % CheckpointRate # 0
        /\ pc' = "work"
        /\ UNCHANGED afterwards
  /\ UNCHANGED <<ctxDone, stop, tree, leaves, memoryLayer, disk, stops>>

(* persistExecution: GetReader flushes the layer files ... *)
Flush_Skipped ==
  /\ pc = "flush"
  /\ pc' = "save"
  /\ UNCHANGED <<process, disk, stops>>

Flush ==
  /\ pc = "flush"
  /\ files' = [l \in DOMAIN files |-> tree.layers[l]]
  /\ pc' = "save"
  /\ UNCHANGED <<process, numLeaves, nip, stops>>

(* ... then saveState replaces the state file.  A cancelled execution ends *)
(* here, its Teardown saves the same state again.                          *)
SaveLeaves ==
  /\ pc = "save"
  /\ numLeaves' = leaves
  /\ pc' = afterwards
  /\ UNCHANGED <<process, files, nip, stops>>

(* generateProof, and Execute or RecoverExecution saves the proof. *)
generateProof ==
  /\ pc = "prove"
  /\ nip' = MerkleProof(tree, leaves, SecurityParam)
  /\ numLeaves' = leaves
  /\ pc' = "finished"
  /\ UNCHANGED <<process, files, stops>>
------------------------------------------------------------------------------
(* makeRecoveryProofTree *)

expectedWidth_RoundsUp(layer) == Shift(numLeaves + 2 ^ layer - 1, layer)

expectedWidth(layer) == Shift(numLeaves, layer)
TopLayer == Max(DOMAIN files)

(* The process starts again and finds the round executing. *)
Restart ==
  /\ pc = "off"
  /\ pc' = "recover"
  /\ ctxDone' = FALSE
  /\ stop' = FALSE
  /\ tree' = NewTree(TRUE)
  /\ UNCHANGED <<afterwards, leaves, memoryLayer, disk, stops>>

(* A file ahead of the state is truncated, in any order of the layers. *)
TruncateLayer(layer) ==
  /\ pc = "recover"
  /\ Len(files[layer]) > expectedWidth(layer)
  /\ files' = [files EXCEPT ![layer] = SubSeq(@, 1, expectedWidth(layer))]
  /\ UNCHANGED <<pc, process, numLeaves, nip, stops>>

FilesMatch ==
  /\ 0 \in DOMAIN files
  /\ \A l \in DOMAIN files : Len(files[l]) = expectedWidth(l)

(* recoverMemCachedParkedNodes: the next node of the top file becomes a    *)
(* leaf of a small tree.                                                   *)
RebuildNode ==
  /\ pc = "recover"
  /\ FilesMatch
  /\ LET read == Len(tree.layers[0])
     IN /\ read < Len(files[TopLayer])
        /\ tree' = AddLeaf(tree, files[TopLayer][read + 1])
  /\ UNCHANGED <<pc, afterwards, ctxDone, stop, leaves, memoryLayer, disk, stops>>

RecoverTree_FromZero ==
  /\ pc = "recover"
  /\ FilesMatch
  /\ Len(tree.layers[0]) = Len(files[TopLayer])
  /\ tree' = RecoveredTree(files, numLeaves, tree)
  /\ leaves' = 0
  /\ pc' = "work"
  /\ UNCHANGED <<afterwards, ctxDone, stop, memoryLayer, disk, stops>>

(* The loop over the top file does not take EOF for its end. *)
RecoverTree_MissesEOF ==
  /\ pc = "recover"
  /\ FilesMatch
  /\ Len(tree.layers[0]) > Len(files[TopLayer])
  /\ tree' = RecoveredTree(files, numLeaves, tree)
  /\ leaves' = numLeaves
  /\ pc' = "work"
  /\ UNCHANGED <<afterwards, ctxDone, stop, memoryLayer, disk, stops>>

(* EOF: the tree is put together and sequentialWork goes on from it. *)
RecoverTree ==
  /\ pc = "recover"
  /\ FilesMatch
  /\ Len(tree.layers[0]) = Len(files[TopLayer])
  /\ tree' = RecoveredTree(files, numLeaves, tree)
  /\ leaves' = numLeaves
  /\ pc' = "work"
  /\ UNCHANGED <<afterwards, ctxDone, stop, memoryLayer, disk, stops>>

(* Layer 0 is missing, or a file is shorter than the state says, or the    *)
(* library refuses to read a cache without nodes: the worker stops.        *)
RecoveryFails ==
  /\ pc = "recover"
  /\ \/ 0 \notin DOMAIN files
     \/ \E l \in DOMAIN files : Len(files[l]) < expectedWidth(l)
     \/ FilesMatch /\ files[TopLayer] = <<>>
  /\ pc' = "failed"
  /\ UNCHANGED <<process, disk, stops>>
------------------------------------------------------------------------------
(* The world *)

EndOfRound ==
  /\ pc \notin Down
  /\ ~stop
  /\ stop' = TRUE
  /\ UNCHANGED <<pc, afterwards, ctxDone, tree, leaves, memoryLayer, disk, stops>>

Cancel ==
  /\ pc \notin Down
  /\ ~ctxDone
  /\ stops < MaxStops
  /\ ctxDone' = TRUE
  /\ stops' = stops + 1
  /\ UNCHANGED <<pc, afterwards, stop, tree, leaves, memoryLayer, disk>>

(* The process dies.  Of every layer's buffered nodes any number may have  *)
(* reached the file.                                                       *)
Crash ==
  /\ pc \notin Down
  /\ stops < MaxStops
  /\ stops' = stops + 1
  /\ pc' = "off"
  /\ leaves' = numLeaves
  /\ \/ /\ pc \in {"new", "recover"}
        /\ UNCHANGED files
     \/ /\ pc \notin {"new", "recover"}
        /\ \E width \in [DOMAIN files -> 0 .. leaves] :
             /\ \A l \in DOMAIN files : width[l] \in Len(files[l]) .. Len(tree.layers[l])
             /\ files' = [l \in DOMAIN files |-> SubSeq(tree.layers[l], 1, width[l])]
  /\ UNCHANGED <<afterwards, ctxDone, stop, tree, memoryLayer, numLeaves, nip>>

Works ==
  \/ makeProofTree
  \/ AppendLeaf
  \/ CancelWork
  \/ StopWork
  \/ KeepWorking
  \/ Flush
  \/ SaveLeaves
  \/ generateProof
  \/ Restart
  \/ \E l \in DOMAIN files : TruncateLayer(l)
  \/ RebuildNode
  \/ RecoverTree
  \/ RecoveryFails

Next == Works \/ EndOfRound \/ Cancel \/ Crash

(* The prover never waits for anything, and the timer fires. *)
Fairness ==
  /\ WF_vars(Works)
  /\ WF_vars(EndOfRound)

Spec == Init /\ [][Next]_vars /\ Fairness
------------------------------------------------------------------------------
(* Properties *)

Canonical(layers) ==
  \A l \in DOMAIN layers : \A i \in DOMAIN layers[l] : layers[l][i] = <<l, i - 1>>

TypeOK ==
  /\ pc \in ProverPcs
  /\ afterwards \in {"work", "off", "prove"}
  /\ ctxDone \in BOOLEAN
  /\ stop \in BOOLEAN
  /\ leaves \in Nat
  /\ numLeaves \in 0 .. leaves
  /\ memoryLayer \in Nat
  /\ DOMAIN files \subseteq Nat
  /\ stops \in 0 .. MaxStops

(* However often the process was cancelled or crashed and wherever, the     *)
(* tree that sequentialWork extends is the one an undisturbed execution    *)
(* would have: every cached and every stored node is the node of its place *)
(* in the right tree, and the parked nodes are those the next label has to *)
(* commit to.                                                              *)
TreeCanonical ==
  /\ Canonical(files)
  /\ pc \notin Down \cup {"recover"} =>
       /\ Canonical(tree.layers)
       /\ Written(tree.parked) = LeftSiblings(leaves)

(* The state file never runs ahead of the layer files: at every moment at  *)
(* which a crash may happen the files hold all the nodes that recovery     *)
(* expects for the saved number of leaves.                                 *)
CheckpointDurable ==
  \A l \in DOMAIN files : Len(files[l]) >= Shift(numLeaves, l)

(* makeRecoveryProofTree gives up only on a round without progress in its  *)
(* top layer: the round never had a layer file, or the saved leaves do not *)
(* fill one node of the highest one.                                       *)
FailsOnlyWithoutNodes ==
  pc = "failed" => DOMAIN files = {} \/ Shift(numLeaves, TopLayer) = 0

(* The proof that is saved passes verifier.Validate with the number of     *)
(* leaves saved beside it, also when the round ended with too few leaves   *)
(* and when the tree was recovered.                                        *)
ProofVerifies ==
  pc = "finished" => Validate(nip, numLeaves, SecurityParam)

(* The execution ends: once crashes and cancellations stop, the proof is   *)
(* saved or recovery has given up.                                         *)
ExecutionEnds == <>(pc \in {"finished", "failed"})

(* An execution promises what ProvenWork says: work is lost only back to   *)
(* the last checkpoint, and the one proof is about all of the work.        *)
Work == INSTANCE ProvenWork WITH
          work <- leaves,
          kept <- numLeaves,
          proven <- IF pc = "finished" THEN numLeaves ELSE None

ImplementsProvenWork == Work!Spec
==============================================================================
