-------------------------- MODULE MCSnapshotIngest --------------------------
(* Instances of SnapshotIngest for TLC: uploads are alike.                 *)
EXTENDS SnapshotIngest, TLC

Alike == Permutations(Upload)
=============================================================================
