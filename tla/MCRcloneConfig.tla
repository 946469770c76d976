--------------------------- MODULE MCRcloneConfig ---------------------------
(* Instances of RcloneConfig for TLC: handlers and remotes are alike.      *)
EXTENDS RcloneConfig, TLC

Alike == Permutations(Request) \cup Permutations(Name)
=============================================================================
