---------------------------- MODULE MCAdminAccess ----------------------------
(* Instances of AdminAccess for TLC: sessions and handlers are alike.      *)
EXTENDS AdminAccess, TLC

Alike == Permutations(Request) \cup Permutations(Token)
=============================================================================
