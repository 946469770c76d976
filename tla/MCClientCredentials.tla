------------------------ MODULE MCClientCredentials ------------------------
(* Instances of ClientCredentials for TLC: names and their directories.    *)
EXTENDS ClientCredentials, TLC

\* Two names that differ in a character Slug replaces, and one of its own.
MCSlug == [n \in Name |-> IF n = 3 THEN "c" ELSE "a-b"]

Alike == Permutations(Request)
=============================================================================
