---------------------------- MODULE MCLibraryIndex ----------------------------
(* Two files of one folder.                                                *)
EXTENDS LibraryIndex, TLC

CONSTANTS a, b, d1

OneFolder == a :> d1 @@ b :> d1
Interchangeable == Permutations({a, b})
=============================================================================
