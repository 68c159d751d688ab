----------------------------- MODULE MCTagHeap -----------------------------
(* Instances of TagHeap for TLC.                                            *)
EXTENDS TagHeap, TLC

TagSymmetry == Permutations(Tag)
TagKeySymmetry == Permutations(Tag) \cup Permutations(Key)
=============================================================================
