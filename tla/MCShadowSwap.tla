---------------------------- MODULE MCShadowSwap ----------------------------
(* Instances of ShadowSwap for TLC. *)
EXTENDS ShadowSwap, TLC

\* Files are interchangeable: only which name or handle refers to which counts.
InodeSymmetry == Permutations(Inode)
=============================================================================
