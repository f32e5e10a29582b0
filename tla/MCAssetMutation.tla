--------------------------- MODULE MCAssetMutation ---------------------------
(* Small instances of AssetMutation for TLC. *)
EXTENDS AssetMutation, TLC

Symmetry == Permutations(Requests) \cup Permutations(Paths) \cup Permutations(Blobs)
==============================================================================
