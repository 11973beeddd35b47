--------------------------- MODULE MCPictureHooks ---------------------------
(***************************************************************************)
(* The small instance of PictureHooks: every picture of two items, each    *)
(* followed by every call.                                                 *)
(***************************************************************************)
EXTENDS PictureHooks, TLC

PictureSymmetry ==
  Permutations(Ids) \cup Permutations(Flags) \cup Permutations(Versions)

=============================================================================
