---------------------------- MODULE MCMenuForest ----------------------------
(* Model checking of MenuForest: menus and administrators are each         *)
(* interchangeable, and only safety is checked.  A client may write a blank*)
(* path.                                                                   *)
EXTENDS MenuForest, TLC

MCPaths    == {<<>>}
MCSymmetry == Permutations(Ids) \cup Permutations(Admins)
=============================================================================
