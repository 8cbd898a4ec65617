----------------------------- MODULE MCMenuTree -----------------------------
(* Model checking of MenuTree.  A client writes a blank path, or one       *)
(* through two menus.                                                      *)
EXTENDS MenuTree

MCPaths == {<<>>, <<1, 2>>}
=============================================================================
