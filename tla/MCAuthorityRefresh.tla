------------------------- MODULE MCAuthorityRefresh -------------------------
(* Small instances of AuthorityRefresh for TLC.                            *)
EXTENDS AuthorityRefresh, TLC

(* Element 1 hangs on menu 1, all others on menu 2, and each element calls  *)
(* an url of its own; operations may then make menus share urls.           *)
MCSeed == [e \in Elements |-> [menu |-> IF e = 1 THEN 1 ELSE 2, url |-> e]]

MCEvery == AllOperations
MCAdds  == {"addGrant", "refresh"}
MCSaves == {"saveGrants"}
=============================================================================
