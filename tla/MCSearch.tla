------------------------------ MODULE MCSearch ------------------------------
(***************************************************************************)
(* Values for checking module Search: two attributes, and two products of   *)
(* which a keyword finds one.                                               *)
(***************************************************************************)
EXTENDS Search

CONSTANTS color, n1, n2, xiaomi

MCAttrForms == {<<n1>>, <<n1, n2>>}
MCSpuForms == {<<[attr |-> color, name |-> n1]>>}
MCFoundBy == [s \in SkuIds |-> IF s <= 2 THEN {xiaomi} ELSE {}]
=============================================================================
