------------------------------ MODULE MCProductPage ---------------------------
(***************************************************************************)
(* Values for checking module ProductPage: an SPU with two sale attributes   *)
(* and two names, in two orders.                                            *)
(***************************************************************************)
EXTENDS ProductPage

CONSTANTS color, size, n1, n2

Value(a, n) == [attr |-> a, name |-> n]

MCAttrForms == {<<n1>>}
MCSpuForms == {<<Value(color, n1), Value(color, n2), Value(size, n1)>>,
               <<Value(size, n1), Value(color, n1), Value(color, n2)>>}
=============================================================================
