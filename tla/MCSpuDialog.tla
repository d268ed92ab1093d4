---------------------------- MODULE MCSpuDialog ----------------------------
(***************************************************************************)
(* Values for checking module SpuDialog: two openings of the dialog, two    *)
(* images that may be picked in the first, an SPU with one image.           *)
(***************************************************************************)
EXTENDS SpuDialog

CONSTANTS front, back

MCFiles == {<<1, front>>, <<1, back>>}
=============================================================================
