-------------------------- MODULE MCMaterialsSchema --------------------------
(* Two legacy rows. *)
EXTENDS MaterialsSchema

CONSTANTS a, b

MCDocs == {a, b}
=============================================================================
