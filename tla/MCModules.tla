---------------------------- MODULE MCModules ----------------------------
(***************************************************************************)
(* Modules constructed empty, in order and out of order.                   *)
(***************************************************************************)
EXTENDS DaqModules
MCDeclared == {<<>>, <<1, 2>>, <<3, 1>>}
=============================================================================
