------------------------------ MODULE MCSession ------------------------------
(***************************************************************************)
(* Session on the model and the scenarios of MCModel.                      *)
(***************************************************************************)
EXTENDS Session, MCModel

=============================================================================
