---------------------------- MODULE MCEngineProtocol ----------------------------
(***************************************************************************)
(* The ordered-map workspace and its Worker over a short timeline and a few *)
(* generations.                                                             *)
(***************************************************************************)
EXTENDS EngineProtocol
===============================================================================
