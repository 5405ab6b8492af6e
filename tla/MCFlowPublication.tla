--------------------------- MODULE MCFlowPublication ---------------------------
(***************************************************************************)
(* A flow workspace over short timelines.                                   *)
(***************************************************************************)
EXTENDS FlowPublication

MCHidden == {1}
===============================================================================
