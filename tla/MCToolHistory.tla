---------------------------- MODULE MCToolHistory ---------------------------
(* A small instance of ToolHistory.                                         *)
EXTENDS ToolHistory
=============================================================================
