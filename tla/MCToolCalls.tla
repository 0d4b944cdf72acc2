------------------------------ MODULE MCToolCalls ------------------------------
(* Small instances of the capture of tool calls for TLC. *)
EXTENDS ToolCallProps, TLC

(* Calls are interchangeable. *)
MCSymmetry == Permutations(Calls)
=============================================================================
