------------------------------ MODULE MCToolCall ------------------------------
(***************************************************************************)
(* TLC instances of ToolCall.                                              *)
(***************************************************************************)
EXTENDS ToolCall, TLC

CONSTANTS orders, v1, d1, t1, a1, c1, c2

OneVersion == { [key |-> <<orders, v1>>, digest |-> d1, tools |-> {t1}] }

=============================================================================
