--------------------------- MODULE MCChatSession ---------------------------
(***************************************************************************)
(* TLC instance of ChatSession: t0 is the turn of the past.                *)
(***************************************************************************)
EXTENDS ChatSession

CONSTANT t0

=============================================================================
