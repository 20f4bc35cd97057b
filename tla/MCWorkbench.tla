---------------------------- MODULE MCWorkbench ----------------------------
(***************************************************************************)
(* TLC instance of Workbench: one version in two contents.                 *)
(***************************************************************************)
EXTENDS Workbench

CONSTANTS c1, v1, b1, b2, a1

K1 == <<c1, v1>>

TwoForms == {<<K1, b1, a1>>, <<K1, b2, a1>>}

PayloadDigests == Forms \X SUBSET Checks

AllSubmissions == {Submission(p) : p \in Forms \X {Checks}}

=============================================================================
