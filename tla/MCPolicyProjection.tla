------------------------- MODULE MCPolicyProjection -------------------------
(***************************************************************************)
(* TLC instances of PolicyProjection.                                      *)
(***************************************************************************)
EXTENDS PolicyProjection, TLC

CONSTANTS h1, h2, r1, r2, bad, s1, b1, b2

\* Every kind of edit of one role and of the skill that names it, and a position
\* rule for a role id with a space in it.
EditRequests ==
       [op : {"createRole", "updateRole", "deleteRole", "addGrant", "removeGrant"},
        role : {r1}]
  \cup [op : {"replaceRules"}, rules : {{}, {r1}, {bad}}]
  \cup [op : {"createSkill", "updateSkill"}, skill : {s1},
        row : {[roles |-> {r1}, body |-> b1]}]
  \cup [op : {"deleteSkill"}, skill : {s1}]

\* Two roles are deleted; nothing names a role.
Deletions == [op : {"deleteRole"}, role : {r1, r2}]

HandlerSymmetry == Permutations(Handlers)

=============================================================================
