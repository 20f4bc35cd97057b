---------------------------- MODULE MCSqlUpdate ----------------------------
(***************************************************************************)
(* TLC instances of SqlUpdate.  A request expects version 0 or 1; two      *)
(* requests under one key differ in their arguments, so their fingerprints *)
(* do; two keys may ask for the same change.                               *)
(***************************************************************************)
EXTENDS SqlUpdate, FiniteSets, TLC

CONSTANTS c1, c2, c3, k1, k2, a, b, m1, m2

\* Two deliveries of k1 with the same arguments and one with others, and a
\* second key that wants the same change as the first.
DuplicateRequests ==
  {[key |-> k1, expect |-> 0, val |-> b],
   [key |-> k1, expect |-> 0, val |-> a],
   [key |-> k2, expect |-> 0, val |-> b]}

\* One key retried, and a second key in its way.
RetryRequests ==
  {[key |-> k1, expect |-> 0, val |-> b],
   [key |-> k2, expect |-> 1, val |-> a]}

OneRequest == {[key |-> k1, expect |-> 0, val |-> b]}

CallSymmetry == Permutations(Calls)

=============================================================================
