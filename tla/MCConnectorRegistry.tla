------------------------- MODULE MCConnectorRegistry -------------------------
(***************************************************************************)
(* TLC instances of ConnectorRegistry.                                     *)
(***************************************************************************)
EXTENDS ConnectorRegistry, TLC

CONSTANTS orders, v1, v2, d1, d2, t1, t2, a1, a2

\* Two versions of one connector that serve the same tool, a version label
\* submitted twice, and a package submitted under two labels.
Upgrades ==
  { [key |-> <<orders, v1>>, digest |-> d1, tools |-> {t1}],
    [key |-> <<orders, v2>>, digest |-> d2, tools |-> {t1, t2}],
    [key |-> <<orders, v1>>, digest |-> d2, tools |-> {t1, t2}],
    [key |-> <<orders, v2>>, digest |-> d1, tools |-> {t1}] }

AdminSymmetry == Permutations(Admins)

=============================================================================
