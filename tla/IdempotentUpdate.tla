-------------------------- MODULE IdempotentUpdate --------------------------
(***************************************************************************)
(* What a keyed, versioned update of one row promises, with no ledger, no  *)
(* transaction, no call and no crash: the effect of a key is fixed once,   *)
(* lands at most once on the version before it, is called done only when a *)
(* row that carries it was there to see, and never lands once the key has  *)
(* been reported as not written.                                           *)
(***************************************************************************)
EXTENDS Integers

CONSTANTS Keys,     \* idempotency keys
          Rows,     \* states of the row
          Effects,  \* what an update can make true of it: a version, a value
          None      \* no row, no effect

VARIABLES
  row,      \* the row everyone sees
  carried,  \* keys whose effect the row has carried
  intent,   \* the effect each key stands for, once it is known
  applied,  \* keys whose effect landed
  granted,  \* keys reported as written
  denied    \* keys reported as not written

vars == <<row, carried, intent, applied, granted, denied>>

Carries(r, f) ==
  /\ r # None
  /\ f # None
  /\ r.ver = f.ver
  /\ r.val = f.val

Witness ==
  carried' = carried \cup {k \in Keys : Carries(row', intent'[k])}

Init ==
  /\ row \in Rows
  /\ carried = {}
  /\ intent = [k \in Keys |-> None]
  /\ applied = {} /\ granted = {} /\ denied = {}

\* The user confirmed what key k is to do.
Fix(k) ==
  /\ intent[k] = None
  /\ \E f \in Effects : intent' = [intent EXCEPT ![k] = f]
  /\ UNCHANGED <<row, applied, granted, denied>>
  /\ Witness

\* The effect lands, on the version right before it.
Apply(k) ==
  /\ intent[k] # None
  /\ k \notin applied \cup denied
  /\ row # None
  /\ row.ver + 1 = intent[k].ver
  /\ row' = [ver |-> intent[k].ver, val |-> intent[k].val, memo |-> row.memo]
  /\ applied' = applied \cup {k}
  /\ UNCHANGED <<intent, granted, denied>>
  /\ Witness

\* Key k is reported as written.
Grant(k) ==
  /\ k \in carried
  /\ granted' = granted \cup {k}
  /\ UNCHANGED <<row, carried, intent, applied, denied>>

\* Key k is reported as not written.
Deny(k) ==
  /\ intent[k] # None
  /\ denied' = denied \cup {k}
  /\ UNCHANGED <<row, carried, intent, applied, granted>>

\* Somebody else writes or deletes the row.
Peer ==
  /\ row' \in Rows \cup {None}
  /\ UNCHANGED <<intent, applied, granted, denied>>
  /\ Witness

Next ==
  \/ \E k \in Keys : Fix(k) \/ Apply(k) \/ Grant(k) \/ Deny(k)
  \/ Peer

Spec == Init /\ [][Next]_vars

=============================================================================
