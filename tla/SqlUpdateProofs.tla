-------------------------- MODULE SqlUpdateProofs --------------------------
(***************************************************************************)
(* Theorems of SqlUpdate for every set of calls, keys, values and          *)
(* requests and every bound on the version.  First its invariants, in      *)
(* every kind of environment.  Then, from "Open transactions" on, what     *)
(* ledger and source transaction promise beyond them: in every environment *)
(* that successes agree; with versioned peers that no update is lost; and  *)
(* when reads wait for the writer's lock and the deliveries of a key       *)
(* follow one another, that a recovery's verdict is final and that the     *)
(* whole, crashes included, implements IdempotentUpdate.                   *)
(***************************************************************************)
EXTENDS SqlUpdate, TLAPS

\* Calls that hold, held or may still take the right to write for their key.
Writer(c) ==
  srv[c] # "none" \/ pc[c] \in {"write", "update", "commit", "committing"}

\* What a call at each place knows.
RequestInv(c) ==
  /\ pc[c] = "idle" => req[c] = None /\ srv[c] = "none"
  /\ pc[c] # "idle" => req[c] \in Requests

EntryKnown(c) ==
  Writer(c) \/ pc[c] \in {"recover", "judge"} =>
    EntryOf(c) \in Entries /\ EntryOf(c).print = req[c]

SeenInv(c) ==
  /\ pc[c] = "confirm" => seen[c] \in Rows /\ seen[c].ver = req[c].expect
  /\ srv[c] \in {"updated", "committing", "committed"} =>
       seen[c] \in Rows /\ Matches(seen[c], EntryOf(c))

StageInv(c) ==
  /\ pc[c] \in Running \ {"commit", "committing"} => srv[c] = "none"
  /\ srv[c] \in {"committing", "committed"} =>
       pc[c] \in {"committing", "succeeded", "unknown", "dead"}

CarriedInv(c) ==
  /\ srv[c] = "committed" => KeyOf(c) \in carried
  /\ pc[c] = "judge" /\ Matches(seen[c], EntryOf(c)) => KeyOf(c) \in carried

EntryInv(k) ==
  ledger[k] # None =>
    /\ ledger[k].print.key = k
    /\ ledger[k].before.ver = ledger[k].print.expect
    /\ ledger[k].status = "succeeded" =>
         k \in carried /\ Matches(ledger[k].readBack, ledger[k])

CallInv(c) ==
  RequestInv(c) /\ EntryKnown(c) /\ SeenInv(c) /\ StageInv(c) /\ CarriedInv(c)

\* The history is kept: a row that matches an entry has been witnessed.
RowInv(k) == ledger[k] # None /\ Matches(row, ledger[k]) => k \in carried

OneWriter ==
  \A c, d \in Calls : Writer(c) /\ Writer(d) /\ KeyOf(c) = KeyOf(d) => c = d

IInv ==
  /\ TypeOK
  /\ \A c \in Calls : CallInv(c)
  /\ \A k \in Keys : EntryInv(k) /\ RowInv(k)
  /\ OneWriter
-----------------------------------------------------------------------------
\* Recording the outcome of an entry.

\* What every end of a write or of a recovery may do to the ledger: entries
\* keep their fingerprint and their before record, and one that has succeeded
\* stays as it is.
Recorded(k, r) ==
  /\ ledger' \in [Keys -> Entries \cup {None}]
  /\ \A j \in Keys \ {k} : ledger'[j] = ledger[j]
  /\ ledger'[k] \in Entries
  /\ ledger'[k].print = ledger[k].print
  /\ ledger'[k].before = ledger[k].before
  /\ ledger'[k].status = "succeeded" <=> ledger'[k].readBack # None
  /\ IF ledger[k].status = "succeeded"
       THEN ledger'[k].status = "succeeded" /\ ledger'[k].readBack = ledger[k].readBack
       ELSE ledger'[k].status # "succeeded" \/ ledger'[k].readBack = r

LEMMA EndUnknownRecords ==
  ASSUME TypeOK, NEW c \in Calls, KeyOf(c) \in Keys, EntryOf(c) \in Entries,
         EndUnknown(c)
  PROVE  /\ Recorded(KeyOf(c), seen[c])
         /\ ledger'[KeyOf(c)].status = "succeeded" => EntryOf(c).status = "succeeded"
  BY SqlUpdateAssumption DEF TypeOK, EntryOf, EndUnknown, MarkedUnknown, Recorded, Entries

LEMMA MarkSucceededRecords ==
  ASSUME TypeOK, NEW c \in Calls, KeyOf(c) \in Keys, EntryOf(c) \in Entries,
         seen[c] \in Rows, MarkSucceeded(c)
  PROVE  /\ Recorded(KeyOf(c), seen[c])
         /\ ledger'[KeyOf(c)].status = "succeeded"
         /\ ledger'[KeyOf(c)].readBack = seen[c]
  BY SqlUpdateAssumption DEF TypeOK, EntryOf, MarkSucceeded, Recorded, Entries

-----------------------------------------------------------------------------
\* One lemma per action: the invariant survives it.

LEMMA KeyOfCall ==
  ASSUME IInv, NEW c \in Calls, pc[c] # "idle"
  PROVE  /\ req[c] \in Requests /\ KeyOf(c) \in Keys
         /\ req[c].expect \in 0..(MaxVersion - 1) /\ req[c].val \in Vals
  BY SqlUpdateAssumption DEF IInv, CallInv, RequestInv, KeyOf, RequestSpace

LEMMA DeliverKeeps ==
  ASSUME IInv, NEW c \in Calls, NEW q \in Requests, Deliver(c, q)
  PROVE  IInv'
<1> USE SqlUpdateAssumption, KeyOfCall DEF Deliver, Resume, Goto, KeyOf, EntryOf, RequestSpace
<1>1. TypeOK'
  BY DEF IInv, TypeOK, CallInv, RequestInv, EntryKnown, SeenInv, Writer, Running, Statuses, Rows, Entries
<1>2. ASSUME NEW d \in Calls PROVE CallInv(d)'
  BY DEF IInv, TypeOK, CallInv, RequestInv, EntryKnown, SeenInv, StageInv, CarriedInv,
         RowInv, EntryInv, Writer, Running, Matches
<1>3. ASSUME NEW k \in Keys PROVE (EntryInv(k) /\ RowInv(k))'
  BY DEF IInv, TypeOK, EntryInv, RowInv, Matches
<1>4. OneWriter'
  BY DEF IInv, TypeOK, OneWriter, CallInv, Writer, RequestInv
<1>5. QED
  BY <1>1, <1>2, <1>3, <1>4 DEF IInv

LEMMA PreviewKeeps ==
  ASSUME IInv, NEW c \in Calls, Preview(c)
  PROVE  IInv'
<1> USE SqlUpdateAssumption, KeyOfCall DEF Preview, Expected, Goto, KeyOf, EntryOf
<1>1. TypeOK'
  BY DEF IInv, TypeOK, CallInv, RequestInv, EntryKnown, SeenInv, Writer, Running, Statuses, Rows, Entries
<1>2. ASSUME NEW d \in Calls PROVE CallInv(d)'
  BY DEF IInv, TypeOK, CallInv, RequestInv, EntryKnown, SeenInv, StageInv, CarriedInv,
         RowInv, EntryInv, Writer, Running, Matches
<1>3. ASSUME NEW k \in Keys PROVE (EntryInv(k) /\ RowInv(k))'
  BY DEF IInv, TypeOK, EntryInv, RowInv, Matches
<1>4. OneWriter'
  BY DEF IInv, TypeOK, OneWriter, CallInv, Writer, RequestInv
<1>5. QED
  BY <1>1, <1>2, <1>3, <1>4 DEF IInv

LEMMA PreviewFailsKeeps ==
  ASSUME IInv, NEW c \in Calls, PreviewFails(c)
  PROVE  IInv'
<1> USE SqlUpdateAssumption, KeyOfCall DEF PreviewFails, Goto, KeyOf, EntryOf
<1>1. TypeOK'
  BY DEF IInv, TypeOK, CallInv, RequestInv, EntryKnown, SeenInv, Writer, Running, Statuses, Rows, Entries
<1>2. ASSUME NEW d \in Calls PROVE CallInv(d)'
  BY DEF IInv, TypeOK, CallInv, RequestInv, EntryKnown, SeenInv, StageInv, CarriedInv,
         RowInv, EntryInv, Writer, Running, Matches
<1>3. ASSUME NEW k \in Keys PROVE (EntryInv(k) /\ RowInv(k))'
  BY DEF IInv, TypeOK, EntryInv, RowInv, Matches
<1>4. OneWriter'
  BY DEF IInv, TypeOK, OneWriter, CallInv, Writer, RequestInv
<1>5. QED
  BY <1>1, <1>2, <1>3, <1>4 DEF IInv

LEMMA DeclineKeeps ==
  ASSUME IInv, NEW c \in Calls, Decline(c)
  PROVE  IInv'
<1> USE SqlUpdateAssumption, KeyOfCall DEF Decline, Goto, KeyOf, EntryOf
<1>1. TypeOK'
  BY DEF IInv, TypeOK, CallInv, RequestInv, EntryKnown, SeenInv, Writer, Running, Statuses, Rows, Entries
<1>2. ASSUME NEW d \in Calls PROVE CallInv(d)'
  BY DEF IInv, TypeOK, CallInv, RequestInv, EntryKnown, SeenInv, StageInv, CarriedInv,
         RowInv, EntryInv, Writer, Running, Matches
<1>3. ASSUME NEW k \in Keys PROVE (EntryInv(k) /\ RowInv(k))'
  BY DEF IInv, TypeOK, EntryInv, RowInv, Matches
<1>4. OneWriter'
  BY DEF IInv, TypeOK, OneWriter, CallInv, Writer, RequestInv
<1>5. QED
  BY <1>1, <1>2, <1>3, <1>4 DEF IInv

LEMMA ConfirmFailsKeeps ==
  ASSUME IInv, NEW c \in Calls, ConfirmFails(c)
  PROVE  IInv'
<1> USE SqlUpdateAssumption, KeyOfCall DEF ConfirmFails, Goto, KeyOf, EntryOf
<1>1. TypeOK'
  BY DEF IInv, TypeOK, CallInv, RequestInv, EntryKnown, SeenInv, Writer, Running, Statuses, Rows, Entries
<1>2. ASSUME NEW d \in Calls PROVE CallInv(d)'
  BY DEF IInv, TypeOK, CallInv, RequestInv, EntryKnown, SeenInv, StageInv, CarriedInv,
         RowInv, EntryInv, Writer, Running, Matches
<1>3. ASSUME NEW k \in Keys PROVE (EntryInv(k) /\ RowInv(k))'
  BY DEF IInv, TypeOK, EntryInv, RowInv, Matches
<1>4. OneWriter'
  BY DEF IInv, TypeOK, OneWriter, CallInv, Writer, RequestInv
<1>5. QED
  BY <1>1, <1>2, <1>3, <1>4 DEF IInv

LEMMA BeforeReadKeeps ==
  ASSUME IInv, NEW c \in Calls, BeforeRead(c)
  PROVE  IInv'
<1> USE SqlUpdateAssumption, KeyOfCall DEF BeforeRead, Goto, KeyOf, EntryOf
<1>1. TypeOK'
  BY DEF IInv, TypeOK, CallInv, RequestInv, EntryKnown, SeenInv, Writer, Running, Statuses, Rows, Entries
<1>2. ASSUME NEW d \in Calls PROVE CallInv(d)'
  BY DEF IInv, TypeOK, CallInv, RequestInv, EntryKnown, SeenInv, StageInv, CarriedInv,
         RowInv, EntryInv, Writer, Running, Matches
<1>3. ASSUME NEW k \in Keys PROVE (EntryInv(k) /\ RowInv(k))'
  BY DEF IInv, TypeOK, EntryInv, RowInv, Matches
<1>4. OneWriter'
  BY DEF IInv, TypeOK, OneWriter, CallInv, Writer, RequestInv
<1>5. QED
  BY <1>1, <1>2, <1>3, <1>4 DEF IInv

\* A confirmed call either opens the entry of its key, which nobody had, or
\* changes nothing but its own place.
LEMMA ConfirmKeeps ==
  ASSUME IInv, NEW c \in Calls, Confirm(c)
  PROVE  IInv'
<1> DEFINE entry == [status |-> "pending", print |-> req[c],
                     before |-> seen[c], readBack |-> None]
<1>1. /\ pc[c] = "confirm" /\ srv[c] = "none" /\ KeyOf(c) \in Keys
      /\ req[c] \in Requests /\ req[c].key = KeyOf(c)
      /\ seen[c] \in Rows /\ seen[c].ver = req[c].expect
  BY KeyOfCall DEF Confirm, IInv, CallInv, SeenInv, StageInv, Running, KeyOf
<1>2. CASE EntryOf(c) = None
  <2>1. /\ ledger' = [ledger EXCEPT ![KeyOf(c)] = entry]
        /\ Goto(c, "write") /\ Witness(row, ledger')
        /\ UNCHANGED <<row, lock, srv, req, seen, denied>>
    BY <1>2 DEF Confirm
  <2>2. entry \in Entries /\ entry # None
    BY <1>1, SqlUpdateAssumption DEF Entries
  <2>3. \A d \in Calls : Writer(d) \/ pc[d] \in {"recover", "judge"} => KeyOf(d) # KeyOf(c)
    BY <1>2, SqlUpdateAssumption DEF IInv, CallInv, EntryKnown, EntryOf
  <2>4. TypeOK'
    BY <1>1, <2>1, <2>2, SqlUpdateAssumption DEF IInv, TypeOK, Goto, Witness, Running
  <2>5. ASSUME NEW d \in Calls PROVE CallInv(d)'
    BY <1>1, <2>1, <2>2, <2>3, KeyOfCall DEF IInv, TypeOK, CallInv, RequestInv, EntryKnown,
       SeenInv, StageInv, CarriedInv, Writer, Running, Matches, Goto, Witness, KeyOf, EntryOf
  <2>6. ASSUME NEW k \in Keys PROVE (EntryInv(k) /\ RowInv(k))'
    BY <1>1, <2>1, <2>2 DEF IInv, TypeOK, EntryInv, RowInv, Matches, Witness, KeyOf
  <2>7. OneWriter'
    BY <1>1, <2>1, <2>3 DEF IInv, TypeOK, OneWriter, Writer, Goto, KeyOf
  <2>8. QED
    BY <2>4, <2>5, <2>6, <2>7 DEF IInv
<1>3. CASE EntryOf(c) # None
  <2>1. PICK o \in {"source_conflict", "succeeded", "recover"} :
          /\ Goto(c, o)
          /\ o = "recover" => EntryOf(c).print = req[c]
          /\ UNCHANGED <<row, lock, srv, req, ledger, carried, denied>>
    BY <1>3 DEF Confirm
  <2>2. seen' \in [Calls -> Rows \cup {None}] /\ \A d \in Calls \ {c} : seen'[d] = seen[d]
    BY <1>1, <1>3, SqlUpdateAssumption DEF Confirm, IInv, TypeOK, EntryOf, Entries
  <2>3. TypeOK'
    BY <2>1, <2>2 DEF IInv, TypeOK, Goto, Running, Statuses
  <2>4. ASSUME NEW d \in Calls PROVE CallInv(d)'
    BY <1>1, <1>3, <2>1, <2>2 DEF IInv, TypeOK, CallInv, RequestInv, EntryKnown,
       SeenInv, StageInv, CarriedInv, Writer, Running, Matches, Goto, KeyOf, EntryOf
  <2>5. ASSUME NEW k \in Keys PROVE (EntryInv(k) /\ RowInv(k))'
    BY <2>1 DEF IInv, EntryInv, RowInv, Matches
  <2>6. OneWriter'
    BY <1>1, <2>1 DEF IInv, TypeOK, OneWriter, Writer, Goto, KeyOf
  <2>7. QED
    BY <2>3, <2>4, <2>5, <2>6 DEF IInv
<1>4. QED
  BY <1>2, <1>3

\* The row the UPDATE leaves is a row, and matches the entry it was made from.
LEMMA WrittenMatches ==
  ASSUME IInv, NEW c \in Calls, pc[c] = "update", Expected(c)
  PROVE  Written(row, EntryOf(c)) \in Rows /\ Matches(Written(row, EntryOf(c)), EntryOf(c))
<1>1. req[c] \in RequestSpace /\ KeyOf(c) \in Keys
  BY SqlUpdateAssumption, KeyOfCall
<1>2. EntryOf(c) \in Entries /\ EntryOf(c).print = req[c] /\ EntryOf(c).before.ver = req[c].expect
  BY <1>1, SqlUpdateAssumption DEF IInv, CallInv, EntryKnown, EntryInv, EntryOf, Writer, Entries
<1>3. row \in Rows
  BY DEF IInv, TypeOK, Expected
<1>4. Written(row, EntryOf(c)) =
        [ver |-> req[c].expect + 1, val |-> req[c].val, memo |-> row.memo]
  BY <1>2, <1>3 DEF Written, Rows
<1>5. QED
  BY <1>1, <1>2, <1>3, <1>4, SqlUpdateAssumption DEF Rows, Matches, RequestSpace

LEMMA UpdateKeeps ==
  ASSUME IInv, NEW c \in Calls, Update(c)
  PROVE  IInv'
<1>1. /\ pc[c] = "update" /\ srv[c] = "none" /\ KeyOf(c) \in Keys
      /\ UNCHANGED <<row, req, ledger, carried, denied>>
  BY KeyOfCall DEF Update, IInv, CallInv, StageInv, Running
<1>2. CASE Expected(c)
  <2>1. /\ lock' = c /\ srv' = [srv EXCEPT ![c] = "updated"]
        /\ Goto(c, "commit") /\ seen' = [seen EXCEPT ![c] = Written(row, EntryOf(c))]
    BY <1>2 DEF Update
  <2>2. Written(row, EntryOf(c)) \in Rows /\ Matches(Written(row, EntryOf(c)), EntryOf(c))
    BY <1>1, <1>2, WrittenMatches
  <2>3. TypeOK'
    BY <1>1, <2>1, <2>2 DEF IInv, TypeOK, Goto, Running
  <2>4. ASSUME NEW d \in Calls PROVE CallInv(d)'
    BY <1>1, <2>1, <2>2 DEF IInv, TypeOK, CallInv, RequestInv, EntryKnown, SeenInv,
       StageInv, CarriedInv, Writer, Running, Goto, Matches, KeyOf, EntryOf
  <2>5. OneWriter'
    BY <1>1, <2>1 DEF IInv, TypeOK, OneWriter, Writer, Goto, KeyOf
  <2>6. QED
    BY <1>1, <2>3, <2>4, <2>5 DEF IInv, EntryInv, RowInv, Matches
<1>3. CASE ~Expected(c)
  <2>1. Goto(c, "source_conflict") /\ UNCHANGED <<lock, srv, seen>>
    BY <1>3 DEF Update
  <2>2. TypeOK'
    BY <1>1, <2>1 DEF IInv, TypeOK, Goto, Statuses
  <2>3. ASSUME NEW d \in Calls PROVE CallInv(d)'
    BY <1>1, <2>1 DEF IInv, TypeOK, CallInv, RequestInv, EntryKnown, SeenInv,
       StageInv, CarriedInv, Writer, Running, Goto, Matches, KeyOf, EntryOf
  <2>4. OneWriter'
    BY <1>1, <2>1 DEF IInv, TypeOK, OneWriter, Writer, Goto, KeyOf
  <2>5. QED
    BY <1>1, <2>1, <2>2, <2>3, <2>4 DEF IInv, EntryInv, RowInv, Matches
<1>4. QED
  BY <1>2, <1>3

LEMMA WriteFailsKeeps ==
  ASSUME IInv, NEW c \in Calls, WriteFails(c)
  PROVE  IInv'
<1> USE SqlUpdateAssumption, KeyOfCall DEF WriteFails, Goto, KeyOf, EntryOf
<1>1. TypeOK'
  BY DEF IInv, TypeOK, CallInv, RequestInv, EntryKnown, SeenInv, Writer, Running, Statuses, Rows, Entries
<1>2. ASSUME NEW d \in Calls PROVE CallInv(d)'
  BY DEF IInv, TypeOK, CallInv, RequestInv, EntryKnown, SeenInv, StageInv, CarriedInv,
         RowInv, EntryInv, Writer, Running, Matches
<1>3. ASSUME NEW k \in Keys PROVE (EntryInv(k) /\ RowInv(k))'
  BY DEF IInv, TypeOK, EntryInv, RowInv, Matches
<1>4. OneWriter'
  BY DEF IInv, TypeOK, OneWriter, CallInv, Writer, RequestInv
<1>5. QED
  BY <1>1, <1>2, <1>3, <1>4 DEF IInv

LEMMA SendCommitKeeps ==
  ASSUME IInv, NEW c \in Calls, SendCommit(c)
  PROVE  IInv'
<1> USE SqlUpdateAssumption, KeyOfCall DEF SendCommit, Goto, KeyOf, EntryOf
<1>1. TypeOK'
  BY DEF IInv, TypeOK, CallInv, RequestInv, EntryKnown, SeenInv, Writer, Running, Statuses, Rows, Entries
<1>2. ASSUME NEW d \in Calls PROVE CallInv(d)'
  BY DEF IInv, TypeOK, CallInv, RequestInv, EntryKnown, SeenInv, StageInv, CarriedInv,
         RowInv, EntryInv, Writer, Running, Matches
<1>3. ASSUME NEW k \in Keys PROVE (EntryInv(k) /\ RowInv(k))'
  BY DEF IInv, TypeOK, EntryInv, RowInv, Matches
<1>4. OneWriter'
  BY DEF IInv, TypeOK, OneWriter, CallInv, Writer, RequestInv
<1>5. QED
  BY <1>1, <1>2, <1>3, <1>4 DEF IInv

LEMMA RecoverReadKeeps ==
  ASSUME IInv, NEW c \in Calls, RecoverRead(c)
  PROVE  IInv'
<1> USE SqlUpdateAssumption, KeyOfCall DEF RecoverRead, Goto, KeyOf, EntryOf
<1>1. TypeOK'
  BY DEF IInv, TypeOK, CallInv, RequestInv, EntryKnown, SeenInv, Writer, Running, Statuses, Rows, Entries
<1>2. ASSUME NEW d \in Calls PROVE CallInv(d)'
  BY DEF IInv, TypeOK, CallInv, RequestInv, EntryKnown, SeenInv, StageInv, CarriedInv,
         RowInv, EntryInv, Writer, Running, Matches
<1>3. ASSUME NEW k \in Keys PROVE (EntryInv(k) /\ RowInv(k))'
  BY DEF IInv, TypeOK, EntryInv, RowInv, Matches
<1>4. OneWriter'
  BY DEF IInv, TypeOK, OneWriter, CallInv, Writer, RequestInv
<1>5. QED
  BY <1>1, <1>2, <1>3, <1>4 DEF IInv

LEMMA JudgeNotWrittenKeeps ==
  ASSUME IInv, NEW c \in Calls, JudgeNotWritten(c)
  PROVE  IInv'
<1> USE SqlUpdateAssumption, KeyOfCall DEF JudgeNotWritten, Goto, KeyOf, EntryOf
<1>1. TypeOK'
  BY DEF IInv, TypeOK, CallInv, RequestInv, EntryKnown, SeenInv, Writer, Running, Statuses, Rows, Entries
<1>2. ASSUME NEW d \in Calls PROVE CallInv(d)'
  BY DEF IInv, TypeOK, CallInv, RequestInv, EntryKnown, SeenInv, StageInv, CarriedInv,
         RowInv, EntryInv, Writer, Running, Matches
<1>3. ASSUME NEW k \in Keys PROVE (EntryInv(k) /\ RowInv(k))'
  BY DEF IInv, TypeOK, EntryInv, RowInv, Matches
<1>4. OneWriter'
  BY DEF IInv, TypeOK, OneWriter, CallInv, Writer, RequestInv
<1>5. QED
  BY <1>1, <1>2, <1>3, <1>4 DEF IInv

\* The ends of a write and of a recovery share this: the outcome is recorded
\* and the call is answered.
LEMMA RecordedKeeps ==
  ASSUME IInv, NEW c \in Calls, pc[c] \in {"committing", "recover", "judge"},
         NEW o \in {"succeeded", "unknown"}, Goto(c, o),
         Recorded(KeyOf(c), seen[c]),
         ledger'[KeyOf(c)].status = "succeeded" /\ EntryOf(c).status # "succeeded" =>
           KeyOf(c) \in carried /\ Matches(seen[c], EntryOf(c)),
         UNCHANGED <<row, lock, srv, req, seen, carried, denied>>
  PROVE  IInv'
<1> USE SqlUpdateAssumption, KeyOfCall DEF Recorded, Goto, KeyOf, EntryOf
<1>1. TypeOK'
  BY DEF IInv, TypeOK, CallInv, RequestInv, EntryKnown, SeenInv, Writer, Running, Statuses, Rows, Entries
<1>2. ASSUME NEW d \in Calls PROVE CallInv(d)'
  BY DEF IInv, TypeOK, CallInv, RequestInv, EntryKnown, SeenInv, StageInv, CarriedInv,
         RowInv, EntryInv, Writer, Running, Matches
<1>3. ASSUME NEW k \in Keys PROVE (EntryInv(k) /\ RowInv(k))'
  <2>1. CASE k # KeyOf(c)
    BY <2>1 DEF IInv, EntryInv, RowInv, Matches
  <2>2. CASE k = KeyOf(c) /\ ledger[k].status = "succeeded"
    BY <2>2 DEF IInv, TypeOK, CallInv, EntryKnown, Writer, EntryInv, RowInv, Matches
  <2>3. CASE k = KeyOf(c) /\ ledger[k].status # "succeeded"
    BY <2>3 DEF IInv, TypeOK, CallInv, EntryKnown, Writer, EntryInv, RowInv, Matches
  <2>4. QED
    BY <2>1, <2>2, <2>3
<1>4. OneWriter'
  BY DEF IInv, TypeOK, OneWriter, CallInv, Writer, RequestInv
<1>5. QED
  BY <1>1, <1>2, <1>3, <1>4 DEF IInv

LEMMA AcknowledgedKeeps ==
  ASSUME IInv, NEW c \in Calls, Acknowledged(c)
  PROVE  IInv'
<1>1. /\ pc[c] = "committing" /\ KeyOf(c) \in Keys /\ EntryOf(c) \in Entries /\ TypeOK
      /\ seen[c] \in Rows /\ Matches(seen[c], EntryOf(c)) /\ KeyOf(c) \in carried
  BY KeyOfCall DEF Acknowledged, IInv, CallInv, EntryKnown, SeenInv, CarriedInv, Writer
<1>2. CASE MarkSucceeded(c) /\ Goto(c, "succeeded")
  BY <1>1, <1>2, MarkSucceededRecords, RecordedKeeps DEF Acknowledged
<1>3. CASE EndUnknown(c)
  BY <1>1, <1>3, EndUnknownRecords, RecordedKeeps DEF Acknowledged, EndUnknown
<1>4. QED
  BY <1>2, <1>3 DEF Acknowledged, Conclude

LEMMA JudgeWrittenKeeps ==
  ASSUME IInv, NEW c \in Calls, JudgeWritten(c)
  PROVE  IInv'
<1>1. /\ pc[c] = "judge" /\ KeyOf(c) \in Keys /\ EntryOf(c) \in Entries /\ TypeOK
      /\ seen[c] \in Rows /\ Matches(seen[c], EntryOf(c)) /\ KeyOf(c) \in carried
  BY KeyOfCall DEF JudgeWritten, IInv, TypeOK, CallInv, EntryKnown, CarriedInv, Matches
<1>2. CASE MarkSucceeded(c) /\ Goto(c, "succeeded")
  BY <1>1, <1>2, MarkSucceededRecords, RecordedKeeps DEF JudgeWritten
<1>3. CASE EndUnknown(c)
  BY <1>1, <1>3, EndUnknownRecords, RecordedKeeps DEF JudgeWritten, EndUnknown
<1>4. QED
  BY <1>2, <1>3 DEF JudgeWritten, Conclude

\* The three ends that can only be "unknown".
LEMMA EndUnknownKeeps ==
  ASSUME IInv, NEW c \in Calls,
         OutcomeLost(c) \/ RecoverReadFails(c) \/ JudgeUndecided(c)
  PROVE  IInv'
<1>1. /\ pc[c] \in {"committing", "recover", "judge"} /\ EndUnknown(c)
      /\ UNCHANGED <<row, lock, srv, req, seen, carried, denied>>
  BY DEF OutcomeLost, RecoverReadFails, JudgeUndecided
<1>2. KeyOf(c) \in Keys /\ EntryOf(c) \in Entries /\ TypeOK
  BY <1>1, KeyOfCall DEF IInv, CallInv, EntryKnown, Writer
<1>3. QED
  BY <1>1, <1>2, EndUnknownRecords, RecordedKeeps DEF EndUnknown

LEMMA ServerCommitKeeps ==
  ASSUME IInv, NEW c \in Calls, ServerCommit(c)
  PROVE  IInv'
<1> USE SqlUpdateAssumption, KeyOfCall DEF ServerCommit, Witness, KeyOf, EntryOf
<1>1. TypeOK'
  BY DEF IInv, TypeOK, CallInv, RequestInv, EntryKnown, SeenInv, Writer, Running, Statuses, Rows, Entries
<1>2. ASSUME NEW d \in Calls PROVE CallInv(d)'
  BY DEF IInv, TypeOK, CallInv, RequestInv, EntryKnown, SeenInv, StageInv, CarriedInv,
         RowInv, EntryInv, Writer, Running, Matches
<1>3. ASSUME NEW k \in Keys PROVE (EntryInv(k) /\ RowInv(k))'
  BY DEF IInv, TypeOK, EntryInv, RowInv, Matches
<1>4. OneWriter'
  BY DEF IInv, TypeOK, OneWriter, CallInv, Writer, RequestInv
<1>5. QED
  BY <1>1, <1>2, <1>3, <1>4 DEF IInv

LEMMA ServerRollbackKeeps ==
  ASSUME IInv, NEW c \in Calls, ServerRollback(c)
  PROVE  IInv'
<1> USE SqlUpdateAssumption, KeyOfCall DEF ServerRollback, KeyOf, EntryOf
<1>1. TypeOK'
  BY DEF IInv, TypeOK, CallInv, RequestInv, EntryKnown, SeenInv, Writer, Running, Statuses, Rows, Entries
<1>2. ASSUME NEW d \in Calls PROVE CallInv(d)'
  BY DEF IInv, TypeOK, CallInv, RequestInv, EntryKnown, SeenInv, StageInv, CarriedInv,
         RowInv, EntryInv, Writer, Running, Matches
<1>3. ASSUME NEW k \in Keys PROVE (EntryInv(k) /\ RowInv(k))'
  BY DEF IInv, TypeOK, EntryInv, RowInv, Matches
<1>4. OneWriter'
  BY DEF IInv, TypeOK, OneWriter, CallInv, Writer, RequestInv
<1>5. QED
  BY <1>1, <1>2, <1>3, <1>4 DEF IInv

LEMMA PeerWriteKeeps ==
  ASSUME IInv, NEW r \in Rows \cup {None}, PeerWrite(r)
  PROVE  IInv'
<1> USE SqlUpdateAssumption, KeyOfCall DEF PeerWrite, Witness, KeyOf, EntryOf
<1>1. TypeOK'
  BY DEF IInv, TypeOK, CallInv, RequestInv, EntryKnown, SeenInv, Writer, Running, Statuses, Rows, Entries
<1>2. ASSUME NEW d \in Calls PROVE CallInv(d)'
  BY DEF IInv, TypeOK, CallInv, RequestInv, EntryKnown, SeenInv, StageInv, CarriedInv,
         RowInv, EntryInv, Writer, Running, Matches
<1>3. ASSUME NEW k \in Keys PROVE (EntryInv(k) /\ RowInv(k))'
  BY DEF IInv, TypeOK, EntryInv, RowInv, Matches
<1>4. OneWriter'
  BY DEF IInv, TypeOK, OneWriter, CallInv, Writer, RequestInv
<1>5. QED
  BY <1>1, <1>2, <1>3, <1>4 DEF IInv

LEMMA CrashKeeps ==
  ASSUME IInv, Crash
  PROVE  IInv'
<1> USE SqlUpdateAssumption, KeyOfCall DEF Crash, KeyOf, EntryOf
<1>1. TypeOK'
  BY DEF IInv, TypeOK, CallInv, RequestInv, EntryKnown, SeenInv, Writer, Running, Statuses, Rows, Entries
<1>2. ASSUME NEW d \in Calls PROVE CallInv(d)'
  BY DEF IInv, TypeOK, CallInv, RequestInv, EntryKnown, SeenInv, StageInv, CarriedInv,
         RowInv, EntryInv, Writer, Running, Matches
<1>3. ASSUME NEW k \in Keys PROVE (EntryInv(k) /\ RowInv(k))'
  BY DEF IInv, TypeOK, EntryInv, RowInv, Matches
<1>4. OneWriter'
  BY DEF IInv, TypeOK, OneWriter, CallInv, Writer, RequestInv
<1>5. QED
  BY <1>1, <1>2, <1>3, <1>4 DEF IInv

-----------------------------------------------------------------------------
LEMMA Initially == Init => IInv
<1> SUFFICES ASSUME Init PROVE IInv
  OBVIOUS
<1> USE SqlUpdateAssumption DEF Init
<1>1. TypeOK
  BY DEF TypeOK, Rows
<1>2. ASSUME NEW c \in Calls PROVE CallInv(c)
  BY DEF CallInv, RequestInv, EntryKnown, SeenInv, StageInv, CarriedInv, Writer, Running
<1>3. QED
  BY <1>1, <1>2 DEF IInv, EntryInv, RowInv, OneWriter, Writer

LEMMA Inductive == IInv /\ [Next]_vars => IInv'
<1> SUFFICES ASSUME IInv, [Next]_vars PROVE IInv'
  OBVIOUS
<1>1. ASSUME NEW c \in Calls, NEW q \in Requests, Deliver(c, q) PROVE IInv'
  BY <1>1, DeliverKeeps
<1>2. ASSUME NEW c \in Calls, ClientStep(c) PROVE IInv'
  BY <1>2, PreviewKeeps, PreviewFailsKeeps, ConfirmKeeps, DeclineKeeps, ConfirmFailsKeeps,
     BeforeReadKeeps, UpdateKeeps, WriteFailsKeeps, SendCommitKeeps, AcknowledgedKeeps,
     RecoverReadKeeps, JudgeWrittenKeeps, JudgeNotWrittenKeeps, EndUnknownKeeps DEF ClientStep
<1>3. ASSUME NEW c \in Calls, ServerCommit(c) \/ ServerRollback(c) PROVE IInv'
  BY <1>3, ServerCommitKeeps, ServerRollbackKeeps
<1>4. ASSUME NEW r \in Rows \cup {None}, PeerWrite(r) PROVE IInv'
  BY <1>4, PeerWriteKeeps
<1>5. CASE Crash
  BY <1>5, CrashKeeps
<1>6. CASE UNCHANGED vars
  BY <1>6 DEF vars, IInv, TypeOK, CallInv, RequestInv, EntryKnown, SeenInv, StageInv,
     CarriedInv, EntryInv, RowInv, OneWriter, Writer, EntryOf, KeyOf
<1>7. QED
  BY <1>1, <1>2, <1>3, <1>4, <1>5, <1>6 DEF Next

LEMMA Invariance == Spec => []IInv
  BY Initially, Inductive, PTL DEF Spec

-----------------------------------------------------------------------------
\* Every state is made of rows, entries and statuses that exist, and the
\* ledger's table CHECK holds in each of them.
THEOREM TypeCorrect == Spec => []TypeOK
<1>1. IInv => TypeOK
  BY DEF IInv
<1>2. QED
  BY <1>1, Invariance, PTL

\* One idempotency key commits its UPDATE at most once, whatever the number of
\* deliveries, crashes, lost answers and other writers, on databases with and
\* without versioned reads.
THEOREM WritesOnce == Spec => []AtMostOneCommit
<1>1. IInv => AtMostOneCommit
  BY DEF IInv, OneWriter, Writer, AtMostOneCommit
<1>2. QED
  BY <1>1, Invariance, PTL

\* The ledger says "succeeded" only of a change the row has carried.
THEOREM SuccessIsVisible == Spec => []SuccessWasVisible
<1>1. IInv => SuccessWasVisible
  BY DEF IInv, EntryInv, SuccessWasVisible
<1>2. QED
  BY <1>1, Invariance, PTL

\* An answer other than "succeeded" and "unknown" means that this delivery
\* wrote nothing and never will.
THEOREM FailuresAreHonest == Spec => []HonestFailure
<1>1. IInv => HonestFailure
  BY DEF IInv, CallInv, StageInv, HonestFailure
<1>2. QED
  BY <1>1, Invariance, PTL

-----------------------------------------------------------------------------
\* Open transactions.

Open(c) == srv[c] \in {"updated", "committing"}

\* An open transaction holds the row, and what it will commit is the row of the
\* version it found with its change made.
OpenInv(c) ==
  Open(c) =>
    /\ lock = c
    /\ row \in Rows /\ row.ver = EntryOf(c).before.ver
    /\ seen[c] = Written(row, EntryOf(c))

AgreeInv(c) ==
  pc[c] = "succeeded" =>
    /\ EntryOf(c) \in Entries
    /\ EntryOf(c).status = "succeeded"
    /\ EntryOf(c).readBack = seen[c]

LInv == \A c \in Calls : OpenInv(c) /\ AgreeInv(c)

-----------------------------------------------------------------------------
\* What the steps do to the ledger.

\* An entry is opened for a confirmed request.
Opens(c) ==
  /\ pc[c] = "confirm" /\ EntryOf(c) = None
  /\ ledger' = [ledger EXCEPT ![KeyOf(c)] =
       [status |-> "pending", print |-> req[c], before |-> seen[c], readBack |-> None]]
  /\ Witness(row, ledger') /\ Goto(c, "write")
  /\ UNCHANGED <<row, lock, srv, req, seen, denied>>

\* An outcome is recorded and the call is answered.
Settles(c) ==
  /\ pc[c] \in {"committing", "recover", "judge"}
  /\ Recorded(KeyOf(c), seen[c])
  /\ ledger'[KeyOf(c)].status = "succeeded" /\ EntryOf(c).status # "succeeded" =>
       KeyOf(c) \in carried
  /\ \/ Goto(c, "unknown")
     \/ /\ Goto(c, "succeeded")
        /\ ledger'[KeyOf(c)].status = "succeeded" /\ ledger'[KeyOf(c)].readBack = seen[c]
  /\ UNCHANGED <<row, lock, srv, req, seen, carried, denied>>

\* Every other step of a call.
Rest(c) ==
  \/ Preview(c) \/ PreviewFails(c) \/ Decline(c) \/ ConfirmFails(c)
  \/ BeforeRead(c) \/ Update(c) \/ WriteFails(c) \/ SendCommit(c)
  \/ RecoverRead(c) \/ JudgeNotWritten(c)
  \/ ServerCommit(c) \/ ServerRollback(c)

Other(c) ==
  \/ \E q \in Requests : Deliver(c, q)
  \/ Confirm(c) /\ EntryOf(c) # None
  \/ Rest(c)

LEMMA SettleSteps ==
  ASSUME IInv, NEW c \in Calls,
         Acknowledged(c) \/ OutcomeLost(c) \/ RecoverReadFails(c) \/ JudgeWritten(c) \/ JudgeUndecided(c)
  PROVE  Settles(c)
<1>1. /\ pc[c] \in {"committing", "recover", "judge"} /\ TypeOK
      /\ KeyOf(c) \in Keys /\ EntryOf(c) \in Entries
      /\ UNCHANGED <<row, lock, srv, req, seen, carried, denied>>
  BY KeyOfCall DEF Acknowledged, OutcomeLost, RecoverReadFails, JudgeWritten, JudgeUndecided,
     IInv, CallInv, EntryKnown, Writer
<1>2. CASE EndUnknown(c)
  BY <1>1, <1>2, EndUnknownRecords DEF Settles, EndUnknown
<1>3. CASE MarkSucceeded(c) /\ Goto(c, "succeeded") /\ (Acknowledged(c) \/ JudgeWritten(c))
  <2>1. seen[c] \in Rows /\ KeyOf(c) \in carried
    BY <1>3 DEF Acknowledged, JudgeWritten, IInv, TypeOK, CallInv, SeenInv, CarriedInv, Matches
  <2>2. QED
    BY <1>1, <1>3, <2>1, MarkSucceededRecords DEF Settles
<1>4. QED
  BY <1>2, <1>3 DEF Acknowledged, OutcomeLost, RecoverReadFails, JudgeWritten, JudgeUndecided, Conclude

LEMMA StepCases ==
  ASSUME IInv, [Next]_vars
  PROVE  \/ \E c \in Calls : Opens(c) \/ Settles(c) \/ Other(c)
         \/ \E r \in Rows \cup {None} : PeerWrite(r)
         \/ Crash
         \/ UNCHANGED vars
<1>1. ASSUME NEW c \in Calls, ClientStep(c) PROVE Opens(c) \/ Settles(c) \/ Other(c)
  BY <1>1, SettleSteps DEF ClientStep, Other, Rest, Opens, Confirm
<1>2. QED
  BY <1>1 DEF Next, Other, Rest

\* Entries that are there keep their fingerprint and their before record, and a
\* success keeps its read-back.
LEMMA EntriesStay ==
  ASSUME IInv, [Next]_vars, NEW k \in Keys, ledger[k] # None
  PROVE  /\ ledger'[k] \in Entries
         /\ ledger'[k].print = ledger[k].print /\ ledger'[k].before = ledger[k].before
         /\ ledger[k].status = "succeeded" =>
              ledger'[k].status = "succeeded" /\ ledger'[k].readBack = ledger[k].readBack
<1>1. ledger[k] \in Entries /\ TypeOK
  BY DEF IInv, TypeOK
<1>2. ASSUME NEW c \in Calls, Settles(c) PROVE
         /\ ledger'[k] \in Entries
         /\ ledger'[k].print = ledger[k].print /\ ledger'[k].before = ledger[k].before
         /\ ledger[k].status = "succeeded" =>
              ledger'[k].status = "succeeded" /\ ledger'[k].readBack = ledger[k].readBack
  BY <1>1, <1>2 DEF Settles, Recorded
<1>3. ASSUME NEW c \in Calls, Opens(c) PROVE ledger'[k] = ledger[k]
  BY <1>1, <1>3 DEF Opens, TypeOK, EntryOf
<1>4. ASSUME NEW c \in Calls, Other(c) PROVE ledger' = ledger
  BY <1>4 DEF Other, Rest, Deliver, Preview, PreviewFails, Decline, ConfirmFails, Confirm, BeforeRead, Update,
     WriteFails, SendCommit, RecoverRead, JudgeNotWritten, ServerCommit, ServerRollback
<1>5. QED
  BY <1>1, <1>2, <1>3, <1>4, StepCases DEF PeerWrite, Crash, vars

\* A call's request is fixed when it is delivered.
LEMMA RequestsStay ==
  ASSUME IInv, [Next]_vars, NEW d \in Calls, pc[d] # "idle"
  PROVE  req'[d] = req[d] /\ KeyOf(d)' = KeyOf(d)
<1>1. ASSUME NEW c \in Calls, Other(c) PROVE req'[d] = req[d]
  BY <1>1 DEF Other, Rest, Deliver, Preview, PreviewFails, Decline, ConfirmFails, Confirm, BeforeRead, Update,
     WriteFails, SendCommit, RecoverRead, JudgeNotWritten, ServerCommit, ServerRollback, IInv, TypeOK
<1>2. req'[d] = req[d]
  BY <1>1, StepCases DEF PeerWrite, Crash, vars, Opens, Settles
<1>3. QED
  BY <1>2 DEF KeyOf

-----------------------------------------------------------------------------
LEMMA OpenKnows ==
  ASSUME IInv, [Next]_vars, NEW d \in Calls, Open(d)
  PROVE  /\ pc[d] # "idle" /\ KeyOf(d) \in Keys /\ EntryOf(d) \in Entries
         /\ KeyOf(d)' = KeyOf(d) /\ EntryOf(d)' \in Entries
         /\ EntryOf(d)'.before = EntryOf(d).before /\ EntryOf(d)'.print = EntryOf(d).print
<1>1. pc[d] # "idle" /\ EntryOf(d) \in Entries
  BY DEF Open, IInv, CallInv, RequestInv, EntryKnown, Writer
<1>2. KeyOf(d) \in Keys /\ KeyOf(d)' = KeyOf(d) /\ EntryOf(d) # None
  BY <1>1, KeyOfCall, RequestsStay, SqlUpdateAssumption
<1>3. EntryOf(d)' = ledger'[KeyOf(d)]
  BY <1>2 DEF EntryOf
<1>4. QED
  BY <1>1, <1>2, <1>3, EntriesStay DEF EntryOf

\* While a transaction is open nobody else changes the row.
LEMMA OpenKeeps ==
  ASSUME IInv, LInv, [Next]_vars, NEW d \in Calls, Open(d)'
  PROVE  OpenInv(d)'
<1> USE SqlUpdateAssumption
<1>1. TypeOK /\ OpenInv(d)
  BY DEF IInv, LInv
<1>2. ASSUME Open(d), lock' = lock, row' = row, seen'[d] = seen[d] PROVE OpenInv(d)'
  BY <1>1, <1>2, OpenKnows DEF OpenInv, Written
<1>3. ASSUME NEW c \in Calls, Settles(c) \/ Opens(c) PROVE OpenInv(d)'
  BY <1>2, <1>3 DEF Settles, Opens, Open
<1>4. ASSUME NEW r, PeerWrite(r) PROVE OpenInv(d)'
  BY <1>1, <1>4 DEF PeerWrite, OpenInv, Open, TypeOK
<1>5. CASE Crash \/ UNCHANGED vars
  BY <1>2, <1>5 DEF Crash, vars, Open
<1>6. ASSUME NEW c \in Calls, Other(c), ~Update(c), ~ServerCommit(c), ~ServerRollback(c) PROVE OpenInv(d)'
  <2>1. row' = row /\ lock' = lock /\ Open(d)
    BY <1>1, <1>6 DEF Open, TypeOK, Other, Rest, Deliver, Preview, PreviewFails, Decline, ConfirmFails, Confirm, BeforeRead,
       WriteFails, SendCommit, RecoverRead, JudgeNotWritten
  <2>2. seen'[d] = seen[d]
    <3>1. pc[d] \notin {"idle", "preview", "confirm", "recover"}
      BY <2>1 DEF Open, IInv, CallInv, RequestInv, StageInv, Running
    <3>2. QED
      BY <1>1, <1>6, <3>1 DEF TypeOK, Other, Rest, Deliver, Resume, Preview, PreviewFails, Decline, ConfirmFails, Confirm,
         BeforeRead, WriteFails, SendCommit, RecoverRead, JudgeNotWritten
  <2>3. QED
    BY <1>2, <2>1, <2>2
<1>7. ASSUME NEW c \in Calls, Update(c) PROVE OpenInv(d)'
  <2>1. CASE ~Expected(c)
    BY <1>2, <1>7, <2>1 DEF Update, Open
  <2>2. CASE Expected(c) /\ d = c
    <3>1. /\ pc[c] = "update" /\ lock' = c /\ row' = row /\ ledger' = ledger /\ req' = req
          /\ seen' = [seen EXCEPT ![c] = Written(row, EntryOf(c))]
      BY <1>7, <2>2 DEF Update
    <3>2. row \in Rows /\ row.ver = req[c].expect
      BY <1>1, <2>2 DEF Expected, TypeOK
    <3>3. EntryOf(c) \in Entries /\ EntryOf(c).print = req[c] /\ KeyOf(c) \in Keys
      BY <3>1, KeyOfCall DEF IInv, CallInv, EntryKnown, Writer
    <3>4. EntryOf(c).before.ver = req[c].expect
      BY <3>3 DEF IInv, EntryInv, EntryOf
    <3>5. EntryOf(c)' = EntryOf(c) /\ seen'[c] = Written(row, EntryOf(c))
      BY <1>1, <3>1 DEF EntryOf, KeyOf, TypeOK
    <3>6. QED
      BY <2>2, <3>1, <3>2, <3>4, <3>5 DEF OpenInv, Written
  <2>3. CASE Expected(c) /\ d # c
    BY <1>1, <1>7, <2>3 DEF Update, Open, OpenInv, TypeOK
  <2>4. QED
    BY <2>1, <2>2, <2>3
<1>8. ASSUME NEW c \in Calls, ServerCommit(c) \/ ServerRollback(c) PROVE OpenInv(d)'
  <2>1. OpenInv(c) /\ Open(c) /\ (d = c => ~Open(d)')
    BY <1>1, <1>8 DEF LInv, Open, ServerCommit, ServerRollback, TypeOK
  <2>2. d # c /\ Open(d)
    BY <1>1, <1>8, <2>1 DEF Open, ServerCommit, ServerRollback, TypeOK
  <2>3. QED
    BY <1>1, <2>1, <2>2 DEF OpenInv
<1>9. QED
  BY <1>3, <1>4, <1>5, <1>6, <1>7, <1>8, StepCases

\* A success that was answered is the ledger's.
LEMMA AgreeKeeps ==
  ASSUME IInv, LInv, [Next]_vars, NEW d \in Calls, pc'[d] = "succeeded"
  PROVE  AgreeInv(d)'
<1> USE SqlUpdateAssumption
<1>1. TypeOK /\ AgreeInv(d)
  BY DEF IInv, LInv
<1>2. ASSUME pc[d] = "succeeded", seen'[d] = seen[d] PROVE AgreeInv(d)'
  <2>1. KeyOf(d) \in Keys /\ KeyOf(d)' = KeyOf(d) /\ EntryOf(d) # None
    BY <1>1, <1>2, KeyOfCall, RequestsStay DEF AgreeInv
  <2>2. QED
    BY <1>1, <1>2, <2>1, EntriesStay DEF AgreeInv, EntryOf
<1>3. ASSUME NEW c \in Calls, Settles(c) PROVE AgreeInv(d)'
  <2>1. CASE d # c
    BY <1>1, <1>2, <1>3, <2>1 DEF Settles, Goto, TypeOK
  <2>2. CASE d = c
    <3>1. ledger'[KeyOf(c)].status = "succeeded" /\ ledger'[KeyOf(c)].readBack = seen[c]
          /\ ledger'[KeyOf(c)] \in Entries /\ UNCHANGED <<req, seen>>
      BY <1>1, <1>3, <2>2 DEF Settles, Goto, Recorded, TypeOK
    <3>2. QED
      BY <2>2, <3>1 DEF AgreeInv, EntryOf, KeyOf
  <2>3. QED
    BY <2>1, <2>2
<1>4. ASSUME NEW c \in Calls, Opens(c) PROVE AgreeInv(d)'
  BY <1>1, <1>2, <1>4 DEF Opens, Goto, TypeOK
<1>5. ASSUME NEW c \in Calls, Confirm(c), EntryOf(c) # None PROVE AgreeInv(d)'
  <2>1. pc[c] = "confirm" /\ KeyOf(c) \in Keys /\ EntryOf(c) \in Entries /\ UNCHANGED <<req, ledger>>
    BY <1>1, <1>5, KeyOfCall DEF Confirm, TypeOK, EntryOf
  <2>2. CASE d # c
    BY <1>1, <1>2, <1>5, <2>2 DEF Confirm, Goto, TypeOK
  <2>3. CASE d = c
    BY <1>1, <1>5, <2>1, <2>3 DEF Confirm, Goto, TypeOK, AgreeInv, EntryOf, KeyOf
  <2>4. QED
    BY <2>2, <2>3
<1>6. ASSUME NEW c \in Calls, NEW q \in Requests, Deliver(c, q) PROVE AgreeInv(d)'
  <2>1. CASE d # c
    BY <1>1, <1>2, <1>6, <2>1 DEF Deliver, Resume, Goto, TypeOK
  <2>2. CASE d = c
    <3>1. q.key \in Keys /\ KeyOf(c)' = q.key /\ ledger' = ledger
      BY <1>1, <1>6 DEF Deliver, KeyOf, TypeOK, RequestSpace
    <3>2. /\ ledger[q.key] # None /\ ledger[q.key].status = "succeeded"
          /\ seen' = [seen EXCEPT ![c] = ledger[q.key].readBack]
      BY <1>1, <1>6, <2>2 DEF Deliver, Resume, Goto, TypeOK
    <3>3. QED
      BY <1>1, <2>2, <3>1, <3>2 DEF AgreeInv, EntryOf, TypeOK
  <2>3. QED
    BY <2>1, <2>2
<1>7. ASSUME NEW c \in Calls, Rest(c) PROVE AgreeInv(d)'
  <2>1. pc[d] = "succeeded" /\ seen'[d] = seen[d]
    BY <1>1, <1>7 DEF Rest, Goto, TypeOK, Preview, PreviewFails, Decline, ConfirmFails, BeforeRead, Update,
       WriteFails, SendCommit, RecoverRead, JudgeNotWritten, ServerCommit, ServerRollback
  <2>2. QED
    BY <1>2, <2>1
<1>8. CASE Crash \/ UNCHANGED vars \/ \E r \in Rows \cup {None} : PeerWrite(r)
  BY <1>1, <1>2, <1>8 DEF Crash, vars, PeerWrite, TypeOK
<1>9. ASSUME NEW c \in Calls, Other(c) PROVE AgreeInv(d)'
  BY <1>5, <1>6, <1>7, <1>9 DEF Other
<1>10. QED
  BY <1>3, <1>4, <1>8, <1>9, StepCases

LEMMA LInvariance == Spec => [](IInv /\ LInv)
<1>1. Init => LInv
  BY DEF Init, LInv, OpenInv, AgreeInv, Open
<1>2. IInv /\ LInv /\ [Next]_vars => LInv'
  <2>1. ASSUME IInv, LInv, [Next]_vars, NEW d \in Calls PROVE OpenInv(d)' /\ AgreeInv(d)'
    <3>1. CASE Open(d)'
      BY <2>1, <3>1, OpenKeeps, AgreeKeeps DEF AgreeInv
    <3>2. CASE ~Open(d)'
      BY <2>1, <3>2, AgreeKeeps DEF OpenInv, AgreeInv
    <3>3. QED
      BY <3>1, <3>2
  <2>2. QED
    BY <2>1 DEF LInv
<1>3. QED
  BY <1>1, <1>2, Invariance, Initially, Inductive, PTL DEF Spec

\* AnswersAgree for any environment: calls of a key that are told "succeeded" are
\* told the read-back the ledger keeps.
THEOREM SuccessesAgree == Spec => []AnswersAgree
<1>1. IInv /\ LInv => AnswersAgree
  BY SqlUpdateAssumption DEF LInv, AgreeInv, AnswersAgree
<1>2. QED
  BY <1>1, LInvariance, PTL

-----------------------------------------------------------------------------
\* Nobody's update is lost, when the row's other writers keep the version contract.

\* A call that has read the confirmed record finds it, or a later version.
BeforeInv(c) ==
  /\ pc[c] = "update" =>
       row = None \/ row.ver > EntryOf(c).before.ver \/ row = EntryOf(c).before
  /\ Open(c) => row = EntryOf(c).before

LEMMA UpdaterKnows ==
  ASSUME IInv, [Next]_vars, NEW d \in Calls, pc[d] \in {"write", "update"} \/ Open(d)
  PROVE  /\ KeyOf(d) \in Keys /\ EntryOf(d) \in Entries /\ EntryOf(d).before \in Rows
         /\ EntryOf(d).before.ver \in Int
         /\ EntryOf(d)' \in Entries /\ EntryOf(d)'.before = EntryOf(d).before
         /\ KeyOf(d)' = KeyOf(d)
<1>1. pc[d] # "idle" /\ EntryOf(d) \in Entries
  BY DEF Open, IInv, CallInv, RequestInv, EntryKnown, Writer
<1>2. KeyOf(d) \in Keys /\ KeyOf(d)' = KeyOf(d) /\ EntryOf(d) # None
  BY <1>1, KeyOfCall, RequestsStay, SqlUpdateAssumption
<1>3. EntryOf(d)' = ledger'[KeyOf(d)]
  BY <1>2 DEF EntryOf
<1>4. EntryOf(d).before \in Rows /\ EntryOf(d).before.ver \in Int
  BY <1>1, SqlUpdateAssumption DEF Entries, Rows
<1>5. QED
  BY <1>1, <1>2, <1>3, <1>4, EntriesStay DEF EntryOf

LEMMA BeforeKeeps ==
  ASSUME VersionedPeers, IInv, LInv, \A c \in Calls : BeforeInv(c), [Next]_vars, NEW d \in Calls
  PROVE  BeforeInv(d)'
<1> USE SqlUpdateAssumption
<1> SUFFICES ASSUME pc'[d] = "update" \/ Open(d)' PROVE BeforeInv(d)'
  BY DEF BeforeInv
<1>1. TypeOK /\ BeforeInv(d) /\ OpenInv(d)
  BY DEF IInv, LInv
<1>2. ASSUME row' = row, pc'[d] = "update" => pc[d] = "update", Open(d)' => Open(d) PROVE BeforeInv(d)'
  BY <1>1, <1>2, UpdaterKnows DEF BeforeInv
<1>3. ASSUME NEW c \in Calls, Settles(c) \/ Opens(c) PROVE BeforeInv(d)'
  BY <1>1, <1>2, <1>3 DEF Settles, Opens, Open, Goto, TypeOK
<1>4. ASSUME NEW r \in Rows \cup {None}, PeerWrite(r) PROVE BeforeInv(d)'
  <2>1. /\ ~Open(d) /\ ~Open(d)' /\ pc[d] = "update" /\ row \in Rows
        /\ row' = None \/ (row' \in Rows /\ row'.ver = row.ver + 1)
    BY <1>1, <1>4 DEF PeerWrite, OpenInv, Open, TypeOK
  <2>2. row.ver \in Int /\ row.ver >= EntryOf(d).before.ver
    BY <1>1, <2>1, UpdaterKnows DEF BeforeInv, Rows
  <2>3. row' = None \/ row'.ver > EntryOf(d).before.ver
    BY <2>1, <2>2, UpdaterKnows
  <2>4. QED
    BY <2>1, <2>3, UpdaterKnows DEF BeforeInv
<1>5. CASE Crash \/ UNCHANGED vars
  BY <1>1, <1>2, <1>5 DEF Crash, vars, Open, TypeOK, Running
<1>6. ASSUME NEW c \in Calls, BeforeRead(c) PROVE BeforeInv(d)'
  <2>1. CASE d # c
    BY <1>1, <1>2, <1>6, <2>1 DEF BeforeRead, Goto, Open, TypeOK
  <2>2. CASE d = c
    <3>1. pc[d] = "write" /\ row = EntryOf(d).before /\ row' = row /\ ~Open(d)'
      BY <1>1, <1>6, <2>2 DEF BeforeRead, Goto, TypeOK, Open, IInv, CallInv, StageInv, Running
    <3>2. QED
      BY <3>1, UpdaterKnows DEF BeforeInv
  <2>3. QED
    BY <2>1, <2>2
<1>7. ASSUME NEW c \in Calls, Update(c) PROVE BeforeInv(d)'
  <2>1. CASE d # c
    BY <1>1, <1>2, <1>7, <2>1 DEF Update, Goto, Open, TypeOK
  <2>2. CASE d = c
    <3>1. pc[d] = "update" /\ Expected(d) /\ row' = row /\ pc'[d] # "update"
      BY <1>1, <1>7, <2>2 DEF Update, Goto, TypeOK, Open, IInv, CallInv, StageInv, Running
    <3>2. row.ver = EntryOf(d).before.ver /\ row # None
      BY <1>1, <3>1, KeyOfCall DEF Expected, IInv, CallInv, EntryKnown, EntryInv, Writer, EntryOf
    <3>3. row = EntryOf(d).before
      BY <1>1, <3>1, <3>2, UpdaterKnows DEF BeforeInv
    <3>4. QED
      BY <3>1, <3>3, UpdaterKnows DEF BeforeInv
  <2>3. QED
    BY <2>1, <2>2
<1>8. ASSUME NEW c \in Calls, ServerCommit(c) PROVE BeforeInv(d)'
  <2>1. Open(c) /\ OpenInv(c) /\ row' = seen[c] /\ ~Open(c)' /\ UNCHANGED pc
    BY <1>1, <1>8 DEF ServerCommit, Open, LInv, TypeOK
  <2>2. d # c
    <3>1. pc[c] # "update"
      BY <2>1 DEF Open, IInv, CallInv, StageInv, Running
    <3>2. QED
      BY <2>1, <3>1
  <2>3. ~Open(d) /\ ~Open(d)'
    BY <1>1, <1>8, <2>1, <2>2 DEF ServerCommit, Open, OpenInv, TypeOK
  <2>4. row \in Rows /\ row.ver \in Int /\ row' # None /\ row'.ver = row.ver + 1
    <3>1. seen[c] \in Rows /\ seen[c].ver = EntryOf(c).before.ver + 1
      BY <2>1 DEF Open, IInv, CallInv, SeenInv, Matches
    <3>2. QED
      BY <2>1, <3>1 DEF OpenInv, Rows
  <2>5. row.ver >= EntryOf(d).before.ver /\ EntryOf(d).before.ver \in Int
    BY <1>1, <2>1, <2>3, <2>4, UpdaterKnows DEF BeforeInv
  <2>6. row'.ver > EntryOf(d).before.ver
    BY <2>4, <2>5
  <2>7. QED
    BY <2>1, <2>3, <2>6, UpdaterKnows DEF BeforeInv
<1>9. ASSUME NEW c \in Calls, Rest(c), ~BeforeRead(c), ~Update(c), ~ServerCommit(c) PROVE BeforeInv(d)'
  BY <1>1, <1>2, <1>9 DEF Rest, Goto, Open, TypeOK, Preview, PreviewFails, Decline, ConfirmFails,
     WriteFails, SendCommit, RecoverRead, JudgeNotWritten, ServerRollback
<1>10. ASSUME NEW c \in Calls, NEW q \in Requests, Deliver(c, q) PROVE BeforeInv(d)'
  BY <1>1, <1>2, <1>10 DEF Deliver, Resume, Goto, Open, TypeOK
<1>11. ASSUME NEW c \in Calls, Confirm(c), EntryOf(c) # None PROVE BeforeInv(d)'
  BY <1>1, <1>2, <1>11 DEF Confirm, Goto, Open, TypeOK
<1>12. QED
  BY <1>3, <1>4, <1>5, <1>6, <1>7, <1>8, <1>9, <1>10, <1>11, StepCases DEF Other

\* executeCreatedUpdate's before-read and version predicate: a commit replaces
\* exactly the record the user confirmed, whatever other deliveries, keys and
\* contract-keeping writers do, on either kind of reads.
THEOREM NothingIsLost == ASSUME VersionedPeers PROVE Spec => NoLostUpdate
<1> DEFINE BInv == \A c \in Calls : BeforeInv(c)
<1>1. Init => BInv
  BY DEF Init, BeforeInv, Open
<1>2. IInv /\ LInv /\ BInv /\ [Next]_vars => BInv'
  BY BeforeKeeps
<1>3. ASSUME IInv, LInv, BInv, [Next]_vars, NEW c \in Calls, srv[c] # "committed", srv'[c] = "committed"
      PROVE  row = EntryOf(c).before
  <2>1. TypeOK /\ BeforeInv(c)
    BY <1>3 DEF IInv
  <2>2. ASSUME NEW d \in Calls, Other(d) PROVE Open(c)
    BY <1>3, <2>1, <2>2 DEF Other, Rest, Open, TypeOK, Deliver, Confirm, Preview, PreviewFails, Decline, ConfirmFails,
       BeforeRead, Update, WriteFails, SendCommit, RecoverRead, JudgeNotWritten, ServerCommit, ServerRollback
  <2>3. Open(c)
    BY <1>3, <2>2, StepCases DEF Settles, Opens, PeerWrite, Crash, vars
  <2>4. QED
    BY <2>1, <2>3 DEF BeforeInv
<1>4. IInv /\ LInv /\ BInv /\ [Next]_vars =>
        \A c \in Calls : srv[c] # "committed" /\ srv'[c] = "committed" => row = EntryOf(c).before
  BY <1>3
<1> HIDE DEF BInv
<1>5. QED
  BY <1>1, <1>2, <1>4, LInvariance, PTL DEF Spec, NoLostUpdate


-----------------------------------------------------------------------------
\* The verdict of a recovery, when reads wait for the writer's lock and the
\* deliveries of a key follow one another.

OneRunning ==
  \A c, d \in Calls :
    pc[c] \in Running /\ pc[d] \in Running /\ KeyOf(c) = KeyOf(d) => c = d

\* Nothing of the key is in flight at the source while its recovery judges.
JudgeInv(c) ==
  pc[c] = "judge" =>
    \A w \in Calls : pc[w] # "idle" /\ KeyOf(w) = KeyOf(c) => ~Open(w)

\* A key that was denied has no call that writes or will.
FinalInv(k) ==
  k \in denied =>
    /\ ledger[k] # None
    /\ \A w \in Calls : pc[w] # "idle" /\ KeyOf(w) = k =>
         ~Open(w) /\ pc[w] \notin {"write", "update"}

VInv ==
  /\ OneRunning
  /\ \A c \in Calls : JudgeInv(c)
  /\ \A k \in Keys : FinalInv(k)

\* The one step that can bring a call to each of these places.
LEMMA Causes ==
  ASSUME IInv, [Next]_vars, NEW w \in Calls
  PROVE  /\ pc'[w] # "idle" /\ pc[w] = "idle" => \E q \in Requests : Deliver(w, q)
         /\ pc'[w] \in Running /\ pc[w] \notin Running => pc[w] = "idle"
         /\ pc'[w] = "write" /\ pc[w] # "write" => Opens(w)
         /\ pc'[w] = "update" /\ pc[w] # "update" => BeforeRead(w)
         /\ pc'[w] = "judge" /\ pc[w] # "judge" => RecoverRead(w)
         /\ Open(w)' /\ ~Open(w) => Update(w)
         /\ srv[w] # "committed" /\ srv'[w] = "committed" => ServerCommit(w)
<1>1. TypeOK
  BY DEF IInv
<1> DEFINE Caused ==
         /\ pc'[w] # "idle" /\ pc[w] = "idle" => \E q \in Requests : Deliver(w, q)
         /\ pc'[w] \in Running /\ pc[w] \notin Running => pc[w] = "idle"
         /\ pc'[w] = "write" /\ pc[w] # "write" => Opens(w)
         /\ pc'[w] = "update" /\ pc[w] # "update" => BeforeRead(w)
         /\ pc'[w] = "judge" /\ pc[w] # "judge" => RecoverRead(w)
         /\ Open(w)' /\ ~Open(w) => Update(w)
         /\ srv[w] # "committed" /\ srv'[w] = "committed" => ServerCommit(w)
<1>2. ASSUME NEW c \in Calls, Opens(c) \/ Settles(c) PROVE Caused
  BY <1>1, <1>2 DEF Opens, Settles, Goto, Open, TypeOK, Running
<1>3. ASSUME NEW c \in Calls, NEW q \in Requests, Deliver(c, q) PROVE Caused
  BY <1>1, <1>3 DEF Deliver, Resume, Goto, Open, TypeOK, Running
<1>4. ASSUME NEW c \in Calls, Confirm(c), EntryOf(c) # None PROVE Caused
  BY <1>1, <1>4 DEF Confirm, Goto, Open, TypeOK, Running
<1>5. ASSUME NEW c \in Calls, Rest(c) PROVE Caused
  BY <1>1, <1>5 DEF Rest, Goto, Open, TypeOK, Running, Preview, PreviewFails, Decline, ConfirmFails, BeforeRead,
     Update, WriteFails, SendCommit, RecoverRead, JudgeNotWritten, ServerCommit, ServerRollback
<1>6. CASE Crash \/ UNCHANGED vars \/ \E r \in Rows \cup {None} : PeerWrite(r)
  BY <1>1, <1>6 DEF Crash, vars, PeerWrite, Open, TypeOK, Running
<1>7. QED
  BY <1>2, <1>3, <1>4, <1>5, <1>6, StepCases DEF Other

LEMMA DeniedGrows ==
  ASSUME IInv, [Next]_vars, NEW k \in denied', k \notin denied
  PROVE  \E c \in Calls : JudgeNotWritten(c) /\ k = KeyOf(c)
<1>1. ASSUME NEW c \in Calls, Other(c) PROVE JudgeNotWritten(c) /\ k = KeyOf(c)
  BY <1>1 DEF Other, Rest, Deliver, Preview, PreviewFails, Decline, ConfirmFails, Confirm, BeforeRead, Update,
     WriteFails, SendCommit, RecoverRead, JudgeNotWritten, ServerCommit, ServerRollback
<1>2. QED
  BY <1>1, StepCases DEF Settles, Opens, PeerWrite, Crash, vars

LEMMA OneRunningKeeps ==
  ASSUME ~SameKeyOverlap, IInv, OneRunning, [Next]_vars
  PROVE  OneRunning'
<1> SUFFICES ASSUME NEW c \in Calls, NEW d \in Calls, pc'[c] \in Running, pc'[d] \in Running,
                    KeyOf(c)' = KeyOf(d)', c # d
             PROVE  FALSE
  BY DEF OneRunning
<1>1. ASSUME NEW a \in Calls, NEW b \in Calls, a # b, pc'[a] \in Running, pc'[b] \in Running,
             KeyOf(a)' = KeyOf(b)', pc[a] = "idle" PROVE FALSE
  <2>1. PICK q \in Requests : Deliver(a, q)
    BY <1>1, Causes DEF Running
  <2>2. pc[b] \in Running /\ KeyOf(b)' = KeyOf(b) /\ KeyOf(a)' = q.key
    BY <1>1, <2>1 DEF Deliver, Resume, Goto, KeyOf, IInv, TypeOK
  <2>3. QED
    BY <1>1, <2>1, <2>2 DEF Deliver
<1>2. pc[c] # "idle" /\ pc[d] # "idle"
  BY <1>1
<1>3. pc[c] \in Running /\ pc[d] \in Running
  BY <1>2, Causes
<1>4. QED
  BY <1>2, <1>3, RequestsStay DEF OneRunning

LEMMA JudgeKeeps ==
  ASSUME ~SnapshotReads, IInv, LInv, VInv, [Next]_vars, NEW c \in Calls
  PROVE  JudgeInv(c)'
<1> SUFFICES ASSUME pc'[c] = "judge", NEW w \in Calls, pc'[w] # "idle", KeyOf(w)' = KeyOf(c)', Open(w)'
             PROVE  FALSE
  BY DEF JudgeInv
<1>1. TypeOK /\ OpenInv(w)
  BY DEF IInv, LInv
<1>2. CASE pc[c] = "judge"
  <2>1. Open(w)
    <3>1. ASSUME Update(w) PROVE FALSE
      <4>1. pc[w] = "update" /\ KeyOf(w) = KeyOf(c)
        BY <1>2, <3>1, RequestsStay DEF Update
      <4>2. QED
        BY <1>2, <4>1 DEF VInv, OneRunning, Running
    <3>2. QED
      BY <3>1, Causes
  <2>2. pc[w] # "idle" /\ KeyOf(w) = KeyOf(c)
    BY <1>2, <2>1, OpenKnows, RequestsStay
  <2>3. QED
    BY <1>2, <2>1, <2>2 DEF VInv, JudgeInv
<1>3. CASE pc[c] # "judge"
  <2>1. RecoverRead(c)
    BY <1>3, Causes
  <2>2. Open(w) /\ lock \in {None, c} /\ pc[c] = "recover"
    BY <2>1 DEF RecoverRead, Readable, Open
  <2>3. lock = w /\ srv[c] = "none"
    BY <1>1, <2>2 DEF OpenInv, IInv, CallInv, StageInv, Running
  <2>4. QED
    BY <1>1, <2>2, <2>3, SqlUpdateAssumption DEF Open
<1>4. QED
  BY <1>2, <1>3

LEMMA FinalKeeps ==
  ASSUME IInv, LInv, VInv, [Next]_vars, NEW k \in Keys, k \in denied'
  PROVE  FinalInv(k)'
<1>1. TypeOK
  BY DEF IInv
<1>2. CASE k \in denied
  <2>1. ledger[k] # None /\ ledger'[k] # None
    BY <1>2, EntriesStay, SqlUpdateAssumption DEF VInv, FinalInv
  <2>2. ASSUME NEW w \in Calls, pc'[w] # "idle", KeyOf(w)' = k
        PROVE  ~Open(w)' /\ pc'[w] \notin {"write", "update"}
    <3>1. CASE pc[w] = "idle"
      <4>1. PICK q \in Requests : Deliver(w, q)
        BY <2>2, <3>1, Causes
      <4>2. QED
        BY <1>1, <3>1, <4>1 DEF Deliver, Resume, Goto, TypeOK, Open, IInv, CallInv, RequestInv
    <3>2. CASE pc[w] # "idle"
      <4>1. KeyOf(w) = k /\ ~Open(w) /\ pc[w] \notin {"write", "update"}
        BY <1>2, <2>2, <3>2, RequestsStay DEF VInv, FinalInv
      <4>2. ~Opens(w) /\ ~BeforeRead(w) /\ ~Update(w)
        BY <2>1, <4>1 DEF Opens, BeforeRead, Update, EntryOf
      <4>3. QED
        BY <4>1, <4>2, Causes
    <3>3. QED
      BY <3>1, <3>2
  <2>3. QED
    BY <2>1, <2>2 DEF FinalInv
<1>3. CASE k \notin denied
  <2>1. PICK c \in Calls : JudgeNotWritten(c) /\ k = KeyOf(c)
    BY <1>3, DeniedGrows
  <2>2. pc[c] = "judge" /\ ledger[k] \in Entries /\ UNCHANGED <<srv, req, ledger>>
        /\ pc' = [pc EXCEPT ![c] = "source_conflict"]
    BY <2>1 DEF JudgeNotWritten, Goto, IInv, CallInv, EntryKnown, EntryOf
  <2>3. ASSUME NEW w \in Calls, pc'[w] # "idle", KeyOf(w)' = k
        PROVE  ~Open(w)' /\ pc'[w] \notin {"write", "update"}
    <3>1. pc[w] # "idle" /\ KeyOf(w) = KeyOf(c)
      BY <1>1, <2>1, <2>2, <2>3 DEF TypeOK, KeyOf
    <3>2. ~Open(w)'
      BY <2>2, <3>1 DEF VInv, JudgeInv, Open
    <3>3. pc'[w] \notin {"write", "update"}
      BY <1>1, <2>2, <3>1 DEF VInv, OneRunning, Running, TypeOK
    <3>4. QED
      BY <3>2, <3>3
  <2>4. QED
    BY <2>2, <2>3, SqlUpdateAssumption DEF FinalInv
<1>4. QED
  BY <1>2, <1>3

LEMMA VInvariance ==
  ASSUME ~SnapshotReads, ~SameKeyOverlap
  PROVE  Spec => [](IInv /\ LInv /\ VInv)
<1>1. Init => VInv
  BY DEF Init, VInv, OneRunning, JudgeInv, FinalInv, Running
<1>2. IInv /\ LInv /\ VInv /\ [Next]_vars => VInv'
  <2> SUFFICES ASSUME IInv, LInv, VInv, [Next]_vars PROVE VInv'
    OBVIOUS
  <2>1. OneRunning'
    BY OneRunningKeeps DEF VInv
  <2>2. \A c \in Calls : JudgeInv(c)'
    BY JudgeKeeps
  <2>3. \A k \in Keys : FinalInv(k)'
    BY FinalKeeps DEF FinalInv
  <2>4. QED
    BY <2>1, <2>2, <2>3 DEF VInv
<1>3. QED
  BY <1>1, <1>2, LInvariance, PTL DEF Spec

\* recoverEntry's reading of a row: once a recovery has answered "not written",
\* the write of that key, on whatever connection it was left, never lands.
THEOREM VerdictsAreFinal ==
  ASSUME ~SnapshotReads, ~SameKeyOverlap
  PROVE  Spec => VerdictIsFinal
<1>1. ASSUME IInv, LInv, VInv, [Next]_vars, NEW c \in Calls, srv[c] # "committed", srv'[c] = "committed"
      PROVE  KeyOf(c) \notin denied
  <2>1. Open(c)
    BY <1>1, Causes DEF ServerCommit, Open
  <2>2. pc[c] # "idle" /\ KeyOf(c) \in Keys
    BY <1>1, <2>1, OpenKnows
  <2>3. QED
    BY <1>1, <2>1, <2>2 DEF VInv, FinalInv
<1>2. IInv /\ LInv /\ VInv /\ [Next]_vars =>
        \A c \in Calls : srv[c] # "committed" /\ srv'[c] = "committed" => KeyOf(c) \notin denied
  BY <1>1
<1>3. QED
  BY <1>2, VInvariance, PTL DEF Spec, VerdictIsFinal

-----------------------------------------------------------------------------
\* The ledger, the transactions and their crashes implement the promise.

\* The mapping of Abstract.
Intent == [k \in Keys |->
             IF ledger[k] = None THEN None
             ELSE [ver |-> ledger[k].before.ver + 1, val |-> ledger[k].print.val]]
Applied == {k \in Keys : \E c \in Calls : srv[c] = "committed" /\ KeyOf(c) = k}
Granted == {k \in Keys : ledger[k] # None /\ ledger[k].status = "succeeded"}

\* What the mapping says of a key.
IntentKnown ==
  \A k \in Keys :
    /\ ledger[k] = None => Intent[k] = None
    /\ ledger[k] # None =>
         /\ Intent[k] \in Effects /\ Intent[k] # None
         /\ Intent[k].ver = ledger[k].before.ver + 1 /\ Intent[k].val = ledger[k].print.val

LEMMA IntentIsKnown == IInv => IntentKnown
<1> SUFFICES ASSUME IInv, NEW k \in Keys, ledger[k] # None
             PROVE  [ver |-> ledger[k].before.ver + 1, val |-> ledger[k].print.val] \in Effects
  BY SqlUpdateAssumption DEF IntentKnown, Intent
<1>1. ledger[k] \in Entries /\ ledger[k].print \in RequestSpace
      /\ ledger[k].before.ver = ledger[k].print.expect
  BY SqlUpdateAssumption DEF IInv, TypeOK, EntryInv, Entries
<1>2. ledger[k].print.expect + 1 \in 1..MaxVersion /\ ledger[k].print.val \in Vals
  BY <1>1, SqlUpdateAssumption DEF RequestSpace
<1>3. QED
  BY <1>1, <1>2 DEF Effects

\* The two readings of "the row carries the change of key k" agree.
LEMMA WitnessMaps ==
  ASSUME IInv', Witness(row', ledger')
  PROVE  carried' = carried \cup {k \in Keys : Abstract!Carries(row', Intent'[k])}
<1>1. ASSUME NEW k \in Keys
      PROVE  Abstract!Carries(row', Intent'[k]) <=> ledger'[k] # None /\ Matches(row', ledger'[k])
  <2>1. IntentKnown'
    BY IntentIsKnown, PTL
  <2>2. QED
    BY <2>1 DEF IntentKnown, Abstract!Carries, Matches
<1>2. QED
  BY <1>1 DEF Witness

\* What each kind of step is in the abstract specification.

AbstractStep == [Abstract!Next]_(Abstract!vars)

LEMMA NothingShows ==
  ASSUME UNCHANGED <<row, carried, denied>>,
         Intent' = Intent, Applied' = Applied, Granted' = Granted
  PROVE  AbstractStep
  BY DEF AbstractStep, Abstract!vars, Intent, Applied, Granted

LEMMA OpensIsFix ==
  ASSUME IInv, IInv', NEW c \in Calls, Opens(c), NEW k \in Keys, k = KeyOf(c)
  PROVE  AbstractStep
<1>1. TypeOK /\ ledger[k] = None
  BY KeyOfCall DEF Opens, IInv, EntryOf
<1>2. ledger' = [ledger EXCEPT ![k] = [status |-> "pending", print |-> req[c], before |-> seen[c], readBack |-> None]]
      /\ UNCHANGED <<row, srv, req, denied>> /\ Witness(row', ledger')
  BY DEF Opens, Witness
<1>3. IntentKnown /\ IntentKnown'
  BY IntentIsKnown, PTL
<1>4. ledger'[k] # None /\ Intent'[k] \in Effects /\ Intent[k] = None
  <2>1. ledger'[k] \in Entries
    BY <1>1, <1>2, KeyOfCall, SqlUpdateAssumption DEF Opens, IInv, CallInv, SeenInv, TypeOK, Entries
  <2>2. QED
    BY <1>1, <1>3, <2>1, SqlUpdateAssumption DEF IntentKnown
<1>5. Intent' = [Intent EXCEPT ![k] = Intent'[k]]
  BY <1>1, <1>2 DEF Intent, TypeOK
<1>6. Applied' = Applied /\ Granted' = Granted
  BY <1>1, <1>2 DEF Applied, Granted, KeyOf, TypeOK
<1>7. carried' = carried \cup {j \in Keys : Abstract!Carries(row', Intent'[j])}
  BY <1>2, WitnessMaps
<1>8. Abstract!Fix(k)
  BY <1>1, <1>2, <1>4, <1>5, <1>6, <1>7 DEF Abstract!Fix, Abstract!Witness, Intent, Applied, Granted
<1>9. QED
  BY <1>8 DEF AbstractStep, Abstract!Next

LEMMA SettlesIsGrant ==
  ASSUME IInv, NEW c \in Calls, Settles(c), NEW k \in Keys, k = KeyOf(c)
  PROVE  AbstractStep
<1>1. /\ ledger[k] \in Entries /\ ledger'[k] \in Entries /\ TypeOK
      /\ \A j \in Keys \ {k} : ledger'[j] = ledger[j]
      /\ ledger'[k].print = ledger[k].print /\ ledger'[k].before = ledger[k].before
      /\ ledger[k].status = "succeeded" => ledger'[k].status = "succeeded"
      /\ ledger'[k].status = "succeeded" /\ ledger[k].status # "succeeded" => k \in carried
      /\ UNCHANGED <<row, srv, req, carried, denied>>
  BY DEF Settles, Recorded, IInv, CallInv, EntryKnown, Writer, EntryOf
<1>2. Intent' = Intent /\ Applied' = Applied
  BY <1>1, SqlUpdateAssumption DEF Intent, Applied, KeyOf
<1>3. CASE ledger'[k].status = "succeeded" /\ ledger[k].status # "succeeded"
  <2>1. Granted' = Granted \cup {k}
    BY <1>1, <1>3, SqlUpdateAssumption DEF Granted
  <2>2. Abstract!Grant(k)
    BY <1>1, <1>2, <1>3, <2>1 DEF Abstract!Grant, Intent, Applied, Granted
  <2>3. QED
    BY <2>2 DEF AbstractStep, Abstract!Next
<1>4. CASE ~(ledger'[k].status = "succeeded" /\ ledger[k].status # "succeeded")
  <2>1. Granted' = Granted
    BY <1>1, <1>4, SqlUpdateAssumption DEF Granted
  <2>2. QED
    BY <1>1, <1>2, <2>1, NothingShows
<1>5. QED
  BY <1>3, <1>4

LEMMA JudgeNotWrittenIsDeny ==
  ASSUME IInv, NEW c \in Calls, JudgeNotWritten(c), NEW k \in Keys, k = KeyOf(c)
  PROVE  AbstractStep
<1>1. ledger[k] # None /\ UNCHANGED <<row, srv, req, ledger, carried>> /\ denied' = denied \cup {k}
  BY SqlUpdateAssumption DEF JudgeNotWritten, IInv, CallInv, EntryKnown, EntryOf
<1>2. Intent[k] # None /\ Intent' = Intent /\ Applied' = Applied /\ Granted' = Granted
  BY <1>1, IntentIsKnown DEF IntentKnown, Intent, Applied, Granted, KeyOf
<1>3. Abstract!Deny(k)
  BY <1>1, <1>2 DEF Abstract!Deny, Intent, Applied, Granted
<1>4. QED
  BY <1>3 DEF AbstractStep, Abstract!Next

LEMMA ServerCommitIsApply ==
  ASSUME IInv, IInv', LInv, VInv, NEW c \in Calls, ServerCommit(c), NEW k \in Keys, k = KeyOf(c)
  PROVE  AbstractStep
<1>1. /\ Open(c) /\ TypeOK /\ srv' = [srv EXCEPT ![c] = "committed"] /\ row' = seen[c]
      /\ Witness(row', ledger') /\ UNCHANGED <<req, ledger, denied>>
  BY DEF ServerCommit, Open, IInv, Witness
<1>2. ledger[k] \in Entries /\ pc[c] # "idle"
  BY <1>1 DEF IInv, CallInv, EntryKnown, RequestInv, Writer, Open, EntryOf
<1>3. /\ row \in Rows /\ row # None /\ row.ver = ledger[k].before.ver
      /\ row' = Written(row, ledger[k])
  BY <1>1, SqlUpdateAssumption DEF LInv, OpenInv, EntryOf
<1>4. /\ Intent[k] # None /\ row.ver + 1 = Intent[k].ver
      /\ Intent[k].ver = ledger[k].before.ver + 1 /\ Intent[k].val = ledger[k].print.val
  BY <1>2, <1>3, IntentIsKnown, SqlUpdateAssumption DEF IntentKnown
<1>5. row' = [ver |-> Intent[k].ver, val |-> Intent[k].val, memo |-> row.memo]
  BY <1>3, <1>4 DEF Written
<1>6. k \notin Applied
  <2> SUFFICES ASSUME NEW d \in Calls, srv[d] = "committed", KeyOf(d) = k PROVE FALSE
    BY DEF Applied
  <2>1. d = c
    BY <1>1 DEF IInv, OneWriter, Writer, Open
  <2>2. QED
    BY <1>1, <2>1 DEF Open
<1>7. k \notin denied
  BY <1>1, <1>2 DEF VInv, FinalInv
<1>8. Applied' = Applied \cup {k} /\ Intent' = Intent /\ Granted' = Granted
  BY <1>1 DEF Applied, Intent, Granted, KeyOf, TypeOK
<1>9. carried' = carried \cup {j \in Keys : Abstract!Carries(row', Intent'[j])}
  BY <1>1, WitnessMaps
<1>10. Abstract!Apply(k)
  BY <1>1, <1>3, <1>4, <1>5, <1>6, <1>7, <1>8, <1>9 DEF Abstract!Apply, Abstract!Witness, Intent, Applied, Granted
<1>11. QED
  BY <1>10 DEF AbstractStep, Abstract!Next

LEMMA PeerWriteIsPeer ==
  ASSUME IInv', NEW r \in Rows \cup {None}, PeerWrite(r)
  PROVE  AbstractStep
<1>1. row' = r /\ Witness(row', ledger') /\ UNCHANGED <<srv, req, ledger, denied>>
  BY DEF PeerWrite, Witness
<1>2. Intent' = Intent /\ Applied' = Applied /\ Granted' = Granted
  BY <1>1 DEF Applied, Intent, Granted, KeyOf
<1>3. carried' = carried \cup {j \in Keys : Abstract!Carries(row', Intent'[j])}
  BY <1>1, WitnessMaps
<1>4. Abstract!Peer
  BY <1>1, <1>2, <1>3 DEF Abstract!Peer, Abstract!Witness, Intent, Applied, Granted
<1>5. QED
  BY <1>4 DEF AbstractStep, Abstract!Next

LEMMA OthersStutter ==
  ASSUME IInv, NEW c \in Calls, Other(c), ~JudgeNotWritten(c), ~ServerCommit(c)
  PROVE  AbstractStep
<1>1. TypeOK
  BY DEF IInv
<1>2. UNCHANGED <<row, ledger, carried, denied>>
  BY DEF Other, Rest, Deliver, Preview, PreviewFails, Decline, ConfirmFails, Confirm, BeforeRead, Update,
     WriteFails, SendCommit, RecoverRead, ServerRollback
<1>3. Intent' = Intent /\ Granted' = Granted
  BY <1>2 DEF Intent, Granted
<1>4. ASSUME NEW d \in Calls
      PROVE  /\ srv'[d] = "committed" <=> srv[d] = "committed"
             /\ srv[d] = "committed" => KeyOf(d)' = KeyOf(d)
  <2>1. srv[c] = "committed" => pc[c] # "idle" /\ pc[c] # "update"
    BY DEF IInv, CallInv, RequestInv, StageInv, Running
  <2>2. QED
    BY <1>1, <2>1 DEF KeyOf, Other, Rest, Deliver, Preview, PreviewFails, Decline, ConfirmFails, Confirm, BeforeRead,
       Update, WriteFails, SendCommit, RecoverRead, ServerRollback, TypeOK
<1>5. Applied' = Applied
  BY <1>4 DEF Applied
<1>6. QED
  BY <1>2, <1>3, <1>5, NothingShows

\* Every step of the ledger, the calls, the database and a crash is a step of
\* the promise or changes nothing of it.
LEMMA StepImplements ==
  ASSUME IInv, IInv', LInv, VInv, [Next]_vars
  PROVE  AbstractStep
<1>1. ASSUME NEW c \in Calls, Opens(c) PROVE AbstractStep
  BY <1>1, OpensIsFix, KeyOfCall DEF Opens
<1>2. ASSUME NEW c \in Calls, Settles(c) PROVE AbstractStep
  BY <1>2, SettlesIsGrant, KeyOfCall DEF Settles
<1>3. ASSUME NEW c \in Calls, JudgeNotWritten(c) PROVE AbstractStep
  BY <1>3, JudgeNotWrittenIsDeny, KeyOfCall DEF JudgeNotWritten
<1>4. ASSUME NEW c \in Calls, ServerCommit(c) PROVE AbstractStep
  <2>1. pc[c] # "idle"
    BY <1>4 DEF ServerCommit, IInv, CallInv, RequestInv
  <2>2. QED
    BY <1>4, <2>1, ServerCommitIsApply, KeyOfCall
<1>5. CASE Crash \/ UNCHANGED vars
  <2>1. UNCHANGED <<row, srv, req, ledger, carried, denied>>
    BY <1>5 DEF Crash, vars
  <2>2. QED
    BY <2>1, NothingShows DEF Intent, Applied, Granted, KeyOf
<1>6. QED
  BY <1>1, <1>2, <1>3, <1>4, <1>5, PeerWriteIsPeer, OthersStutter, StepCases

\* However deliveries, recoveries, crashes and lost answers interleave, an
\* observer of the row and of the answers sees a keyed update that is fixed
\* once, lands at most once, is called written only of a row that carried it
\* and never lands after it was called not written.
THEOREM ImplementsPromise ==
  ASSUME ~SnapshotReads, ~SameKeyOverlap
  PROVE  Spec => ImplementsIdempotentUpdate
<1>1. Init => Abstract!Init
  BY DEF Init, Abstract!Init
<1>2. IInv /\ IInv' /\ LInv /\ VInv /\ [Next]_vars => [Abstract!Next]_(Abstract!vars)
  BY StepImplements DEF AbstractStep
<1>3. QED
  BY <1>1, <1>2, VInvariance, PTL DEF Spec, ImplementsIdempotentUpdate, Abstract!Spec

=============================================================================
