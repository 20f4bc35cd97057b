----------------------------- MODULE SqlUpdate -----------------------------
(***************************************************************************)
(* The confirmed low-risk write of the desktop's SQL Server connector: one *)
(* delivery of a local-tool request runs ConnectorRuntime.execute, which   *)
(* consults the execution ledger (SQLite, survives a crash), previews the  *)
(* row, asks the user, and writes under an idempotency key in a source     *)
(* transaction that is not atomic with the ledger.                         *)
(*                                                                         *)
(* The row, its lock and the server's half of a transaction are the        *)
(* enterprise database, modelled from how sql-adapter.ts uses it.          *)
(***************************************************************************)
EXTENDS Integers

CONSTANTS
  Calls,           \* deliveries of a write request, each runs execute() once
  Keys,            \* idempotency keys
  Vals, Memos,     \* values of the written and of the other projected fields
  MaxVersion,      \* bound on the row's version field
  Requests,        \* the requests that may be delivered
  None,            \* no row, no request, no entry, no lock holder
  VersionedPeers,  \* other writers of the row bump its version (contract)
  SnapshotReads,   \* the database has READ_COMMITTED_SNAPSHOT on
  SameKeyOverlap   \* two deliveries of one key may be in flight together

Rows == [ver : 0..MaxVersion, val : Vals, memo : Memos]

RequestSpace == [key : Keys, expect : 0..(MaxVersion - 1), val : Vals]

Entries == [status : {"pending", "unknown", "succeeded"},
            print : Requests, before : Rows, readBack : Rows \cup {None}]

\* What an entry makes true of the row.
Effects == [ver : 1..MaxVersion, val : Vals]

ASSUME SqlUpdateAssumption ==
  /\ MaxVersion \in Nat \ {0}
  /\ Requests \subseteq RequestSpace
  /\ None \notin Rows \cup Requests \cup Entries \cup Calls \cup Effects
  /\ VersionedPeers \in BOOLEAN
  /\ SnapshotReads \in BOOLEAN
  /\ SameKeyOverlap \in BOOLEAN

VARIABLES
  row,      \* the committed row, None when it was deleted
  lock,     \* the call whose transaction holds the row exclusively, or None
  srv,      \* the server's side of each call's transaction
  pc,       \* where each call stands; an answered call rests at its status
  req,      \* the request each call runs
  seen,     \* the row a call read last; for a success, the row it returned
  ledger,   \* the persisted entry of each key, or None
  carried,  \* history: keys whose change the committed row has carried
  denied    \* history: keys whose recovery answered "not written"

vars == <<row, lock, srv, pc, req, seen, ledger, carried, denied>>

Running  == {"preview", "confirm", "write", "update", "commit",
             "committing", "recover", "judge"}
Statuses == {"succeeded", "source_conflict", "unknown", "failed", "cancelled"}

TypeOK ==
  /\ row \in Rows \cup {None}
  /\ lock \in Calls \cup {None}
  /\ srv \in [Calls -> {"none", "updated", "committing", "committed", "aborted"}]
  /\ pc \in [Calls -> {"idle", "dead"} \cup Running \cup Statuses]
  /\ req \in [Calls -> Requests \cup {None}]
  /\ seen \in [Calls -> Rows \cup {None}]
  /\ ledger \in [Keys -> Entries \cup {None}]
  /\ carried \subseteq Keys
  /\ denied \subseteq Keys
  \* The table's CHECK: a read-back exactly on a succeeded entry.
  /\ \A k \in Keys : ledger[k] # None =>
       (ledger[k].status = "succeeded" <=> ledger[k].readBack # None)

Init ==
  /\ row \in {r \in Rows : r.ver = 0}
  /\ lock = None
  /\ srv = [c \in Calls |-> "none"]
  /\ pc = [c \in Calls |-> "idle"]
  /\ req = [c \in Calls |-> None]
  /\ seen = [c \in Calls |-> None]
  /\ ledger = [k \in Keys |-> None]
  /\ carried = {}
  /\ denied = {}

-----------------------------------------------------------------------------
\* What the code compares and computes.

KeyOf(c) == req[c].key

EntryOf(c) == ledger[KeyOf(c)]

\* Mutant of Matches: only the version is compared.
MatchesVersionOnly(r, e) == r # None /\ r.ver = e.before.ver + 1

\* matchesProposed: the version moved by exactly one and every written field
\* has its proposed value; the other projected fields are not looked at.
Matches(r, e) ==
  /\ r # None
  /\ r.ver = e.before.ver + 1
  /\ r.val = e.print.val

\* The row the UPDATE template leaves behind.
Written(r, e) ==
  [ver |-> e.before.ver + 1, val |-> e.print.val, memo |-> r.memo]

\* Mutant of Readable: the isolation level lets reads pass the writer's lock.
ReadableAlways(c) == c \in Calls

\* A READ COMMITTED read waits for another transaction's exclusive lock,
\* unless the database serves it the last committed version.
Readable(c) == SnapshotReads \/ lock \in {None, c}

\* validateVersionTransition, and the version predicate of the UPDATE: the row
\* is there and has the version the request expects.
Expected(c) == row # None /\ row.ver = req[c].expect

\* Keep the history of which proposed changes the row has carried.
Witness(r, book) ==
  carried' = carried \cup {k \in Keys : book[k] # None /\ Matches(r, book[k])}

Goto(c, where) == pc' = [pc EXCEPT ![c] = where]

\* Mutant of MarkedUnknown: a succeeded entry is downgraded too.
MarkedUnknownAlways(k) == [ledger EXCEPT ![k].status = "unknown"]

\* ledger.markUnknown: never downgrades a succeeded entry.
MarkedUnknown(k) ==
  IF ledger[k].status = "pending"
    THEN [ledger EXCEPT ![k].status = "unknown"]
    ELSE ledger

\* Ending in "unknown": the entry is marked unless the local store fails too.
EndUnknown(c) ==
  /\ Goto(c, "unknown")
  /\ ledger' \in {ledger, MarkedUnknown(KeyOf(c))}

\* Mutant of MarkSucceeded: a second read-back replaces the first.
MarkSucceededAgain(c) ==
  ledger' = [ledger EXCEPT ![KeyOf(c)].status = "succeeded",
                           ![KeyOf(c)].readBack = seen[c]]

\* ledger.markSucceeded with read-back seen[c]. An entry that has already
\* succeeded keeps its read-back, and a different one is refused.
MarkSucceeded(c) ==
  /\ \/ EntryOf(c).status # "succeeded"
     \/ EntryOf(c).readBack = seen[c]
  /\ ledger' = [ledger EXCEPT ![KeyOf(c)].status = "succeeded",
                              ![KeyOf(c)].readBack = seen[c]]

\* The tail shared by a committed write and a proved recovery: record the
\* success; when that throws (refused, or the store failed), end in "unknown".
Conclude(c) ==
  \/ MarkSucceeded(c) /\ Goto(c, "succeeded")
  \/ EndUnknown(c)

-----------------------------------------------------------------------------
\* The call, from delivery to the user's decision.

\* Mutant of Resume: an entry without a terminal status is executed again.
ResumeRewrites(c, e) ==
  \/ e = None /\ Goto(c, "preview") /\ UNCHANGED seen
  \/ e # None /\ e.print # req'[c] /\ Goto(c, "source_conflict") /\ UNCHANGED seen
  \/ /\ e # None /\ e.print = req'[c] /\ e.status = "succeeded"
     /\ Goto(c, "succeeded")
     /\ seen' = [seen EXCEPT ![c] = e.readBack]
  \/ /\ e # None /\ e.print = req'[c] /\ e.status # "succeeded"
     /\ Goto(c, "write") /\ UNCHANGED seen

\* resumeUpdate's look at the ledger, which decides between a fresh write, a
\* replay, a recovery and a conflict.
Resume(c, e) ==
  \/ e = None /\ Goto(c, "preview") /\ UNCHANGED seen
  \/ e # None /\ e.print # req'[c] /\ Goto(c, "source_conflict") /\ UNCHANGED seen
  \/ /\ e # None /\ e.print = req'[c] /\ e.status = "succeeded"
     /\ Goto(c, "succeeded")
     /\ seen' = [seen EXCEPT ![c] = e.readBack]
  \/ /\ e # None /\ e.print = req'[c] /\ e.status # "succeeded"
     /\ Goto(c, "recover") /\ UNCHANGED seen

Deliver(c, q) ==
  /\ pc[c] = "idle"
  /\ \/ SameKeyOverlap
     \/ \A d \in Calls : pc[d] \in Running => KeyOf(d) # q.key
  /\ req' = [req EXCEPT ![c] = q]
  /\ Resume(c, ledger[q.key])
  /\ UNCHANGED <<row, lock, srv, ledger, carried, denied>>

\* previewUpdate: read the row and check the version the request expects.
Preview(c) ==
  /\ pc[c] = "preview"
  /\ Readable(c)
  /\ \/ row = None /\ Goto(c, "failed")
     \/ row # None /\ ~Expected(c) /\ Goto(c, "source_conflict")
     \/ Expected(c) /\ Goto(c, "confirm")
  /\ seen' = [seen EXCEPT ![c] = row]
  /\ UNCHANGED <<row, lock, srv, req, ledger, carried, denied>>

PreviewFails(c) ==
  /\ pc[c] = "preview"
  /\ Goto(c, "failed")
  /\ UNCHANGED <<row, lock, srv, req, seen, ledger, carried, denied>>

\* The user refuses, or the dialog's timer answers for them.
Decline(c) ==
  /\ pc[c] = "confirm"
  /\ Goto(c, "cancelled")
  /\ UNCHANGED <<row, lock, srv, req, seen, ledger, carried, denied>>

\* executeConfirmedUpdate up to ledger.begin, which runs without yielding.
Confirm(c) ==
  LET e == EntryOf(c)
      same == e # None /\ e.print = req[c] /\ e.before = seen[c]
  IN
  /\ pc[c] = "confirm"
  /\ \/ /\ e = None
        /\ ledger' = [ledger EXCEPT ![KeyOf(c)] =
             [status |-> "pending", print |-> req[c],
              before |-> seen[c], readBack |-> None]]
        /\ Witness(row, ledger')
        /\ Goto(c, "write") /\ UNCHANGED seen
     \/ /\ e # None /\ ~same
        /\ Goto(c, "source_conflict") /\ UNCHANGED <<ledger, seen, carried>>
     \/ /\ same /\ e.status = "succeeded"
        /\ Goto(c, "succeeded") /\ UNCHANGED <<ledger, carried>>
        /\ seen' = [seen EXCEPT ![c] = e.readBack]
     \/ /\ same /\ e.status # "succeeded"
        /\ Goto(c, "recover") /\ UNCHANGED <<ledger, seen, carried>>
  /\ UNCHANGED <<row, lock, srv, req, denied>>

ConfirmFails(c) ==
  /\ pc[c] = "confirm"
  /\ Goto(c, "failed")
  /\ UNCHANGED <<row, lock, srv, req, seen, ledger, carried, denied>>
-----------------------------------------------------------------------------
\* executeCreatedUpdate: the source transaction.

\* begin, and the read that must find exactly the confirmed "before" record.
BeforeRead(c) ==
  /\ pc[c] = "write"
  /\ Readable(c)
  /\ \/ row = EntryOf(c).before /\ Goto(c, "update")
     \/ row # EntryOf(c).before /\ Goto(c, "source_conflict")
  /\ UNCHANGED <<row, lock, srv, req, seen, ledger, carried, denied>>

\* Mutant of Update: the version predicate is missing.
UpdateUnguarded(c) ==
  /\ pc[c] = "update"
  /\ lock = None
  /\ row # None
  /\ lock' = c
  /\ srv' = [srv EXCEPT ![c] = "updated"]
  /\ seen' = [seen EXCEPT ![c] = Written(row, EntryOf(c))]
  /\ Goto(c, "commit")
  /\ UNCHANGED <<row, req, ledger, carried, denied>>

\* The UPDATE with its version predicate, and the read-back inside the same
\* transaction. It waits for the row's lock.
Update(c) ==
  /\ pc[c] = "update"
  /\ lock = None
  /\ \/ /\ Expected(c)
        /\ lock' = c
        /\ srv' = [srv EXCEPT ![c] = "updated"]
        /\ seen' = [seen EXCEPT ![c] = Written(row, EntryOf(c))]
        /\ Goto(c, "commit")
     \/ /\ ~Expected(c)
        /\ Goto(c, "source_conflict")
        /\ UNCHANGED <<lock, srv, seen>>
  /\ UNCHANGED <<row, req, ledger, carried, denied>>

\* Any error before the commit was attempted (connection, timeout, abort, a
\* read-back that a trigger changed). The answer does not wait for the server
\* to have rolled back, and the entry stays "pending".
WriteFails(c) ==
  /\ pc[c] \in {"write", "update", "commit"}
  /\ Goto(c, "failed")
  /\ UNCHANGED <<row, lock, srv, req, seen, ledger, carried, denied>>

SendCommit(c) ==
  /\ pc[c] = "commit"
  /\ Goto(c, "committing")
  /\ srv' = [srv EXCEPT ![c] = IF @ = "updated" THEN "committing" ELSE @]
  /\ UNCHANGED <<row, lock, req, seen, ledger, carried, denied>>

\* Mutant of Acknowledged: the end of the wait is taken for the commit.
AcknowledgedUnseen(c) ==
  /\ pc[c] = "committing"
  /\ Conclude(c)
  /\ UNCHANGED <<row, lock, srv, req, seen, carried, denied>>

\* The commit is acknowledged before the deadline.
Acknowledged(c) ==
  /\ pc[c] = "committing"
  /\ srv[c] = "committed"
  /\ Conclude(c)
  /\ UNCHANGED <<row, lock, srv, req, seen, carried, denied>>

\* Mutant of OutcomeLost: commitAttempted is set after the commit, so an
\* error of the commit is handled like one before it.
OutcomeLostAsFailure(c) ==
  /\ pc[c] = "committing"
  /\ Goto(c, "failed")
  /\ UNCHANGED <<row, lock, srv, req, seen, ledger, carried, denied>>

\* Deadline, abort or rejection, whatever the server did or will do.
OutcomeLost(c) ==
  /\ pc[c] = "committing"
  /\ EndUnknown(c)
  /\ UNCHANGED <<row, lock, srv, req, seen, carried, denied>>

-----------------------------------------------------------------------------
\* recoverEntry: look at the row, never write it. The pool is closed between
\* the read and the verdict, so the verdict may be on a row that has changed.

RecoverRead(c) ==
  /\ pc[c] = "recover"
  /\ Readable(c)
  /\ seen' = [seen EXCEPT ![c] = row]
  /\ Goto(c, "judge")
  /\ UNCHANGED <<row, lock, srv, req, ledger, carried, denied>>

RecoverReadFails(c) ==
  /\ pc[c] = "recover"
  /\ EndUnknown(c)
  /\ UNCHANGED <<row, lock, srv, req, seen, carried, denied>>

JudgeWritten(c) ==
  /\ pc[c] = "judge"
  /\ Matches(seen[c], EntryOf(c))
  /\ Conclude(c)
  /\ UNCHANGED <<row, lock, srv, req, seen, carried, denied>>

JudgeNotWritten(c) ==
  /\ pc[c] = "judge"
  /\ seen[c] = EntryOf(c).before
  /\ Goto(c, "source_conflict")
  /\ denied' = denied \cup {KeyOf(c)}
  /\ UNCHANGED <<row, lock, srv, req, seen, ledger, carried>>

\* Mutant of JudgeUndecided: only a deleted row is undecided.
JudgeDeleted(c) ==
  /\ pc[c] = "judge"
  /\ seen[c] = None
  /\ EndUnknown(c)
  /\ UNCHANGED <<row, lock, srv, req, seen, carried, denied>>

JudgeUndecided(c) ==
  /\ pc[c] = "judge"
  /\ ~Matches(seen[c], EntryOf(c))
  /\ seen[c] # EntryOf(c).before
  /\ EndUnknown(c)
  /\ UNCHANGED <<row, lock, srv, req, seen, carried, denied>>

-----------------------------------------------------------------------------
\* The environment: the server, other writers, and the desktop dying.

ServerCommit(c) ==
  /\ srv[c] = "committing"
  /\ srv' = [srv EXCEPT ![c] = "committed"]
  /\ row' = seen[c]
  /\ Witness(row', ledger)
  /\ lock' = None
  /\ UNCHANGED <<pc, req, seen, ledger, denied>>

\* The client rolled back, its connection is gone, or the commit failed.
ServerRollback(c) ==
  /\ srv[c] \in {"updated", "committing"}
  /\ srv' = [srv EXCEPT ![c] = "aborted"]
  /\ lock' = None
  /\ UNCHANGED <<row, pc, req, seen, ledger, carried, denied>>

PeerWrite(r) ==
  /\ lock = None
  /\ VersionedPeers => row # None /\ (IF r = None THEN TRUE ELSE r.ver = row.ver + 1)
  /\ row' = r
  /\ Witness(r, ledger)
  /\ UNCHANGED <<lock, srv, pc, req, seen, ledger, denied>>

Crash ==
  /\ \E c \in Calls : pc[c] \in Running
  /\ pc' = [c \in Calls |-> IF pc[c] \in Running THEN "dead" ELSE pc[c]]
  /\ UNCHANGED <<row, lock, srv, req, seen, ledger, carried, denied>>

-----------------------------------------------------------------------------
ClientStep(c) ==
  \/ Preview(c) \/ PreviewFails(c)
  \/ Confirm(c) \/ Decline(c) \/ ConfirmFails(c)
  \/ BeforeRead(c) \/ Update(c) \/ WriteFails(c)
  \/ SendCommit(c) \/ Acknowledged(c) \/ OutcomeLost(c)
  \/ RecoverRead(c) \/ RecoverReadFails(c)
  \/ JudgeWritten(c) \/ JudgeNotWritten(c) \/ JudgeUndecided(c)

Next ==
  \/ \E c \in Calls, q \in Requests : Deliver(c, q)
  \/ \E c \in Calls : ClientStep(c) \/ ServerCommit(c) \/ ServerRollback(c)
  \/ \E r \in Rows \cup {None} : PeerWrite(r)
  \/ Crash

Spec == Init /\ [][Next]_vars

\* Every wait of a call has a timer (driver, deadline, dialog), and the server
\* ends every transaction whose client is gone or has asked for the commit.
Fairness ==
  /\ \A c \in Calls : WF_vars(ClientStep(c))
  /\ \A c \in Calls : WF_vars(ServerCommit(c) \/ ServerRollback(c))

FairSpec == Spec /\ Fairness

-----------------------------------------------------------------------------
\* Properties.

\* However deliveries, recoveries, crashes and lost answers interleave, the
\* UPDATE of one idempotency key is committed at most once: ledger.begin hands
\* out the right to write once per key and recovery never writes.
AtMostOneCommit ==
  \A c, d \in Calls :
    srv[c] = "committed" /\ srv[d] = "committed" /\ KeyOf(c) = KeyOf(d) => c = d

\* Two deliveries of a key that are both told "succeeded" are told the same
\* read-back, the one the ledger keeps (markSucceeded refuses a second one).
AnswersAgree ==
  \A c \in Calls :
    pc[c] = "succeeded" =>
      /\ EntryOf(c) # None
      /\ EntryOf(c).status = "succeeded"
      /\ EntryOf(c).readBack = seen[c]

\* An entry is "succeeded" only if the committed row did carry its proposed
\* change at some time, and its read-back does: never on an unproved commit.
SuccessWasVisible ==
  \A k \in Keys :
    ledger[k] # None /\ ledger[k].status = "succeeded" =>
      /\ k \in carried
      /\ Matches(ledger[k].readBack, ledger[k])

\* A call that answered failed, cancelled or source_conflict did not write and
\* will not: once a commit has been sent the only other answer is "unknown".
HonestFailure ==
  \A c \in Calls :
    srv[c] \in {"committing", "committed"} =>
      pc[c] \in {"committing", "succeeded", "unknown", "dead"}

\* A commit replaces exactly the record the user saw and confirmed, when the
\* row's other writers keep the version contract: nobody's update is lost.
NoLostUpdate ==
  [][\A c \in Calls :
       srv[c] # "committed" /\ srv'[c] = "committed" => row = EntryOf(c).before]_vars

\* After recovery has answered "not written" for a key, the write of that key
\* never lands.
VerdictIsFinal ==
  [][\A c \in Calls :
       srv[c] # "committed" /\ srv'[c] = "committed" => KeyOf(c) \notin denied]_vars

\* Every call is answered, or dies with its process: no branch of the write or
\* of the recovery leaves the chat waiting.
EveryCallSettles ==
  \A c \in Calls : pc[c] \in Running ~> pc[c] \notin Running

-----------------------------------------------------------------------------
\* The abstract promise this implements, see IdempotentUpdate.

Abstract == INSTANCE IdempotentUpdate WITH
  Effects <- Effects,
  intent  <- [k \in Keys |->
                IF ledger[k] = None THEN None
                ELSE [ver |-> ledger[k].before.ver + 1,
                      val |-> ledger[k].print.val]],
  applied <- {k \in Keys :
                \E c \in Calls : srv[c] = "committed" /\ KeyOf(c) = k},
  granted <- {k \in Keys : ledger[k] # None /\ ledger[k].status = "succeeded"}

ImplementsIdempotentUpdate == Abstract!Spec

=============================================================================
