-------------------------- MODULE ReferenceExecutor --------------------------
(***************************************************************************)
(* The desktop's reference tools: the executor that checks a request       *)
(* against the signed package, shows the user what a progress report would *)
(* change, waits for the click or the timer, and writes, and the SQLite    *)
(* store that makes the write once per idempotency key. It lives in the    *)
(* process of Startup, which may quit, fail to start, crash and start      *)
(* again at any point.                                                     *)
(***************************************************************************)
EXTENDS Startup, CapabilityPackage, FiniteSets

CONSTANTS
  Calls,     \* local tool requests the desktop receives
  Requests,  \* sequence of what they may ask
  Files,     \* sequence of what the package file may be
  Keys,      \* idempotency keys
  Legacy,    \* keys an earlier version may have left without a fingerprint
  Seed,      \* the record the store is seeded with
  None

VARIABLES
  package,  \* the package file of this start
  row,      \* the work order, with the order it belongs to
  done,     \* tool_idempotency
  desk,     \* what became of each call
  wrote     \* history: calls whose write landed

storeVars == <<row, done>>
vars == <<processVars, package, storeVars, desk, wrote>>

NaN == -1

Rows == [rate : 0..100, note : STRING, ver : Nat]

Idle ==
  [at |-> "idle", req |-> 0, shown |-> None, box |-> "none", status |-> None, result |-> None]

\* A table from before fingerprints has rows without one.
Init ==
  /\ StartupInit
  /\ package = 1
  /\ \E old \in SUBSET Legacy :
       /\ done = [k \in Keys |->
                    IF k \in old THEN [print |-> None, before |-> None, after |-> None] ELSE None]
       /\ row = IF old = {} THEN None ELSE [Seed EXCEPT !.ver = 1 + Cardinality(old)]
  /\ desk = [c \in Calls |-> Idle]
  /\ wrote = {}

RequestOf(c) == Requests[desk[c].req]
StoreOpen == "store" \in open

-----------------------------------------------------------------------------
\* The request as the executor reads it.

\* String(args[n])
Text(q, n) ==
  IF ~Has(q, n) THEN "undefined"
  ELSE IF Arg(q, n)[2] = "null" THEN "null" ELSE Arg(q, n)[3]

\* Number(args[n])
Number(q, n) ==
  IF ~Has(q, n) THEN NaN
  ELSE IF Arg(q, n)[2] = "null" THEN 0 ELSE Arg(q, n)[3]

\* The note, None when the request has no such argument.
Note(q) == IF Has(q, "note") THEN Text(q, "note") ELSE None

\* What the dialog proposes for a record, and what the store makes of it.
Proposed(q, r) ==
  [rate |-> Number(q, "completionRate"),
   note |-> IF Note(q) = None THEN r.note ELSE Note(q),
   ver |-> r.ver + 1]

Fingerprint(q) ==
  <<Text(q, "orderId"), Text(q, "workOrderId"), Number(q, "completionRate"),
    Number(q, "expectedVersion"), Note(q)>>

\* Mutant of ValidProgress: the range is left to the manifest.
ValidIntegers(q) == Number(q, "completionRate") >= 0 /\ Number(q, "expectedVersion") >= 0

\* requireValidProgress; the texts it also checks are never empty here.
ValidProgress(q) ==
  /\ Number(q, "completionRate") \in 0..100
  /\ Number(q, "expectedVersion") >= 0

Prints == {Fingerprint(Requests[i]) : i \in DOMAIN Requests}

Entries == [print : Prints \cup {None}, before : Rows \cup {None}, after : Rows \cup {None}]

Statuses == {"succeeded", "failed", "cancelled", "source_conflict"}

ASSUME ExecutorAssumption ==
  /\ IsFiniteSet(Keys) /\ Legacy \subseteq Keys
  /\ \A i \in DOMAIN Requests :
       Key(Requests[i]) \in Keys /\ Note(Requests[i]) \in STRING \cup {None}
  /\ Seed \in Rows /\ Seed.ver = 1
  /\ 1 \in DOMAIN Files /\ 0 \notin DOMAIN Requests
  /\ None \notin Rows \cup Entries \cup Prints \cup Statuses

CallRows ==
  [at : {"idle", "asking", "answered", "lost"}, req : {0} \cup DOMAIN Requests,
   shown : Rows \cup {None}, box : {"none", "open"}, status : Statuses \cup {None},
   result : Rows \cup {None}]

TypeOK ==
  /\ StartupTypeOK
  /\ package \in DOMAIN Files
  /\ row \in Rows \cup {None}
  /\ done \in [Keys -> Entries \cup {None}]
  /\ \A k \in Keys : done[k] # None /\ done[k].print # None =>
       done[k].before \in Rows /\ done[k].after \in Rows
  /\ desk \in [Calls -> CallRows]
  /\ \A c \in Calls :
       /\ desk[c].at = "answered" <=> desk[c].status # None
       /\ desk[c].at = "asking" =>
            desk[c].req # 0 /\ desk[c].box = "open" /\ desk[c].shown \in Rows
  /\ wrote \subseteq Calls

-----------------------------------------------------------------------------
\* The store.

\* initialize() seeds the order when there is none.
SeedStore == row' = IF row = None THEN Seed ELSE row

\* Mutant of Repeats: the key alone says the request is the same.
RepeatsKey(q) == done[Key(q)].print # None

\* The key is filed for this very request, and not by an earlier version.
Repeats(q) == done[Key(q)].print = Fingerprint(q)

\* Mutant of Current: the version is not compared.
CurrentRow(q) ==
  /\ row # None
  /\ Text(q, "orderId") = "SO-1001" /\ Text(q, "workOrderId") = "WO-1001"

\* The record the request names, in the version it expects.
Current(q) ==
  /\ row # None
  /\ Text(q, "orderId") = "SO-1001" /\ Text(q, "workOrderId") = "WO-1001"
  /\ row.ver = Number(q, "expectedVersion")

\* Nothing is kept of a call that ends without a result.
Answered(d, status, result) ==
  [(IF result = None THEN Idle ELSE d)
     EXCEPT !.at = "answered", !.status = status, !.result = result]

\* The dialog was confirmed: its box is gone.
Answer(c, status, result) ==
  desk' = [desk EXCEPT ![c] = [Answered(@, status, result) EXCEPT !.box = "none"]]

\* Mutant of Report: the key is looked up before the transaction only.
ReportUnkeyed(c, q) ==
  IF ~StoreOpen \/ ~ValidProgress(q) \/ ~Current(q)
    THEN Answer(c, "failed", None) /\ UNCHANGED <<storeVars, wrote>>
  ELSE /\ row' = Proposed(q, row)
       /\ done' = [done EXCEPT ![Key(q)] =
                     [print |-> Fingerprint(q), before |-> row, after |-> row']]
       /\ Answer(c, "succeeded", row')
       /\ wrote' = wrote \cup {c}

\* reportProductionProgress is one SQLite transaction: the key is looked up, the
\* version compared, the record written, read back and filed under the key.
Report(c, q) ==
  IF ~StoreOpen \/ ~ValidProgress(q)
    THEN Answer(c, "failed", None) /\ UNCHANGED <<storeVars, wrote>>
  ELSE IF done[Key(q)] # None
    THEN /\ IF Repeats(q) THEN Answer(c, "succeeded", done[Key(q)].after)
                          ELSE Answer(c, "source_conflict", None)
         /\ UNCHANGED <<storeVars, wrote>>
  ELSE IF ~Current(q)
    THEN Answer(c, "source_conflict", None) /\ UNCHANGED <<storeVars, wrote>>
  ELSE /\ row' = Proposed(q, row)
       /\ done' = [done EXCEPT ![Key(q)] =
                     [print |-> Fingerprint(q), before |-> row, after |-> row']]
       /\ Answer(c, "succeeded", row')
       /\ wrote' = wrote \cup {c}

-----------------------------------------------------------------------------
\* The executor.

Accepted(q) ==
  LET f == Files[package] IN
  /\ Requires(f, q)
  /\ MetadataOK(RequiredTool(f, q), q)
  /\ Accepts(RequiredTool(f, q), q)

\* A read, or the branch for a tool the executor has no code for.
Read(d, q) ==
  IF ToolName(q) # "query_order_status" \/ ~StoreOpen THEN Answered(d, "failed", None)
  ELSE IF Text(q, "orderId") = "SO-1001" THEN Answered(d, "succeeded", row)
  ELSE Answered(d, "source_conflict", None)

\* The record is read for the dialog; whether it is in the version the request
\* expects is not looked at before the user has answered.
Preview(d, q) ==
  IF ~StoreOpen THEN Answered(d, "failed", None)
  ELSE IF Text(q, "orderId") # "SO-1001" \/ Text(q, "workOrderId") # "WO-1001"
    THEN Answered(d, "source_conflict", None)
  ELSE [d EXCEPT !.at = "asking", !.box = "open", !.shown = row]

\* A request arrives on a chat's stream, and runs up to the dialog in one step;
\* after a failed start there is no backend to send one.
Deliver(c) ==
  /\ app \in {"loading", "ready"}
  /\ desk[c].at = "idle"
  /\ \E i \in DOMAIN Requests :
       LET q == Requests[i]
           d == [Idle EXCEPT !.req = i]
       IN desk' = [desk EXCEPT ![c] =
            IF ~Accepted(q) THEN Answered(d, "failed", None)
            ELSE IF ToolName(q) = "report_production_progress" THEN Preview(d, q)
            ELSE Read(d, q)]
  /\ UNCHANGED <<processVars, package, storeVars, wrote>>

\* The user confirms before the timer: the write follows at once.
Approve(c) ==
  /\ Alive /\ desk[c].at = "asking"
  /\ Report(c, RequestOf(c))
  /\ UNCHANGED <<processVars, package>>

\* The user declines, or the box cannot be shown.
Decline(c) ==
  /\ Alive /\ desk[c].at = "asking"
  /\ desk' = [desk EXCEPT ![c] = Answered(@, "cancelled", None)]
  /\ UNCHANGED <<processVars, package, storeVars, wrote>>

\* The timer wins the race; the box stays on the screen.
Expire(c) ==
  /\ Alive /\ desk[c].at = "asking"
  /\ desk' = [desk EXCEPT ![c].at = "answered", ![c].status = "cancelled"]
  /\ UNCHANGED <<processVars, package, storeVars, wrote>>

\* Mutant of ClickLate: the click is listened to after the timer.
ClickLateWrites(c) ==
  /\ Alive /\ desk[c].at = "answered" /\ desk[c].box = "open" /\ StoreOpen
  /\ Current(RequestOf(c)) /\ done[Key(RequestOf(c))] = None /\ ValidProgress(RequestOf(c))
  /\ row' = Proposed(RequestOf(c), row)
  /\ done' = [done EXCEPT ![Key(RequestOf(c))] =
                [print |-> Fingerprint(RequestOf(c)), before |-> row, after |-> row']]
  /\ desk' = [desk EXCEPT ![c].box = "none"]
  /\ wrote' = wrote \cup {c}
  /\ UNCHANGED <<processVars, package>>

\* A click on the box of a call that has been answered does nothing.
ClickLate(c) ==
  /\ Alive /\ desk[c].at = "answered" /\ desk[c].box = "open"
  /\ desk' = [desk EXCEPT ![c].box = "none"]
  /\ UNCHANGED <<processVars, package, storeVars, wrote>>

-----------------------------------------------------------------------------
\* The process around it.

\* The store is made first, then the package file is verified.
Start ==
  /\ package' \in DOMAIN Files
  /\ Launch(Verified(Files[package']))
  /\ SeedStore
  /\ UNCHANGED <<done, desk, wrote>>

Proceed == Wind /\ UNCHANGED <<package, storeVars, desk, wrote>>

\* What was asked dies with the process, what was written does not.
End ==
  /\ Exit
  /\ desk' = [c \in Calls |->
       IF desk[c].at = "asking" THEN [Idle EXCEPT !.at = "lost"]
       ELSE [desk[c] EXCEPT !.box = "none"]]
  /\ package' = 1
  /\ UNCHANGED <<storeVars, wrote>>

Next ==
  \/ \E c \in Calls : Deliver(c) \/ Approve(c) \/ Decline(c) \/ Expire(c) \/ ClickLate(c)
  \/ Start \/ Proceed \/ End

Spec == Init /\ [][Next]_vars

-----------------------------------------------------------------------------
\* Over all restarts, crashes, repeated deliveries and rows of an earlier
\* version, the record's version counts the keys filed for it: a key changes the
\* record exactly once, and nothing changes it without its key.
VersionCountsKeys ==
  row # None => row.ver = 1 + Cardinality({k \in Keys : done[k] # None})

\* A report that was answered as succeeded is the request its key stands for, and
\* was given what that key did: two deliveries of a key, one of them perhaps in an
\* earlier life of the process, never succeed with different effects. And a call
\* that wrote was answered so: none that was cancelled, timed out, refused, failed
\* or lost with its process has changed the record or ever will.
AnswersAgree ==
  /\ \A c \in Calls :
       desk[c].status = "succeeded" /\ desk[c].shown # None =>
         LET e == done[Key(RequestOf(c))] IN
         /\ e # None /\ e.print = Fingerprint(RequestOf(c))
         /\ desk[c].result = e.after /\ e.after.ver = e.before.ver + 1
  /\ \A c \in wrote : desk[c].at = "answered" /\ desk[c].status = "succeeded"

\* When the request expects the version the dialog showed, a confirmed write
\* replaces that very record with what the dialog proposed, whatever other dialogs,
\* calls and restarts did meanwhile.
ConfirmedIsReplaced ==
  [][\A c \in wrote' \ wrote :
       LET q == RequestOf(c) IN
       desk[c].shown # None /\ Number(q, "expectedVersion") = desk[c].shown.ver =>
         row = desk[c].shown /\ row' = Proposed(q, desk[c].shown)]_vars

=============================================================================
