----------------------------- MODULE SourceCall -----------------------------
(***************************************************************************)
(* One call to a customer's SQL Server that reads (sql-adapter.ts): the    *)
(* credential is fetched from the key chain, a connection pool is opened   *)
(* for this call alone, one query is sent, the pool is closed, and a read  *)
(* whose connection failed in passing is tried once more.  The owner of    *)
(* the call, the connector runtime or the workbench session, may close     *)
(* meanwhile: its signal is aborted, and the call ends without waiting for *)
(* the driver.  What is asked and what the rows become is SqlPolicy's.     *)
(***************************************************************************)
EXTENDS Naturals

VARIABLES
  closed,   \* the owner was closed: the signal is aborted
  call,     \* what the call waits for
  attempt,  \* the attempt that is under way
  next,     \* while the pool closes: what comes then
  pools     \* the pool of each attempt

callVars == <<closed, call, attempt, next, pools>>

Attempts == 1..2

Waits == {"checking", "credential", "opening", "querying", "leaving"}

CallTypeOK ==
  /\ closed \in BOOLEAN
  /\ call \in {"idle", "done", "failed"} \cup Waits
  /\ attempt \in Attempts
  /\ next \in {"done", "failed", "retry"}
  /\ pools \in [Attempts -> {"none", "opening", "open", "closing"}]

CallInit ==
  /\ closed = FALSE /\ call = "idle" /\ attempt = 1 /\ next = "failed"
  /\ pools = [i \in Attempts |-> "none"]

Running == call \in Waits

\* throwIfAborted.
Goes(to) == call' = IF closed THEN "failed" ELSE to

\* ConnectorRuntime.execute looks for the credential before it makes a source;
\* the workbench's tester goes to the source at once.
StartCall(checked) ==
  /\ Goes(IF checked THEN "checking" ELSE "credential")
  /\ UNCHANGED <<closed, attempt, next, pools>>

\* The key chain answers the runtime, which does not listen to its signal
\* meanwhile: with a credential, with none or with an error.
Check ==
  /\ call = "checking"
  /\ \/ Goes("credential")
     \/ call' = "failed"
  /\ UNCHANGED <<closed, attempt, next, pools>>

\* requireCredential: the value may have changed since, or be gone.
Fetch ==
  /\ call = "credential"
  /\ \/ call' = "opening" /\ pools' = [pools EXCEPT ![attempt] = "opening"]
     \/ call' = "failed" /\ UNCHANGED pools
  /\ UNCHANGED <<closed, attempt, next>>

\* openPoolWithAbort: the query is sent as soon as the pool is open.
Opened ==
  /\ call = "opening"
  /\ pools' = [pools EXCEPT ![attempt] = "open"]
  /\ call' = "querying"
  /\ UNCHANGED <<closed, attempt, next>>

\* executeRead tries a connection that failed in passing a second time; a
\* preview and a connection test do not.
Retries(transient, again) == transient /\ again /\ attempt = 1 /\ ~closed

\* An attempt ends without rows.
EndAttempt(retry) ==
  IF retry THEN call' = "credential" /\ attempt' = 2
           ELSE call' = "failed" /\ UNCHANGED attempt

OpenFails(again) ==
  /\ call = "opening"
  /\ pools' = [pools EXCEPT ![attempt] = "none"]
  /\ \E transient \in BOOLEAN : EndAttempt(Retries(transient, again))
  /\ UNCHANGED <<closed, next>>

\* Mutant of Late: nobody closes a pool that opens too late.
LateKept(i) ==
  /\ pools[i] = "opening" /\ ~(call = "opening" /\ attempt = i)
  /\ pools' = [pools EXCEPT ![i] = "open"]
  /\ UNCHANGED <<closed, call, attempt, next>>

\* A pool whose call has ended opens after all, or does not.
Late(i) ==
  /\ pools[i] = "opening" /\ ~(call = "opening" /\ attempt = i)
  /\ \/ pools' = [pools EXCEPT ![i] = "closing"]
     \/ pools' = [pools EXCEPT ![i] = "none"]
  /\ UNCHANGED <<closed, call, attempt, next>>

\* The query has ended: the pool is told to close, which is waited for.
Leave(then) ==
  /\ call = "querying"
  /\ call' = "leaving" /\ next' = then
  /\ pools' = [pools EXCEPT ![attempt] = "closing"]
  /\ UNCHANGED <<closed, attempt>>

QueryFails(again) ==
  \E transient \in BOOLEAN :
    Leave(IF transient /\ again /\ attempt = 1 THEN "retry" ELSE "failed")

PoolCloses(i) ==
  /\ pools[i] = "closing"
  /\ pools' = [pools EXCEPT ![i] = "none"]
  /\ UNCHANGED <<closed, call, attempt, next>>

\* closePoolQuietly: the pool is closed, or has had its 100 ms.
Left ==
  /\ call = "leaving"
  /\ IF next = "retry" THEN EndAttempt(Retries(TRUE, TRUE))
                       ELSE call' = next /\ UNCHANGED attempt
  /\ UNCHANGED <<closed, next, pools>>

\* Mutant of Close: a call waits for the pool it asked for.
CloseUnheard ==
  /\ ~closed /\ closed' = TRUE
  /\ CASE call = "credential" -> call' = "failed" /\ UNCHANGED <<next, pools>>
       [] call = "querying" -> /\ call' = "leaving" /\ next' = "failed"
                               /\ pools' = [pools EXCEPT ![attempt] = "closing"]
       [] OTHER -> UNCHANGED <<call, next, pools>>
  /\ UNCHANGED attempt

\* ConnectorRuntime.close, or the workbench session's end: every wait but the
\* runtime's first and the pool's closing ends at once, the query is cancelled.
Close ==
  /\ ~closed /\ closed' = TRUE
  /\ CASE call \in {"credential", "opening"} -> call' = "failed" /\ UNCHANGED <<next, pools>>
       [] call = "querying" -> /\ call' = "leaving" /\ next' = "failed"
                               /\ pools' = [pools EXCEPT ![attempt] = "closing"]
       [] OTHER -> UNCHANGED <<call, next, pools>>
  /\ UNCHANGED attempt

\* The steps the program's own process takes; the others are the driver's.
OwnStep == Check \/ Fetch \/ Left

-----------------------------------------------------------------------------
\* Properties.

\* No connection to the customer's database outlives the query it was opened
\* for, however the call ends: at most the attempt that waits for its query has
\* an open pool, and a pool that opens after its call was given up is closed.
NoPoolIsLeft ==
  \A i \in Attempts : pools[i] = "open" => call = "querying" /\ attempt = i

\* A call whose owner closes ends, even when the driver never answers again.
CloseEndsTheCall == closed /\ Running ~> ~Running

=============================================================================
