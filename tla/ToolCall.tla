------------------------------- MODULE ToolCall -------------------------------
(***************************************************************************)
(* A chat turn of the agent that writes through a connector: the agent     *)
(* loop in the backend, the bridge that sends a tool call to the desktop   *)
(* over the turn's event stream and waits for the answer to be posted, and *)
(* the desktop's runtime, which asks the backend for the version's         *)
(* approval, shows the confirmation dialog and writes to the source.       *)
(* Administrators change the registry and the policy meanwhile.            *)
(*                                                                         *)
(* What the source does with a confirmed write is the contract SqlUpdate   *)
(* establishes with locking reads: a negative answer is final.             *)
(***************************************************************************)
EXTENDS ConnectorRegistry

CONSTANTS
  Chats,    \* chat turns
  MaxCalls, \* bound on the tool calls of a turn
  Tool      \* the name of the tool the turns call

ASSUME ToolCallAssumption == MaxCalls \in Nat /\ Tool \in ToolNames

Calls == Chats \X (1..MaxCalls)

VARIABLES
  allowed,   \* OpenFGA lets the caller use the tool
  loop,      \* the agent loop of each turn
  pending,   \* the server's pendingTools
  answer,    \* what the buffered channel of each call holds
  audit,     \* the audit log
  released,  \* calls whose result the model was given
  connected, \* turns whose event stream is up
  stream,    \* tool requests on each event stream
  desk,      \* the desktop's side of each turn
  wrote,     \* calls whose write is in the source
  inflight,  \* calls whose commit may still land, with nobody waiting for it
  late       \* history: calls made after the version was revoked or the skill withdrawn

desktopVars == <<connected, stream, desk, wrote, inflight>>
bridgeVars == <<pending, answer>>
callVars == <<allowed, loop, bridgeVars, audit, released, desktopVars, late>>
vars == <<registryVars, callVars>>

\* A definite negative answer of the desktop, and all its answers.
Negative == {"failed", "cancelled", "source_conflict"}
Answers == Negative \cup {"succeeded", "unknown"}

Loops ==
  [at : {"start", "ready", "dispatch", "wait", "record", "ended"},
   version : Keys \cup {None}, unlocked : BOOLEAN, made : 0..MaxCalls,
   verdict : Answers \cup {None}]

Desks ==
  [at : {"idle", "check", "preview", "confirm", "write", "committed", "post", "gone"},
   call : Calls \cup {None}, reply : Answers \cup {None}]

CallOf(ch) == <<ch, loop[ch].made>>

\* None is no version, no call and no outcome.
ASSUME NoCallAssumption == None \notin Keys \cup Calls \cup Answers \cup {"denied"}

TypeOK ==
  /\ RegistryTypeOK
  /\ allowed \in BOOLEAN
  /\ loop \in [Chats -> Loops] /\ desk \in [Chats -> Desks]
  /\ pending \subseteq Calls /\ answer \in [Calls -> Answers \cup {None}]
  /\ audit \in Seq([call : Calls, status : Answers \cup {"denied"}])
  /\ released \cup wrote \cup inflight \subseteq Calls
  /\ connected \in [Chats -> BOOLEAN]
  /\ stream \in [Chats -> Seq(Calls)]
  /\ late \subseteq Calls \X {"revoked", "withdrawn"}
  \* A call is registered only while its agent waits and nothing answered it.
  /\ \A c \in pending : loop[c[1]].at = "wait" /\ c = CallOf(c[1]) /\ answer[c] = None

-----------------------------------------------------------------------------
\* The agent loop.

Goto(ch, where) == loop' = [loop EXCEPT ![ch].at = where]

\* Ask resolves the catalog and the caller's skills once for the whole turn.
StartTurn(ch) ==
  /\ loop[ch].at = "start"
  /\ LET r == Resolve(Tool) IN
     loop' = [loop EXCEPT ![ch] = [@ EXCEPT
       !.at = IF r \in Keys THEN "ready" ELSE "ended",
       !.version = IF r \in Keys THEN r ELSE None,
       !.unlocked = allowed]]
  /\ UNCHANGED <<registryVars, allowed, bridgeVars, audit, released, desktopVars, late>>

MakeCall(ch) ==
  /\ loop[ch].at = "ready" /\ loop[ch].made < MaxCalls
  /\ loop' = [loop EXCEPT ![ch].at = "dispatch", ![ch].made = @ + 1]
  /\ late' = late
       \cup (IF versions[loop[ch].version].status = "revoked"
               THEN {<<CallOf(ch)', "revoked">>} ELSE {})
       \cup (IF allowed THEN {} ELSE {<<CallOf(ch)', "withdrawn">>})
  /\ UNCHANGED <<registryVars, allowed, bridgeVars, audit, released, desktopVars>>

\* The final text, a failing model, or the bound on iterations.
EndTurn(ch) ==
  /\ loop[ch].at = "ready"
  /\ Goto(ch, "ended")
  /\ UNCHANGED <<registryVars, allowed, bridgeVars, audit, released, desktopVars, late>>

\* The audit log takes the entry, or fails to.
Audited(ch, status) ==
  \/ audit' = Append(audit, [call |-> CallOf(ch), status |-> status])
  \/ UNCHANGED audit

\* A locked tool, bad arguments, an authorization that cannot be had, in
\* particular once the client is gone, and one that says no.
Refuse(ch) ==
  /\ loop[ch].at = "dispatch"
  /\ IF ~loop[ch].unlocked THEN Audited(ch, "denied")
       ELSE \/ Audited(ch, "failed")
            \/ ~allowed /\ connected[ch] /\ Audited(ch, "denied")
  /\ Goto(ch, "ready")
  /\ UNCHANGED <<registryVars, allowed, bridgeVars, released, desktopVars, late>>

\* Mutant of Invoke: the skills the turn started with stand for the live check.
InvokeOnTurnSkills(ch) ==
  /\ loop[ch].at = "dispatch"
  /\ loop[ch].unlocked /\ connected[ch]
  /\ pending' = pending \cup {CallOf(ch)}
  /\ stream' = [stream EXCEPT ![ch] = Append(@, CallOf(ch))]
  /\ Goto(ch, "wait")
  /\ UNCHANGED <<registryVars, allowed, answer, audit, released, connected, desk, wrote,
                 inflight, late>>

\* Guard.Authorize allows the call; InvokeLocalTool registers and sends it.
Invoke(ch) ==
  /\ loop[ch].at = "dispatch"
  /\ loop[ch].unlocked /\ allowed /\ connected[ch]
  /\ pending' = pending \cup {CallOf(ch)}
  /\ stream' = [stream EXCEPT ![ch] = Append(@, CallOf(ch))]
  /\ Goto(ch, "wait")
  /\ UNCHANGED <<registryVars, allowed, answer, audit, released, connected, desk, wrote,
                 inflight, late>>

\* What the wait ends with; the registration goes with it.
Judge(ch, verdict) ==
  /\ loop' = [loop EXCEPT ![ch].at = "record", ![ch].verdict = verdict]
  /\ pending' = pending \ {CallOf(ch)}
  /\ UNCHANGED <<registryVars, allowed, answer, audit, released, desktopVars, late>>

Receive(ch) ==
  /\ loop[ch].at = "wait"
  /\ answer[CallOf(ch)] # None
  /\ Judge(ch, answer[CallOf(ch)])

\* The request's context ends with its connection: no execution identity, and
\* executionStatus calls it cancelled.
ClientGone(ch) ==
  /\ loop[ch].at = "wait"
  /\ ~connected[ch]
  /\ Judge(ch, "cancelled")

\* Mutant of TimedOut: an unanswered call is taken for one that did nothing.
TimedOutAsFailure(ch) ==
  /\ loop[ch].at = "wait"
  /\ Judge(ch, "failed")

\* Mutant of TimedOut: the deadline is only looked at when an answer wakes the
\* wait.
TimedOutOnceAnswered(ch) ==
  /\ loop[ch].at = "wait"
  /\ answer[CallOf(ch)] # None
  /\ Judge(ch, "unknown")

TimedOut(ch) ==
  /\ loop[ch].at = "wait"
  /\ Judge(ch, "unknown")

\* Mutant of Record: the result is handed out whether or not it was audited.
RecordAfterRelease(ch) ==
  /\ loop[ch].at = "record"
  /\ Audited(ch, loop[ch].verdict)
  /\ released' = IF loop[ch].verdict = "succeeded"
                   THEN released \cup {CallOf(ch)} ELSE released
  /\ loop' = [loop EXCEPT ![ch].at = "ready", ![ch].verdict = None]
  /\ UNCHANGED <<registryVars, allowed, bridgeVars, desktopVars, late>>

\* The entry is appended first; without it, or without success, no data.
Record(ch) ==
  /\ loop[ch].at = "record"
  /\ Audited(ch, loop[ch].verdict)
  /\ released' = IF audit' # audit /\ loop[ch].verdict = "succeeded"
                   THEN released \cup {CallOf(ch)} ELSE released
  /\ loop' = [loop EXCEPT ![ch].at = "ready", ![ch].verdict = None]
  /\ UNCHANGED <<registryVars, allowed, bridgeVars, desktopVars, late>>

-----------------------------------------------------------------------------
\* The desktop: one request at a time, in the order of the stream.

backendVars == <<registryVars, allowed, loop, audit, released, late>>

DeskGoto(ch, where) == desk' = [desk EXCEPT ![ch].at = where]

Reply(ch, status) == desk' = [desk EXCEPT ![ch].at = "post", ![ch].reply = status]

Take(ch) ==
  /\ desk[ch].at = "idle" /\ stream[ch] # <<>>
  /\ desk' = [desk EXCEPT ![ch].at = "check", ![ch].call = Head(stream[ch])]
  /\ stream' = [stream EXCEPT ![ch] = Tail(@)]
  /\ UNCHANGED <<backendVars, bridgeVars, connected, wrote, inflight>>

\* Mutant of CheckApproval: the installed package stands for the approval.
CheckInstalled(ch) ==
  /\ desk[ch].at = "check"
  /\ DeskGoto(ch, "preview") \/ Reply(ch, "failed")
  /\ UNCHANGED <<backendVars, bridgeVars, connected, stream, wrote, inflight>>

\* The version the request names must be published at this moment; the package,
\* the request and the credential must check out, which they may fail to.
CheckApproval(ch) ==
  /\ desk[ch].at = "check"
  /\ \/ loop[ch].version \in Published /\ DeskGoto(ch, "preview")
     \/ Reply(ch, "failed")
  /\ UNCHANGED <<backendVars, bridgeVars, connected, stream, wrote, inflight>>

\* Reads the row, and shows what would change.
Preview(ch) ==
  /\ desk[ch].at = "preview"
  /\ DeskGoto(ch, "confirm") \/ Reply(ch, "failed") \/ Reply(ch, "source_conflict")
  /\ UNCHANGED <<backendVars, bridgeVars, connected, stream, wrote, inflight>>

Accept(ch) ==
  /\ desk[ch].at = "confirm"
  /\ DeskGoto(ch, "write")
  /\ UNCHANGED <<backendVars, bridgeVars, connected, stream, wrote, inflight>>

\* The user declines, or the confirmation's own timer runs out.
Decline(ch) ==
  /\ desk[ch].at = "confirm"
  /\ Reply(ch, "cancelled")
  /\ UNCHANGED <<backendVars, bridgeVars, connected, stream, wrote, inflight>>

\* The write is committed, or is not and never will be, or nobody knows.
Commit(ch) ==
  /\ desk[ch].at = "write"
  /\ wrote' = wrote \cup {desk[ch].call}
  /\ DeskGoto(ch, "committed")
  /\ UNCHANGED <<backendVars, bridgeVars, connected, stream, inflight>>

WriteFails(ch) ==
  /\ desk[ch].at = "write"
  /\ Reply(ch, "failed") \/ Reply(ch, "source_conflict")
  /\ UNCHANGED <<backendVars, bridgeVars, connected, stream, wrote, inflight>>

OutcomeLost(ch) ==
  /\ desk[ch].at = "write"
  /\ inflight' = inflight \cup {desk[ch].call}
  /\ Reply(ch, "unknown")
  /\ UNCHANGED <<backendVars, bridgeVars, connected, stream, wrote>>

Committed(ch) ==
  /\ desk[ch].at = "committed"
  /\ Reply(ch, "succeeded") \/ Reply(ch, "unknown")
  /\ UNCHANGED <<backendVars, bridgeVars, connected, stream, wrote, inflight>>

\* A commit nobody waits for lands, or is rolled back.
LateCommit(c) ==
  /\ c \in inflight
  /\ inflight' = inflight \ {c}
  /\ wrote' = wrote \cup {c} \/ UNCHANGED wrote
  /\ UNCHANGED <<backendVars, bridgeVars, connected, stream, desk>>

\* Mutant of Post: the registration stays, as resolveFile leaves it.
PostKeepingEntry(ch) ==
  /\ desk[ch].at = "post"
  /\ answer' = IF desk[ch].call \in pending
                 THEN [answer EXCEPT ![desk[ch].call] = desk[ch].reply] ELSE answer
  /\ desk' = [desk EXCEPT ![ch] = [at |-> "idle", call |-> None, reply |-> None]]
  /\ UNCHANGED <<backendVars, pending, connected, stream, wrote, inflight>>

\* resolveLocalTool: a registered call is taken off the table and answered.
\* A POST that fails, or that comes too late, is ignored.
Post(ch) ==
  /\ desk[ch].at = "post"
  /\ \/ /\ desk[ch].call \in pending
        /\ pending' = pending \ {desk[ch].call}
        /\ answer' = [answer EXCEPT ![desk[ch].call] = desk[ch].reply]
     \/ UNCHANGED bridgeVars
  /\ desk' = [desk EXCEPT ![ch] = [at |-> "idle", call |-> None, reply |-> None]]
  /\ UNCHANGED <<backendVars, connected, stream, wrote, inflight>>

DeskStep(ch) ==
  \/ Take(ch) \/ CheckApproval(ch) \/ Preview(ch) \/ Accept(ch) \/ Decline(ch)
  \/ Commit(ch) \/ WriteFails(ch) \/ OutcomeLost(ch) \/ Committed(ch) \/ Post(ch)

\* The connection breaks; the desktop ends the request it is serving, and may
\* have others in its buffer.
Disconnect(ch) ==
  /\ connected[ch]
  /\ connected' = [connected EXCEPT ![ch] = FALSE]
  /\ stream' \in {stream, [stream EXCEPT ![ch] = <<>>]}
  /\ UNCHANGED <<backendVars, bridgeVars, desk, wrote, inflight>>

\* The application dies; a write it had begun may have been sent to commit.
DesktopDies(ch) ==
  /\ desk[ch].at # "gone"
  /\ connected' = [connected EXCEPT ![ch] = FALSE]
  /\ stream' = [stream EXCEPT ![ch] = <<>>]
  /\ inflight' = IF desk[ch].at = "write" THEN inflight \cup {desk[ch].call} ELSE inflight
  /\ desk' = [desk EXCEPT ![ch] = [at |-> "gone", call |-> None, reply |-> None]]
  /\ UNCHANGED <<backendVars, bridgeVars, wrote>>

-----------------------------------------------------------------------------
\* Administrators.

RegistryStep == RegistryNext /\ UNCHANGED callVars

\* A skill edit, once projected, gives or takes the caller's use of the tool.
PolicyEdit ==
  /\ allowed' = ~allowed
  /\ late' = IF allowed' THEN {l \in late : l[2] # "withdrawn"} ELSE late
  /\ UNCHANGED <<registryVars, loop, bridgeVars, audit, released, desktopVars>>

\* Every submission is in the registry, published.
Init ==
  /\ versions = [k \in Keys |->
       IF \E s \in Submissions : s.key = k
         THEN LET s == CHOOSE s \in Submissions : s.key = k IN
              [digest |-> s.digest, tools |-> s.tools, status |-> "published"]
         ELSE None]
  /\ events = <<>>
  /\ admin = [a \in Admins |-> None]
  /\ allowed = TRUE
  /\ loop = [ch \in Chats |-> [at |-> "start", version |-> None, unlocked |-> FALSE,
                               made |-> 0, verdict |-> None]]
  /\ pending = {} /\ answer = [c \in Calls |-> None]
  /\ audit = <<>> /\ released = {}
  /\ connected = [ch \in Chats |-> TRUE]
  /\ stream = [ch \in Chats |-> <<>>]
  /\ desk = [ch \in Chats |-> [at |-> "idle", call |-> None, reply |-> None]]
  /\ wrote = {} /\ inflight = {} /\ late = {}

WaitEnds(ch) == Receive(ch) \/ ClientGone(ch) \/ TimedOut(ch)

LoopStep(ch) ==
  \/ StartTurn(ch) \/ MakeCall(ch) \/ EndTurn(ch)
  \/ Refuse(ch) \/ Invoke(ch) \/ WaitEnds(ch) \/ Record(ch)

Next ==
  \/ \E ch \in Chats : LoopStep(ch) \/ DeskStep(ch) \/ Disconnect(ch) \/ DesktopDies(ch)
  \/ \E c \in Calls : LateCommit(c)
  \/ RegistryStep
  \/ PolicyEdit

\* The agent's goroutine runs, its timer fires, and every await of the desktop
\* has a timeout of its own.
Fairness ==
  \A ch \in Chats :
    /\ WF_vars(WaitEnds(ch)) /\ WF_vars(Record(ch)) /\ WF_vars(Refuse(ch) \/ Invoke(ch))
    /\ WF_vars(DeskStep(ch))

Spec == Init /\ [][Next]_vars /\ Fairness

-----------------------------------------------------------------------------
\* Properties.

StatusesOf(c) == {audit[i].status : i \in {j \in 1..Len(audit) : audit[j].call = c}}

\* The audit log tells what happened to the source, however late the write is:
\* "succeeded" only of a write that is there, "denied", "failed", "cancelled" and
\* "source_conflict" never of one that is, except that a call whose connection
\* broke may be logged as cancelled.
AuditIsHonest ==
  \A c \in Calls :
    /\ "succeeded" \in StatusesOf(c) => c \in wrote
    /\ c \in wrote =>
         /\ StatusesOf(c) \cap (Negative \cup {"denied"}) \subseteq {"cancelled"}
         /\ "cancelled" \in StatusesOf(c) => ~connected[c[1]]

\* The same without the exception: a call logged as cancelled did not write.
CancelledMeansNotWritten ==
  \A c \in wrote : StatusesOf(c) \cap Negative = {}

\* No result reaches the model without its audit entry, and a call has one entry.
ReleasedIsAudited ==
  /\ \A c \in released : StatusesOf(c) = {"succeeded"}
  /\ \A i, j \in 1..Len(audit) : audit[i].call = audit[j].call => i = j

\* A turn works with the catalog and the skills of its start, and yet a call
\* made after the version was revoked, or after the skill was withdrawn and not
\* given back, never writes.
StaleTurnNeverWrites == \A l \in late : l[1] \notin wrote \cup inflight

\* Whatever becomes of the desktop, a call the agent made is answered, and
\* whatever becomes of the agent, the desktop ends what it began.
EveryCallEnds ==
  \A ch \in Chats :
    /\ loop[ch].at \in {"dispatch", "wait", "record"} ~> loop[ch].at = "ready"
    /\ desk[ch].at # "idle" ~> desk[ch].at \in {"idle", "gone"}

=============================================================================
