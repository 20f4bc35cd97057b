--------------------------- MODULE ToolCallProofs ---------------------------
(***************************************************************************)
(* Theorems of ToolCall for every set of turns, every bound on their calls *)
(* and every registry.                                                     *)
(***************************************************************************)
EXTENDS ToolCall, ConnectorRegistryProofs

-----------------------------------------------------------------------------
\* The inductive invariant.

Elems(s) == {s[i] : i \in 1..Len(s)}

Distinct(s) == \A i, j \in 1..Len(s) : s[i] = s[j] => i = j

\* The agent has not sent this call to the desktop, nor refused it.
Unsent(c) ==
  \/ c[2] > loop[c[1]].made
  \/ c[2] = loop[c[1]].made /\ loop[c[1]].at = "dispatch"

\* The agent is through with this call.
Past(c) ==
  \/ c[2] < loop[c[1]].made
  \/ c[2] = loop[c[1]].made /\ loop[c[1]].at \in {"ready", "ended"}

\* Nothing of the call is in the source, nor will be: unless it is sent, which
\* only happens to a call that was not sent.
Closed(c) ==
  /\ c \notin Elems(stream[c[1]])
  /\ desk[c[1]].call = c => desk[c[1]].at = "post"
  /\ c \notin wrote \cup inflight

UnsentInv(c) ==
  Unsent(c) =>
    /\ c \notin pending /\ answer[c] = None /\ Closed(c) /\ desk[c[1]].call # c
    /\ \A i \in 1..Len(audit) : audit[i].call # c

\* The stream brings each call to its own desktop once.
StreamInv(ch) ==
  /\ \A c \in Elems(stream[ch]) : c[1] = ch /\ c \notin wrote \cup inflight
  /\ Distinct(stream[ch])
  /\ desk[ch].call \notin Elems(stream[ch])

\* The desktop knows what became of the call it serves.
DeskInv(ch) ==
  /\ desk[ch].at \in {"idle", "gone"} <=> desk[ch].call = None
  /\ desk[ch].call # None => desk[ch].call[1] = ch
  /\ desk[ch].at = "post" <=> desk[ch].reply # None
  /\ desk[ch].at \in {"check", "preview", "confirm", "write"} =>
       desk[ch].call \notin wrote \cup inflight
  /\ desk[ch].at = "committed" \/ desk[ch].reply = "succeeded" => desk[ch].call \in wrote
  /\ desk[ch].reply \in Negative => desk[ch].call \notin wrote \cup inflight

\* An outcome that was told for a call is true of it: of a call that was cut off
\* it may be a mistake to say that it was cancelled.
Told(c, status) ==
  /\ status = "succeeded" => c \in wrote
  /\ status \in Negative \cup {"denied"} =>
       Closed(c) \/ (status = "cancelled" /\ ~connected[c[1]])

AnswerInv(c) == Told(c, answer[c]) /\ (answer[c] \in Negative => Closed(c))

\* What the loop of a turn knows.
LoopInv(ch) ==
  /\ loop[ch].at = "start" => loop[ch].made = 0
  /\ loop[ch].at \in {"dispatch", "wait", "record"} => loop[ch].made > 0
  /\ loop[ch].made > 0 => loop[ch].version \in Keys /\ versions[loop[ch].version] # None
  /\ loop[ch].at = "ready" => loop[ch].version \in Keys /\ versions[loop[ch].version] # None
  /\ loop[ch].at = "record" <=> loop[ch].verdict # None
  /\ loop[ch].at = "record" => Told(CallOf(ch), loop[ch].verdict)

AuditInv ==
  /\ \A i \in 1..Len(audit) : Past(audit[i].call) /\ Told(audit[i].call, audit[i].status)
  /\ \A i, j \in 1..Len(audit) : audit[i].call = audit[j].call => i = j

ReleasedInv ==
  \A c \in released :
    \E i \in 1..Len(audit) : audit[i].call = c /\ audit[i].status = "succeeded"

\* A call made too late stays outside: it is never sent, or never approved.
LateInv(l) ==
  /\ l[1] \notin wrote \cup inflight
  /\ l[2] = "withdrawn" => ~allowed /\ Closed(l[1])
  /\ l[2] = "revoked" =>
       /\ loop[l[1][1]].made > 0
       /\ versions[loop[l[1][1]].version].status = "revoked"
       /\ desk[l[1][1]].call = l[1] => desk[l[1][1]].at \in {"check", "post"}

TurnInv(ch) == StreamInv(ch) /\ DeskInv(ch) /\ LoopInv(ch)

CallsInv ==
  /\ TypeOK /\ RequestsExist
  /\ \A c \in Calls : UnsentInv(c) /\ AnswerInv(c)
  /\ \A ch \in Chats : TurnInv(ch)
  /\ AuditInv /\ ReleasedInv
  /\ \A l \in late : LateInv(l)

-----------------------------------------------------------------------------
\* What the loop steps do to their turn.

\* The loop of one turn is at a place of its own, the others are where they were.
Moves(ch, at, version, made, verdict) ==
  /\ loop' \in [Chats -> Loops]
  /\ loop'[ch].at = at /\ loop'[ch].version = version
  /\ loop'[ch].made = made /\ loop'[ch].verdict = verdict
  /\ \A d \in Chats \ {ch} : loop'[d] = loop[d]

LEMMA LoopSet ==
  ASSUME loop \in [Chats -> Loops], NEW ch \in Chats, NEW x \in Loops,
         loop' = [loop EXCEPT ![ch] = x]
  PROVE  Moves(ch, x.at, x.version, x.made, x.verdict)
  BY DEF Moves

LEMMA StartMoves ==
  ASSUME TypeOK, NEW ch \in Chats, StartTurn(ch)
  PROVE  \/ Moves(ch, "ended", None, loop[ch].made, loop[ch].verdict)
         \/ /\ Resolve(Tool) \in Keys
            /\ Moves(ch, "ready", Resolve(Tool), loop[ch].made, loop[ch].verdict)
<1>1. loop \in [Chats -> Loops] /\ loop[ch] \in Loops /\ allowed \in BOOLEAN
  BY DEF TypeOK
<1>2. CASE Resolve(Tool) \in Keys
  <2> DEFINE x == [loop[ch] EXCEPT !.at = "ready", !.version = Resolve(Tool), !.unlocked = allowed]
  <2>1. x \in Loops /\ loop' = [loop EXCEPT ![ch] = x]
    BY <1>1, <1>2 DEF StartTurn, Loops
  <2>2. /\ x.at = "ready" /\ x.version = Resolve(Tool)
        /\ x.made = loop[ch].made /\ x.verdict = loop[ch].verdict
    BY <1>1 DEF Loops
  <2>3. QED
    BY <1>1, <1>2, <2>1, <2>2, LoopSet
<1>3. CASE Resolve(Tool) \notin Keys
  <2> DEFINE x == [loop[ch] EXCEPT !.at = "ended", !.version = None, !.unlocked = allowed]
  <2>1. x \in Loops /\ loop' = [loop EXCEPT ![ch] = x]
    BY <1>1, <1>3 DEF StartTurn, Loops
  <2>2. /\ x.at = "ended" /\ x.version = None
        /\ x.made = loop[ch].made /\ x.verdict = loop[ch].verdict
    BY <1>1 DEF Loops
  <2>3. QED
    BY <1>1, <2>1, <2>2, LoopSet
<1>4. QED
  BY <1>2, <1>3

LEMMA MakeMoves ==
  ASSUME TypeOK, NEW ch \in Chats, MakeCall(ch)
  PROVE  Moves(ch, "dispatch", loop[ch].version, loop[ch].made + 1, loop[ch].verdict)
<1>1. loop \in [Chats -> Loops] /\ loop[ch] \in Loops
  BY DEF TypeOK
<1>2. loop[ch].made + 1 \in 0..MaxCalls
  BY <1>1, ToolCallAssumption DEF MakeCall, Loops
<1>3. [loop[ch] EXCEPT !.at = "dispatch", !.made = loop[ch].made + 1] \in Loops
  BY <1>1, <1>2 DEF Loops
<1>4. loop' = [loop EXCEPT ![ch] = [[loop[ch] EXCEPT !.at = "dispatch"] EXCEPT !.made = loop[ch].made + 1]]
  BY <1>1 DEF MakeCall, Loops
<1>5. QED
  BY <1>1, <1>3, <1>4, LoopSet DEF Loops

LEMMA GotoMoves ==
  ASSUME TypeOK, NEW ch \in Chats, NEW where \in {"ready", "wait", "ended"}, Goto(ch, where)
  PROVE  Moves(ch, where, loop[ch].version, loop[ch].made, loop[ch].verdict)
<1>1. loop \in [Chats -> Loops] /\ loop[ch] \in Loops
  BY DEF TypeOK
<1>2. [loop[ch] EXCEPT !.at = where] \in Loops
  BY <1>1 DEF Loops
<1>3. QED
  BY <1>1, <1>2, LoopSet DEF Goto, Loops

LEMMA JudgeMoves ==
  ASSUME TypeOK, NEW ch \in Chats, NEW v \in Answers, Judge(ch, v)
  PROVE  Moves(ch, "record", loop[ch].version, loop[ch].made, v)
<1>1. loop \in [Chats -> Loops] /\ loop[ch] \in Loops
  BY DEF TypeOK
<1>2. [loop[ch] EXCEPT !.at = "record", !.verdict = v] \in Loops
  BY <1>1 DEF Loops
<1>3. loop' = [loop EXCEPT ![ch] = [[loop[ch] EXCEPT !.at = "record"] EXCEPT !.verdict = v]]
  BY <1>1 DEF Judge
<1>4. QED
  BY <1>1, <1>2, <1>3, LoopSet DEF Loops

LEMMA RecordMoves ==
  ASSUME TypeOK, NEW ch \in Chats, Record(ch)
  PROVE  Moves(ch, "ready", loop[ch].version, loop[ch].made, None)
<1>1. loop \in [Chats -> Loops] /\ loop[ch] \in Loops
  BY DEF TypeOK
<1>2. [loop[ch] EXCEPT !.at = "ready", !.verdict = None] \in Loops
  BY <1>1 DEF Loops
<1>3. loop' = [loop EXCEPT ![ch] = [[loop[ch] EXCEPT !.at = "ready"] EXCEPT !.verdict = None]]
  BY <1>1 DEF Record
<1>4. QED
  BY <1>1, <1>2, <1>3, LoopSet DEF Loops

\* What the desktop's steps do to its turn.
Serves(ch, at, call, reply) ==
  /\ desk' \in [Chats -> Desks]
  /\ desk'[ch].at = at /\ desk'[ch].call = call /\ desk'[ch].reply = reply
  /\ \A d \in Chats \ {ch} : desk'[d] = desk[d]

LEMMA DeskSet ==
  ASSUME desk \in [Chats -> Desks], NEW ch \in Chats, NEW x \in Desks,
         desk' = [desk EXCEPT ![ch] = x]
  PROVE  Serves(ch, x.at, x.call, x.reply)
  BY DEF Serves

LEMMA DeskGotoServes ==
  ASSUME TypeOK, NEW ch \in Chats, NEW where \in {"preview", "confirm", "write", "committed"},
         DeskGoto(ch, where)
  PROVE  Serves(ch, where, desk[ch].call, desk[ch].reply)
<1>1. desk \in [Chats -> Desks] /\ desk[ch] \in Desks
  BY DEF TypeOK
<1>2. [desk[ch] EXCEPT !.at = where] \in Desks
  BY <1>1 DEF Desks
<1>3. QED
  BY <1>1, <1>2, DeskSet DEF DeskGoto, Desks

LEMMA ReplyServes ==
  ASSUME TypeOK, NEW ch \in Chats, NEW status \in Answers, Reply(ch, status)
  PROVE  Serves(ch, "post", desk[ch].call, status)
<1>1. desk \in [Chats -> Desks] /\ desk[ch] \in Desks
  BY DEF TypeOK
<1>2. [desk[ch] EXCEPT !.at = "post", !.reply = status] \in Desks
  BY <1>1 DEF Desks
<1>3. desk' = [desk EXCEPT ![ch] = [[desk[ch] EXCEPT !.at = "post"] EXCEPT !.reply = status]]
  BY <1>1 DEF Reply
<1>4. QED
  BY <1>1, <1>2, <1>3, DeskSet DEF Desks

LEMMA DeskLeaves ==
  ASSUME TypeOK, NEW ch \in Chats, NEW where \in {"idle", "gone"},
         desk' = [desk EXCEPT ![ch] = [at |-> where, call |-> None, reply |-> None]]
  PROVE  Serves(ch, where, None, None)
<1>1. desk \in [Chats -> Desks] /\ [at |-> where, call |-> None, reply |-> None] \in Desks
  BY DEF TypeOK, Desks
<1>2. QED
  BY <1>1, DeskSet

-----------------------------------------------------------------------------
\* Calls.

LEMMA CallParts ==
  ASSUME NEW c \in Calls
  PROVE  c[1] \in Chats /\ c[2] \in 1..MaxCalls /\ c = <<c[1], c[2]>> /\ c # None
  BY NoCallAssumption DEF Calls

LEMMA CurrentCall ==
  ASSUME TypeOK, NEW ch \in Chats, loop[ch].made > 0
  PROVE  CallOf(ch) \in Calls /\ CallOf(ch)[1] = ch /\ CallOf(ch)[2] = loop[ch].made
<1>1. loop[ch].made \in 0..MaxCalls
  BY DEF TypeOK, Loops
<1>2. loop[ch].made \in 1..MaxCalls
  BY <1>1, ToolCallAssumption
<1>3. QED
  BY <1>2 DEF CallOf, Calls

LEMMA ServedCall ==
  ASSUME TypeOK, NEW ch \in Chats, DeskInv(ch), desk[ch].at \notin {"idle", "gone"}
  PROVE  desk[ch].call \in Calls /\ desk[ch].call[1] = ch
<1>1. desk[ch].call \in Calls \cup {None}
  BY DEF TypeOK, Desks
<1>2. QED
  BY <1>1 DEF DeskInv

\* The audit log after a step that may have added to it.
LEMMA AuditGrows ==
  ASSUME TypeOK, NEW ch \in Chats, loop[ch].made > 0,
         NEW status \in Answers \cup {"denied"}, Audited(ch, status)
  PROVE  /\ audit' \in Seq([call : Calls, status : Answers \cup {"denied"}])
         /\ Len(audit) \in Nat
         /\ \A i \in 1..Len(audit) : audit'[i] = audit[i]
         /\ \/ audit' = audit
            \/ /\ Len(audit') = Len(audit) + 1
               /\ audit'[Len(audit) + 1].call = CallOf(ch)
               /\ audit'[Len(audit) + 1].status = status
<1>1. [call |-> CallOf(ch), status |-> status] \in [call : Calls, status : Answers \cup {"denied"}]
  BY CurrentCall
<1>2. audit \in Seq([call : Calls, status : Answers \cup {"denied"}])
  BY DEF TypeOK
<1> DEFINE e == [call |-> CallOf(ch), status |-> status]
           S == [call : Calls, status : Answers \cup {"denied"}]
<1>3. e.call = CallOf(ch) /\ e.status = status
  OBVIOUS
<1>4. audit' = Append(audit, e) \/ audit' = audit
  BY DEF Audited
<1>5. audit \in Seq(S) /\ e \in S
  BY <1>1, <1>2
<1> HIDE DEF e, S
<1>6. audit' \in Seq(S) /\ Len(audit) \in Nat /\ \A i \in 1..Len(audit) : audit'[i] = audit[i]
  BY <1>4, <1>5
<1>7. audit' = audit \/ (Len(audit') = Len(audit) + 1 /\ audit'[Len(audit) + 1] = e)
  BY <1>4, <1>5
<1>8. QED
  BY <1>3, <1>6, <1>7 DEF S

\* What the desktop's steps between taking a request and posting its answer do.
Outcome(ch, at, reply) ==
  \/ /\ at \in {"preview", "confirm", "write"} /\ reply = desk[ch].reply
     /\ desk[ch].at \in {"check", "preview", "confirm"}
     /\ desk[ch].at = "check" => loop[ch].version \in Published
     /\ UNCHANGED <<wrote, inflight>>
  \/ /\ at = "post" /\ reply \in Negative
     /\ desk[ch].at \in {"check", "preview", "confirm", "write"}
     /\ UNCHANGED <<wrote, inflight>>
  \/ /\ at = "post" /\ reply \in {"succeeded", "unknown"} /\ desk[ch].at = "committed"
     /\ UNCHANGED <<wrote, inflight>>
  \/ /\ at = "committed" /\ reply = desk[ch].reply /\ desk[ch].at = "write"
     /\ wrote' = wrote \cup {desk[ch].call} /\ UNCHANGED inflight
  \/ /\ at = "post" /\ reply = "unknown" /\ desk[ch].at = "write"
     /\ inflight' = inflight \cup {desk[ch].call} /\ UNCHANGED wrote

ServeStep(ch) ==
  \/ CheckApproval(ch) \/ Preview(ch) \/ Accept(ch) \/ Decline(ch)
  \/ Commit(ch) \/ WriteFails(ch) \/ OutcomeLost(ch) \/ Committed(ch)

LEMMA ServeOutcome ==
  ASSUME TypeOK, NEW ch \in Chats, ServeStep(ch)
  PROVE  /\ UNCHANGED <<backendVars, bridgeVars, connected, stream>>
         /\ \E at, reply : Serves(ch, at, desk[ch].call, reply) /\ Outcome(ch, at, reply)
<1>0. Negative \subseteq Answers /\ {"failed", "cancelled", "source_conflict"} = Negative
      /\ "succeeded" \in Answers /\ "unknown" \in Answers
  BY DEF Negative, Answers
<1>1. CASE CheckApproval(ch)
  BY <1>0, <1>1, DeskGotoServes, ReplyServes DEF CheckApproval, Outcome
<1>2. CASE Preview(ch)
  BY <1>0, <1>2, DeskGotoServes, ReplyServes DEF Preview, Outcome
<1>3. CASE Accept(ch)
  BY <1>0, <1>3, DeskGotoServes DEF Accept, Outcome
<1>4. CASE Decline(ch)
  BY <1>0, <1>4, ReplyServes DEF Decline, Outcome
<1>5. CASE Commit(ch)
  BY <1>0, <1>5, DeskGotoServes DEF Commit, Outcome
<1>6. CASE WriteFails(ch)
  BY <1>0, <1>6, ReplyServes DEF WriteFails, Outcome
<1>7. CASE OutcomeLost(ch)
  BY <1>0, <1>7, ReplyServes DEF OutcomeLost, Outcome
<1>8. CASE Committed(ch)
  BY <1>0, <1>8, ReplyServes DEF Committed, Outcome
<1>9. QED
  BY <1>1, <1>2, <1>3, <1>4, <1>5, <1>6, <1>7, <1>8 DEF ServeStep

\* Every other loop step leaves the desktop, the source and the tables alone.
QuietStep(ch) ==
  \/ StartTurn(ch) \/ MakeCall(ch) \/ EndTurn(ch)
  \/ Refuse(ch) \/ WaitEnds(ch) \/ Record(ch)

LEMMA QuietLeaves ==
  ASSUME NEW ch \in Chats, QuietStep(ch)
  PROVE  UNCHANGED <<registryVars, allowed, answer, desktopVars>> /\ pending' \subseteq pending
<1>1. CASE StartTurn(ch) \/ MakeCall(ch) \/ EndTurn(ch)
  BY <1>1 DEF StartTurn, MakeCall, EndTurn, bridgeVars
<1>2. CASE Refuse(ch) \/ Record(ch)
  BY <1>2 DEF Refuse, Record, bridgeVars
<1>3. CASE WaitEnds(ch)
  BY <1>3 DEF WaitEnds, Receive, ClientGone, TimedOut, Judge
<1>4. QED
  BY <1>1, <1>2, <1>3 DEF QuietStep

\* How a wait ends: with the answer, or with a guess.
LEMMA WaitJudges ==
  ASSUME TypeOK, NEW ch \in Chats, LoopInv(ch), WaitEnds(ch)
  PROVE  /\ loop[ch].at = "wait" /\ CallOf(ch) \in Calls /\ pending' = pending \ {CallOf(ch)}
         /\ UNCHANGED <<audit, released, late>>
         /\ \E v \in Answers :
              /\ Moves(ch, "record", loop[ch].version, loop[ch].made, v)
              /\ \/ v = "unknown"
                 \/ v = "cancelled" /\ ~connected[ch]
                 \/ v = answer[CallOf(ch)]
<1>0. loop[ch].at = "wait" /\ CallOf(ch) \in Calls
  BY CurrentCall DEF WaitEnds, Receive, ClientGone, TimedOut, LoopInv
<1>1. CASE Receive(ch)
  <2>1. answer[CallOf(ch)] \in Answers
    BY <1>0, <1>1 DEF Receive, TypeOK
  <2>2. QED
    BY <1>0, <1>1, <2>1, JudgeMoves DEF Receive, Judge
<1>2. CASE ClientGone(ch)
  BY <1>0, <1>2, JudgeMoves DEF ClientGone, Judge, Answers, Negative
<1>3. CASE TimedOut(ch)
  BY <1>0, <1>3, JudgeMoves DEF TimedOut, Judge, Answers
<1>4. QED
  BY <1>1, <1>2, <1>3 DEF WaitEnds

-----------------------------------------------------------------------------
\* Types.

\* What a step must leave of the rest for TypeOK to hold after it.
LEMMA LoopTypes ==
  ASSUME TypeOK, NEW ch \in Chats, QuietStep(ch),
         loop' \in [Chats -> Loops], \A d \in Chats \ {ch} : loop'[d] = loop[d],
         \A c \in pending' : c[1] # ch,
         audit' \in Seq([call : Calls, status : Answers \cup {"denied"}]),
         released' \subseteq Calls, late' \subseteq Calls \X {"revoked", "withdrawn"}
  PROVE  TypeOK'
<1>1. UNCHANGED <<registryVars, allowed, answer, desktopVars>> /\ pending' \subseteq pending
  BY QuietLeaves
<1>2. RegistryTypeOK'
  BY <1>1 DEF TypeOK, RegistryTypeOK, registryVars
<1>3. \A c \in pending' : loop'[c[1]].at = "wait" /\ c = <<c[1], loop'[c[1]].made>> /\ answer'[c] = None
  BY <1>1, CallParts DEF TypeOK, CallOf
<1>4. QED
  BY <1>1, <1>2, <1>3 DEF TypeOK, desktopVars, CallOf

\* Nothing of a turn is registered while its agent does not wait.
LEMMA NotWaiting ==
  ASSUME TypeOK, NEW ch \in Chats, loop[ch].at # "wait"
  PROVE  \A c \in pending : c[1] # ch
  BY DEF TypeOK

LEMMA QuietTypes ==
  ASSUME TypeOK, NEW ch \in Chats, LoopInv(ch), QuietStep(ch)
  PROVE  TypeOK'
<1>1. pending' \subseteq pending
  BY QuietLeaves
<1>2. CASE StartTurn(ch) \/ EndTurn(ch)
  <2>1. \A c \in pending' : c[1] # ch
    BY <1>1, <1>2, NotWaiting DEF StartTurn, EndTurn
  <2>2. loop' \in [Chats -> Loops] /\ \A d \in Chats \ {ch} : loop'[d] = loop[d]
    BY <1>2, StartMoves, GotoMoves DEF EndTurn, Moves
  <2>3. UNCHANGED <<audit, released, late>>
    BY <1>2 DEF StartTurn, EndTurn
  <2>4. QED
    BY <2>1, <2>2, <2>3, LoopTypes DEF TypeOK
<1>3. CASE MakeCall(ch)
  <2>1. \A c \in pending' : c[1] # ch
    BY <1>1, <1>3, NotWaiting DEF MakeCall
  <2>2. Moves(ch, "dispatch", loop[ch].version, loop[ch].made + 1, loop[ch].verdict)
    BY <1>3, MakeMoves
  <2>3. loop'[ch].made \in 1..MaxCalls
    BY <1>3, <2>2, ToolCallAssumption DEF Moves, TypeOK, Loops, MakeCall
  <2>4. late' \subseteq Calls \X {"revoked", "withdrawn"}
    <3>1. CallOf(ch)' \in Calls
      BY <2>3 DEF CallOf, Calls
    <3>2. QED
      BY <1>3, <3>1 DEF MakeCall, TypeOK
  <2>5. UNCHANGED <<audit, released>>
    BY <1>3 DEF MakeCall
  <2>6. QED
    BY <2>1, <2>2, <2>4, <2>5, LoopTypes DEF TypeOK, Moves
<1>4. CASE Refuse(ch)
  <2>1. \A c \in pending' : c[1] # ch
    BY <1>1, <1>4, NotWaiting DEF Refuse
  <2>2. Moves(ch, "ready", loop[ch].version, loop[ch].made, loop[ch].verdict)
    BY <1>4, GotoMoves DEF Refuse
  <2>3. Audited(ch, "denied") \/ Audited(ch, "failed")
    BY <1>4 DEF Refuse
  <2>4. audit' \in Seq([call : Calls, status : Answers \cup {"denied"}])
    BY <1>4, <2>3, AuditGrows DEF Refuse, LoopInv, Answers, Negative
  <2>5. UNCHANGED <<released, late>>
    BY <1>4 DEF Refuse
  <2>6. QED
    BY <2>1, <2>2, <2>4, <2>5, LoopTypes DEF TypeOK, Moves
<1>5. CASE WaitEnds(ch)
  <2>1. \A c \in pending : c[1] = ch => c = CallOf(ch)
    BY DEF TypeOK
  <2>2. pending' = pending \ {CallOf(ch)} /\ UNCHANGED <<audit, released, late>>
    BY <1>5, WaitJudges
  <2>3. loop' \in [Chats -> Loops] /\ \A d \in Chats \ {ch} : loop'[d] = loop[d]
    BY <1>5, WaitJudges DEF Moves
  <2>4. \A c \in pending' : c[1] # ch
    BY <2>1, <2>2
  <2>5. QED
    BY <2>2, <2>3, <2>4, LoopTypes DEF TypeOK
<1>6. CASE Record(ch)
  <2>1. \A c \in pending' : c[1] # ch
    BY <1>1, <1>6, NotWaiting DEF Record
  <2>2. Moves(ch, "ready", loop[ch].version, loop[ch].made, None)
    BY <1>6, RecordMoves
  <2>3. loop[ch].made > 0 /\ CallOf(ch) \in Calls
    BY <1>6, CurrentCall DEF Record, LoopInv
  <2>4. loop[ch].verdict \in Answers
    BY <1>6 DEF Record, LoopInv, TypeOK, Loops
  <2>5. audit' \in Seq([call : Calls, status : Answers \cup {"denied"}])
    BY <1>6, <2>3, <2>4, AuditGrows DEF Record
  <2>6. released' \subseteq Calls /\ UNCHANGED late
    BY <1>6, <2>3 DEF Record, TypeOK
  <2>7. QED
    BY <2>1, <2>2, <2>5, <2>6, LoopTypes DEF TypeOK, Moves
<1>7. QED
  BY <1>2, <1>3, <1>4, <1>5, <1>6 DEF QuietStep

\* The steps of the desktop, and what happens to it, leave the backend alone.
LEMMA DesktopTypes ==
  ASSUME TypeOK, UNCHANGED backendVars,
         desk' \in [Chats -> Desks], wrote' \cup inflight' \subseteq Calls,
         connected' \in [Chats -> BOOLEAN], stream' \in [Chats -> Seq(Calls)],
         answer' \in [Calls -> Answers \cup {None}],
         pending' \subseteq pending, \A c \in pending' : answer'[c] = answer[c]
  PROVE  TypeOK'
<1>1. UNCHANGED <<registryVars, allowed, loop, audit, released, late>>
  BY DEF backendVars
<1>2. RegistryTypeOK'
  BY <1>1 DEF TypeOK, RegistryTypeOK, registryVars
<1>3. QED
  BY <1>1, <1>2 DEF TypeOK, CallOf

LEMMA InvokeTypes ==
  ASSUME TypeOK, NEW ch \in Chats, LoopInv(ch), answer[CallOf(ch)] = None, Invoke(ch)
  PROVE  TypeOK'
<1>1. CallOf(ch) \in Calls /\ CallOf(ch) = <<ch, loop[ch].made>>
  BY CurrentCall DEF Invoke, LoopInv, CallOf
<1>2. Moves(ch, "wait", loop[ch].version, loop[ch].made, loop[ch].verdict)
  BY GotoMoves DEF Invoke
<1>3. stream' \in [Chats -> Seq(Calls)]
  <2>1. stream[ch] \in Seq(Calls)
    BY DEF TypeOK
  <2>2. Append(stream[ch], CallOf(ch)) \in Seq(Calls)
    BY <1>1, <2>1
  <2>3. stream' = [stream EXCEPT ![ch] = Append(stream[ch], CallOf(ch))]
    BY DEF Invoke, TypeOK
  <2>4. QED
    BY <2>2, <2>3 DEF TypeOK
<1>4. UNCHANGED <<registryVars, allowed, answer, audit, released, connected, desk, wrote, inflight, late>>
  BY DEF Invoke
<1>5. RegistryTypeOK'
  BY <1>4 DEF TypeOK, RegistryTypeOK, registryVars
<1>6. pending' = pending \cup {CallOf(ch)}
  BY DEF Invoke
<1>7. \A c \in pending' : loop'[c[1]].at = "wait" /\ c = <<c[1], loop'[c[1]].made>> /\ answer'[c] = None
  <2>1. SUFFICES ASSUME NEW c \in pending'
                 PROVE  loop'[c[1]].at = "wait" /\ c = <<c[1], loop'[c[1]].made>> /\ answer'[c] = None
    OBVIOUS
  <2>2. CASE c = CallOf(ch)
    BY <1>1, <1>2, <1>4, <2>2 DEF Moves
  <2>3. CASE c \in pending
    <3>1. c \in Calls /\ c[1] \in Chats /\ c[1] # ch
      BY <2>3, CallParts, NotWaiting DEF TypeOK, Invoke
    <3>2. loop'[c[1]] = loop[c[1]]
      BY <1>2, <3>1 DEF Moves
    <3>3. QED
      BY <1>4, <2>3, <3>2 DEF TypeOK, CallOf
  <2>4. QED
    BY <1>6, <2>2, <2>3
<1>8. QED
  BY <1>1, <1>2, <1>3, <1>4, <1>5, <1>6, <1>7 DEF TypeOK, CallOf, Moves

LEMMA TakeTypes ==
  ASSUME TypeOK, NEW ch \in Chats, Take(ch)
  PROVE  /\ TypeOK'
         /\ Serves(ch, "check", Head(stream[ch]), desk[ch].reply)
         /\ stream'[ch] = Tail(stream[ch])
         /\ \A d \in Chats \ {ch} : stream'[d] = stream[d]
<1>1. stream[ch] \in Seq(Calls) /\ stream[ch] # <<>>
  BY DEF TypeOK, Take
<1>2. Head(stream[ch]) \in Calls /\ Tail(stream[ch]) \in Seq(Calls)
  BY <1>1
<1>3. stream' = [stream EXCEPT ![ch] = Tail(stream[ch])]
  BY DEF Take, TypeOK
<1>4. desk[ch] \in Desks /\ desk \in [Chats -> Desks]
  BY DEF TypeOK
<1>5. [desk[ch] EXCEPT !.at = "check", !.call = Head(stream[ch])] \in Desks
  BY <1>2, <1>4 DEF Desks
<1>6. desk' = [desk EXCEPT ![ch] = [[desk[ch] EXCEPT !.at = "check"] EXCEPT !.call = Head(stream[ch])]]
  BY <1>4 DEF Take
<1>7. Serves(ch, "check", Head(stream[ch]), desk[ch].reply)
  BY <1>4, <1>5, <1>6, DeskSet DEF Desks
<1>8. stream' \in [Chats -> Seq(Calls)] /\ stream'[ch] = Tail(stream[ch])
      /\ \A d \in Chats \ {ch} : stream'[d] = stream[d]
  BY <1>2, <1>3 DEF TypeOK
<1>9. QED
  BY <1>7, <1>8, DesktopTypes DEF Take, Serves, TypeOK, bridgeVars

LEMMA ServeTypes ==
  ASSUME TypeOK, NEW ch \in Chats, DeskInv(ch), ServeStep(ch)
  PROVE  TypeOK'
<1>1. PICK at, reply : Serves(ch, at, desk[ch].call, reply) /\ Outcome(ch, at, reply)
  BY ServeOutcome
<1>2. UNCHANGED <<backendVars, bridgeVars, connected, stream>>
  BY ServeOutcome
<1>3. desk[ch].call \in Calls
  BY <1>1, ServedCall DEF Outcome
<1>4. wrote' \cup inflight' \subseteq Calls
  BY <1>1, <1>3 DEF Outcome, TypeOK
<1>5. QED
  BY <1>1, <1>2, <1>4, DesktopTypes DEF Serves, TypeOK, bridgeVars

LEMMA PostTypes ==
  ASSUME TypeOK, NEW ch \in Chats, DeskInv(ch), Post(ch)
  PROVE  TypeOK' /\ Serves(ch, "idle", None, None)
<1>1. Serves(ch, "idle", None, None)
  BY DeskLeaves DEF Post
<1>2. desk[ch].reply \in Answers
  BY DEF Post, DeskInv, TypeOK, Desks
<1>3. answer' \in [Calls -> Answers \cup {None}] /\ pending' \subseteq pending
      /\ \A c \in pending' : answer'[c] = answer[c]
  BY <1>2 DEF Post, TypeOK, bridgeVars
<1>4. QED
  BY <1>1, <1>3, DesktopTypes DEF Post, Serves, TypeOK

LEMMA CutTypes ==
  ASSUME TypeOK, NEW ch \in Chats, DeskInv(ch), Disconnect(ch) \/ DesktopDies(ch)
  PROVE  /\ TypeOK'
         /\ DesktopDies(ch) => Serves(ch, "gone", None, None)
         /\ \A d \in Chats : stream'[d] = stream[d] \/ (d = ch /\ stream'[d] = <<>>)
         /\ connected'[ch] = FALSE /\ \A d \in Chats \ {ch} : connected'[d] = connected[d]
<1>1. connected' \in [Chats -> BOOLEAN] /\ connected'[ch] = FALSE
      /\ \A d \in Chats \ {ch} : connected'[d] = connected[d]
  BY DEF Disconnect, DesktopDies, TypeOK
<1>2. stream' \in [Chats -> Seq(Calls)]
      /\ \A d \in Chats : stream'[d] = stream[d] \/ (d = ch /\ stream'[d] = <<>>)
  <2>1. stream' \in {stream, [stream EXCEPT ![ch] = <<>>]}
    BY DEF Disconnect, DesktopDies
  <2>2. <<>> \in Seq(Calls) /\ stream \in [Chats -> Seq(Calls)]
    BY DEF TypeOK
  <2> DEFINE S == Seq(Calls)
             empty == << >>
  <2>3. empty \in S /\ stream \in [Chats -> S] /\ stream' \in {stream, [stream EXCEPT ![ch] = empty]}
    BY <2>1, <2>2
  <2> HIDE DEF S, empty
  <2>4. stream' \in [Chats -> S] /\ \A d \in Chats : stream'[d] = stream[d] \/ (d = ch /\ stream'[d] = empty)
    BY <2>3
  <2>5. QED
    BY <2>4 DEF S, empty
<1>3. ASSUME DesktopDies(ch) PROVE Serves(ch, "gone", None, None)
  BY <1>3, DeskLeaves DEF DesktopDies
<1>4. CASE Disconnect(ch)
  <2>1. TypeOK'
    BY <1>1, <1>2, <1>4, DesktopTypes DEF Disconnect, TypeOK, bridgeVars
  <2>2. QED
    BY <1>1, <1>2, <1>3, <2>1
<1>5. CASE DesktopDies(ch)
  <2>1. wrote' \cup inflight' \subseteq Calls
    BY <1>5, ServedCall DEF DesktopDies, TypeOK
  <2>2. TypeOK'
    BY <1>1, <1>2, <1>3, <1>5, <2>1, DesktopTypes DEF DesktopDies, Serves, TypeOK, bridgeVars
  <2>3. QED
    BY <1>1, <1>2, <1>3, <2>2
<1>6. QED
  BY <1>4, <1>5

LEMMA LateCommitTypes ==
  ASSUME TypeOK, NEW c \in Calls, LateCommit(c)
  PROVE  TypeOK'
  BY DesktopTypes DEF LateCommit, TypeOK, bridgeVars

LEMMA AdministratorTypes ==
  ASSUME TypeOK, RequestsExist, RegistryStep \/ PolicyEdit
  PROVE  TypeOK' /\ RequestsExist'
<1>1. CASE RegistryStep
  BY <1>1, StepKeepsRows DEF RegistryStep, TypeOK, callVars, bridgeVars, desktopVars, CallOf
<1>2. CASE PolicyEdit
  <2>1. RegistryTypeOK' /\ RequestsExist'
    BY <1>2 DEF PolicyEdit, TypeOK, RegistryTypeOK, registryVars, RequestsExist
  <2>2. QED
    BY <1>2, <2>1 DEF PolicyEdit, TypeOK, bridgeVars, desktopVars, CallOf
<1>3. QED
  BY <1>1, <1>2

-----------------------------------------------------------------------------
\* What no step undoes.

LEMMA TailElems ==
  ASSUME NEW S, NEW s \in Seq(S), s # <<>>, Distinct(s)
  PROVE  /\ Head(s) \in Elems(s) /\ Elems(Tail(s)) \subseteq Elems(s)
         /\ Head(s) \notin Elems(Tail(s)) /\ Distinct(Tail(s))
<1>1. Len(s) \in Nat /\ Len(s) >= 1 /\ Len(Tail(s)) = Len(s) - 1 /\ Head(s) = s[1]
      /\ \A i \in 1..Len(Tail(s)) : Tail(s)[i] = s[i + 1]
  OBVIOUS
<1>2. \A i \in 1..Len(Tail(s)) : i + 1 \in 1..Len(s) /\ i + 1 # 1
  BY <1>1
<1>3. QED
  BY <1>1, <1>2 DEF Elems, Distinct

LEMMA AppendElems ==
  ASSUME NEW S, NEW s \in Seq(S), NEW e \in S
  PROVE  /\ Elems(Append(s, e)) = Elems(s) \cup {e}
         /\ Distinct(s) /\ e \notin Elems(s) => Distinct(Append(s, e))
<1>1. Len(s) \in Nat /\ Len(Append(s, e)) = Len(s) + 1 /\ Append(s, e)[Len(s) + 1] = e
      /\ \A i \in 1..Len(s) : Append(s, e)[i] = s[i]
  OBVIOUS
<1>2. 1..(Len(s) + 1) = 1..Len(s) \cup {Len(s) + 1}
  BY <1>1
<1>3. QED
  BY <1>1, <1>2 DEF Elems, Distinct

LEMMA EmptyElems == Elems(<<>>) = {} /\ Distinct(<<>>)
  BY DEF Elems, Distinct

\* Calls are made, sent or refused, and ended, in this order.
Progress == \A c \in Calls : (Unsent(c)' => Unsent(c)) /\ (Past(c) => Past(c)')

LEMMA MovesProgress ==
  ASSUME TypeOK, NEW ch \in Chats, NEW at, NEW version, NEW made \in Nat, NEW verdict,
         Moves(ch, at, version, made, verdict),
         made = loop[ch].made \/ made = loop[ch].made + 1,
         at = "dispatch" => made = loop[ch].made + 1,
         loop[ch].at \in {"ready", "ended"} => at = "ended" \/ made = loop[ch].made + 1
  PROVE  Progress
<1> SUFFICES ASSUME NEW c \in Calls PROVE (Unsent(c)' => Unsent(c)) /\ (Past(c) => Past(c)')
  BY DEF Progress
<1>1. c[1] \in Chats /\ c[2] \in Nat /\ loop[ch].made \in Nat
  BY CallParts, ToolCallAssumption DEF TypeOK, Loops
<1>2. CASE c[1] = ch
  BY <1>1, <1>2 DEF Moves, Unsent, Past
<1>3. CASE c[1] # ch
  BY <1>1, <1>3 DEF Moves, Unsent, Past
<1>4. QED
  BY <1>2, <1>3

LEMMA LoopProgress ==
  ASSUME TypeOK, NEW ch \in Chats, LoopInv(ch), QuietStep(ch) \/ Invoke(ch)
  PROVE  Progress
<1>1. loop[ch].made \in Nat /\ loop[ch].made + 1 \in Nat
  BY ToolCallAssumption DEF TypeOK, Loops
<1>2. CASE StartTurn(ch)
  BY <1>1, <1>2, StartMoves, MovesProgress DEF StartTurn
<1>3. CASE MakeCall(ch)
  BY <1>1, <1>3, MakeMoves, MovesProgress
<1>4. CASE EndTurn(ch)
  BY <1>1, <1>4, GotoMoves, MovesProgress DEF EndTurn
<1>5. CASE Refuse(ch)
  BY <1>1, <1>5, GotoMoves, MovesProgress DEF Refuse
<1>6. CASE Invoke(ch)
  BY <1>1, <1>6, GotoMoves, MovesProgress DEF Invoke
<1>7. CASE WaitEnds(ch)
  BY <1>1, <1>7, WaitJudges, MovesProgress
<1>8. CASE Record(ch)
  BY <1>1, <1>8, RecordMoves, MovesProgress DEF Record
<1>9. QED
  BY <1>2, <1>3, <1>4, <1>5, <1>6, <1>7, <1>8 DEF QuietStep

LEMMA IdleProgress == ASSUME UNCHANGED loop PROVE Progress
  BY DEF Progress, Unsent, Past

\* A write stays, a connection that broke stays broken, and what is closed stays
\* closed, but for the call that is sent.
Settles ==
  /\ wrote \subseteq wrote'
  /\ \A ch \in Chats : connected'[ch] => connected[ch]
  /\ \A c \in Calls : Closed(c) => Closed(c)' \/ (Unsent(c) /\ c \in pending')

LEMMA IdleSettles ==
  ASSUME UNCHANGED <<connected, stream, desk, wrote, inflight>>
  PROVE  Settles
  BY DEF Settles, Closed

LEMMA InvokeSettles ==
  ASSUME TypeOK, NEW ch \in Chats, LoopInv(ch), Invoke(ch)
  PROVE  Settles
<1>1. CallOf(ch) \in Calls /\ CallOf(ch)[1] = ch /\ CallOf(ch)[2] = loop[ch].made
  BY CurrentCall DEF Invoke, LoopInv
<1>2. stream[ch] \in Seq(Calls) /\ stream'[ch] = Append(stream[ch], CallOf(ch))
      /\ \A d \in Chats \ {ch} : stream'[d] = stream[d]
  BY DEF Invoke, TypeOK
<1>3. ASSUME NEW d \in Chats PROVE Elems(stream'[d]) \subseteq Elems(stream[d]) \cup {CallOf(ch)}
  <2>1. Elems(Append(stream[ch], CallOf(ch))) = Elems(stream[ch]) \cup {CallOf(ch)}
    BY <1>1, <1>2, AppendElems
  <2>2. QED
    BY <1>2, <2>1
<1>4. UNCHANGED <<connected, desk, wrote, inflight>>
  BY DEF Invoke
<1>5. \A c \in Calls : Closed(c) => Closed(c)' \/ c = CallOf(ch)
  BY <1>3, <1>4, CallParts DEF Closed
<1>6. Unsent(CallOf(ch)) /\ CallOf(ch) \in pending'
  BY <1>1 DEF Invoke, Unsent
<1>7. QED
  BY <1>4, <1>5, <1>6 DEF Settles

\* A desktop that serves or takes no closed call opens none.
LEMMA DesktopSettles ==
  ASSUME TypeOK, NEW ch \in Chats, NEW at, NEW call, NEW reply, Serves(ch, at, call, reply),
         wrote \subseteq wrote',
         \A d \in Chats : connected'[d] => connected[d],
         \A d \in Chats : Elems(stream'[d]) \subseteq Elems(stream[d]),
         \A c \in Calls : c[1] = ch /\ Closed(c) => call # c,
         \A c \in Calls : Closed(c) => c \notin wrote' \cup inflight'
  PROVE  Settles
<1>1. ASSUME NEW c \in Calls, Closed(c) PROVE Closed(c)'
  <2>1. c[1] \in Chats
    BY CallParts
  <2>2. c \notin Elems(stream'[c[1]])
    BY <1>1, <2>1 DEF Closed
  <2>3. desk'[c[1]].call = c => desk'[c[1]].at = "post"
    BY <1>1, <2>1 DEF Serves, Closed
  <2>4. QED
    BY <1>1, <2>2, <2>3 DEF Closed
<1>2. QED
  BY <1>1 DEF Settles

LEMMA TakeSettles ==
  ASSUME TypeOK, NEW ch \in Chats, StreamInv(ch), Take(ch)
  PROVE  Settles
<1>1. stream[ch] \in Seq(Calls) /\ stream[ch] # <<>>
  BY DEF TypeOK, Take
<1>2. Serves(ch, "check", Head(stream[ch]), desk[ch].reply) /\ stream'[ch] = Tail(stream[ch])
      /\ \A d \in Chats \ {ch} : stream'[d] = stream[d]
  BY TakeTypes
<1>3. Head(stream[ch]) \in Elems(stream[ch]) /\ Elems(Tail(stream[ch])) \subseteq Elems(stream[ch])
  BY <1>1, TailElems DEF StreamInv
<1>4. \A d \in Chats : Elems(stream'[d]) \subseteq Elems(stream[d])
  BY <1>2, <1>3
<1>5. \A c \in Calls : c[1] = ch /\ Closed(c) => Head(stream[ch]) # c
  BY <1>3 DEF Closed
<1>6. UNCHANGED <<connected, wrote, inflight>>
  BY DEF Take
<1>7. QED
  BY <1>2, <1>4, <1>5, <1>6, DesktopSettles DEF Closed

\* A call the desktop still works on is not closed.
LEMMA ServedIsOpen ==
  ASSUME TypeOK, NEW ch \in Chats, DeskInv(ch), desk[ch].at \notin {"idle", "gone", "post"},
         NEW c \in Calls, Closed(c)
  PROVE  c # desk[ch].call
  BY ServedCall DEF Closed

LEMMA ServeSettles ==
  ASSUME TypeOK, NEW ch \in Chats, DeskInv(ch), ServeStep(ch)
  PROVE  Settles
<1>1. PICK at, reply : Serves(ch, at, desk[ch].call, reply) /\ Outcome(ch, at, reply)
  BY ServeOutcome
<1>2. UNCHANGED <<connected, stream>>
  BY ServeOutcome
<1>3. \A c \in Calls : Closed(c) => c # desk[ch].call
  BY <1>1, ServedIsOpen DEF Outcome
<1>4. wrote \subseteq wrote' /\ wrote' \cup inflight' \subseteq wrote \cup inflight \cup {desk[ch].call}
  BY <1>1 DEF Outcome
<1>5. \A c \in Calls : Closed(c) => c \notin wrote' \cup inflight'
  BY <1>3, <1>4 DEF Closed
<1>6. QED
  BY <1>1, <1>2, <1>3, <1>4, <1>5, DesktopSettles

LEMMA PostSettles ==
  ASSUME TypeOK, NEW ch \in Chats, DeskInv(ch), Post(ch)
  PROVE  Settles
<1>1. Serves(ch, "idle", None, None)
  BY PostTypes
<1>2. UNCHANGED <<connected, stream, wrote, inflight>>
  BY DEF Post
<1>3. \A c \in Calls : c # None
  BY CallParts
<1>4. \A c \in Calls : Closed(c) => c \notin wrote' \cup inflight'
  BY <1>2 DEF Closed
<1>5. QED
  BY <1>1, <1>2, <1>3, <1>4, DesktopSettles

LEMMA CutSettles ==
  ASSUME TypeOK, NEW ch \in Chats, DeskInv(ch), Disconnect(ch) \/ DesktopDies(ch)
  PROVE  Settles
<1>1. \A d \in Chats : Elems(stream'[d]) \subseteq Elems(stream[d])
  BY CutTypes, EmptyElems
<1>2. \A d \in Chats : connected'[d] => connected[d]
  BY CutTypes
<1>3. CASE Disconnect(ch)
  BY <1>1, <1>2, <1>3, CallParts DEF Disconnect, Settles, Closed
<1>4. CASE DesktopDies(ch)
  <2>1. Serves(ch, "gone", None, None) /\ wrote' = wrote
    BY <1>4, CutTypes DEF DesktopDies
  <2>2. \A c \in Calls : c # None
    BY CallParts
  <2>3. \A c \in Calls : Closed(c) => c \notin wrote' \cup inflight'
    BY <1>4, ServedIsOpen DEF DesktopDies, Closed
  <2>4. QED
    BY <1>1, <1>2, <2>1, <2>2, <2>3, DesktopSettles
<1>5. QED
  BY <1>3, <1>4

LEMMA LateCommitSettles ==
  ASSUME TypeOK, NEW c \in Calls, LateCommit(c)
  PROVE  Settles
  BY DEF LateCommit, Settles, Closed

LEMMA StepSettles ==
  ASSUME TypeOK, \A ch \in Chats : TurnInv(ch), [Next]_vars
  PROVE  Progress /\ Settles
<1>1. ASSUME NEW ch \in Chats, QuietStep(ch) \/ Invoke(ch) PROVE Progress /\ Settles
  <2>1. Progress
    BY <1>1, LoopProgress DEF TurnInv
  <2>2. CASE QuietStep(ch)
    BY <2>1, <2>2, QuietLeaves, IdleSettles DEF desktopVars
  <2>3. CASE Invoke(ch)
    BY <2>1, <2>3, InvokeSettles DEF TurnInv
  <2>4. QED
    BY <1>1, <2>2, <2>3
<1>2. ASSUME NEW ch \in Chats, Take(ch) PROVE Progress /\ Settles
  BY <1>2, TakeSettles, IdleProgress DEF Take, backendVars, TurnInv
<1>3. ASSUME NEW ch \in Chats, ServeStep(ch) PROVE Progress /\ Settles
  <2>1. UNCHANGED loop
    BY <1>3, ServeOutcome DEF backendVars
  <2>2. QED
    BY <1>3, <2>1, ServeSettles, IdleProgress DEF TurnInv
<1>4. ASSUME NEW ch \in Chats, Post(ch) PROVE Progress /\ Settles
  BY <1>4, PostSettles, IdleProgress DEF Post, backendVars, TurnInv
<1>5. ASSUME NEW ch \in Chats, Disconnect(ch) \/ DesktopDies(ch) PROVE Progress /\ Settles
  BY <1>5, CutSettles, IdleProgress DEF Disconnect, DesktopDies, backendVars, TurnInv
<1>6. ASSUME NEW c \in Calls, LateCommit(c) PROVE Progress /\ Settles
  BY <1>6, LateCommitSettles, IdleProgress DEF LateCommit, backendVars
<1>7. CASE RegistryStep \/ PolicyEdit \/ UNCHANGED vars
  BY <1>7, IdleProgress, IdleSettles DEF RegistryStep, PolicyEdit, vars, callVars, desktopVars
<1>8. QED
  BY <1>1, <1>2, <1>3, <1>4, <1>5, <1>6, <1>7
  DEF Next, LoopStep, DeskStep, QuietStep, ServeStep

-----------------------------------------------------------------------------
\* The outcomes that were told stay true.

LEMMA ToldStays ==
  ASSUME Settles, NEW c \in Calls, NEW status, Told(c, status), ~(Unsent(c) /\ c \in pending')
  PROVE  Told(c, status)'
  BY CallParts DEF Settles, Told

PastIsSent == \A c \in Calls : Past(c) => ~Unsent(c)

LEMMA PastWasSent == TypeOK => PastIsSent
<1> SUFFICES ASSUME TypeOK, NEW c \in Calls PROVE ~(Past(c) /\ Unsent(c))
  BY DEF PastIsSent
<1>1. c[2] \in Nat /\ loop[c[1]].made \in Nat
  BY CallParts, ToolCallAssumption DEF TypeOK, Loops
<1>2. QED
  BY <1>1 DEF Past, Unsent

\* A call is registered when it is sent with the skill, and answered while it is registered,
\* with what the desktop knows.
Bridges ==
  /\ \A c \in pending' :
       c \in pending \/ (allowed /\ c \in Calls /\ Unsent(c) /\ ~Unsent(c)')
  /\ \A c \in Calls :
       \/ answer'[c] = answer[c]
       \/ c \in pending /\ AnswerInv(c)'

LEMMA InvokeBridges ==
  ASSUME TypeOK, NEW ch \in Chats, LoopInv(ch), Invoke(ch)
  PROVE  Bridges
<1>1. CallOf(ch) \in Calls /\ CallOf(ch)[1] = ch /\ CallOf(ch)[2] = loop[ch].made
  BY CurrentCall DEF Invoke, LoopInv
<1> SUFFICES ASSUME NEW c \in Calls, c = CallOf(ch) PROVE Bridges
  BY <1>1
<1>2. Moves(ch, "wait", loop[ch].version, loop[ch].made, loop[ch].verdict)
  BY GotoMoves DEF Invoke
<1>3. loop[ch].made \in Nat
  BY ToolCallAssumption DEF TypeOK, Loops
<1>4. Unsent(c) /\ ~Unsent(c)'
  BY <1>1, <1>2, <1>3 DEF Unsent, Invoke, Moves
<1>5. UNCHANGED answer /\ allowed /\ pending' = pending \cup {c}
  BY DEF Invoke
<1>6. QED
  BY <1>4, <1>5 DEF Bridges

LEMMA PostBridges ==
  ASSUME TypeOK, NEW ch \in Chats, StreamInv(ch), DeskInv(ch), Post(ch)
  PROVE  Bridges
<1>1. Serves(ch, "idle", None, None)
  BY PostTypes
<1>2. UNCHANGED <<connected, stream, wrote, inflight>>
  BY DEF Post
<1>3. desk[ch].call \in Calls /\ desk[ch].call[1] = ch /\ desk[ch].call # None
  BY ServedCall, CallParts DEF Post
<1> SUFFICES ASSUME NEW c \in Calls, c = desk[ch].call, c[1] = ch, c # None PROVE Bridges
  BY <1>3
<1> DEFINE reply == desk[ch].reply
<1>4. reply \in Negative => Closed(c)'
  <2>1. c \notin Elems(stream'[ch]) /\ desk'[ch].call # c
    BY <1>1, <1>2, <1>3 DEF StreamInv, Serves
  <2>2. reply \in Negative => c \notin wrote' \cup inflight'
    BY <1>2 DEF DeskInv
  <2>3. QED
    BY <1>3, <2>1, <2>2 DEF Closed
<1>5. reply = "succeeded" => c \in wrote'
  BY <1>2 DEF DeskInv
<1>6. reply # "denied"
  BY NoCallAssumption DEF Post, DeskInv, TypeOK, Desks, Answers, Negative
<1>7. \/ UNCHANGED bridgeVars
      \/ c \in pending /\ pending' = pending \ {c} /\ answer' = [answer EXCEPT ![c] = reply]
  BY DEF Post
<1>8. \A d \in Calls : answer'[d] = answer[d] \/ (d = c /\ c \in pending /\ answer'[d] = reply)
  BY <1>7 DEF bridgeVars, TypeOK
<1>9. \A d \in Calls : answer'[d] = answer[d] \/ (d \in pending /\ AnswerInv(d)')
  <2> SUFFICES ASSUME NEW d \in Calls, d = c, c \in pending, answer'[d] = reply
               PROVE  AnswerInv(d)'
    BY <1>8
  <2>1. answer'[d] \in Negative => Closed(d)'
    BY <1>4
  <2>2. Told(d, answer[d])'
    BY <1>5, <1>6, <2>1 DEF Told
  <2>3. QED
    BY <2>1, <2>2 DEF AnswerInv
<1>10. QED
  BY <1>7, <1>9 DEF Bridges, bridgeVars

LEMMA StepBridges ==
  ASSUME TypeOK, \A ch \in Chats : TurnInv(ch), [Next]_vars
  PROVE  Bridges
<1>1. ASSUME NEW ch \in Chats, QuietStep(ch) PROVE Bridges
  BY <1>1, QuietLeaves DEF Bridges
<1>2. ASSUME NEW ch \in Chats, Invoke(ch) \/ Post(ch) PROVE Bridges
  BY <1>2, InvokeBridges, PostBridges DEF TurnInv
<1>3. ASSUME NEW ch \in Chats, ServeStep(ch) PROVE Bridges
  BY <1>3, ServeOutcome DEF bridgeVars, Bridges
<1>4. CASE \/ \E ch \in Chats : Take(ch) \/ Disconnect(ch) \/ DesktopDies(ch)
           \/ \E c \in Calls : LateCommit(c)
           \/ RegistryStep \/ PolicyEdit \/ UNCHANGED vars
  <2>1. UNCHANGED bridgeVars
    BY <1>4 DEF Take, Disconnect, DesktopDies, LateCommit, RegistryStep, PolicyEdit, vars, callVars
  <2>2. QED
    BY <2>1 DEF bridgeVars, Bridges
<1>5. QED
  BY <1>1, <1>2, <1>3, <1>4 DEF Next, LoopStep, DeskStep, QuietStep, ServeStep

\* The audit log takes the entry of call c.
Logged(c, status) ==
  /\ Len(audit) \in Nat /\ Len(audit') = Len(audit) + 1
  /\ \A i \in 1..Len(audit) : audit'[i] = audit[i]
  /\ audit'[Len(audit) + 1].call = c /\ audit'[Len(audit) + 1].status = status

\* A call is logged when the agent is through with it, and as what became of it.
Logs ==
  \/ UNCHANGED audit
  \/ \E c \in Calls, status \in Answers \cup {"denied"} :
       Logged(c, status) /\ ~Past(c) /\ Past(c)' /\ Told(c, status)'

LEMMA StepLogs ==
  ASSUME TypeOK, \A ch \in Chats : TurnInv(ch), \A c \in Calls : UnsentInv(c), [Next]_vars
  PROVE  Logs
<1>1. ASSUME NEW ch \in Chats, NEW c, c = CallOf(ch), loop[ch].at \in {"dispatch", "record"},
             Moves(ch, "ready", loop[ch].version, loop[ch].made, loop'[ch].verdict),
             NEW status \in Answers \cup {"denied"}, Audited(ch, status), Told(c, status),
             UNCHANGED desktopVars
      PROVE  Logs
  <2>1. loop[ch].made > 0 /\ loop[ch].made \in Nat
    BY <1>1, ToolCallAssumption DEF TurnInv, LoopInv, TypeOK, Loops
  <2>2. c \in Calls /\ c[1] = ch /\ c[2] = loop[ch].made
    BY <1>1, <2>1, CurrentCall
  <2>3. ~Past(c) /\ Past(c)'
    BY <1>1, <2>1, <2>2 DEF Past, Moves
  <2>4. UNCHANGED audit \/ Logged(c, status)
    BY <1>1, <2>1, AuditGrows DEF Logged
  <2>5. Told(c, status)'
    BY <1>1 DEF Told, Closed, desktopVars
  <2>6. QED
    BY <1>1, <2>2, <2>3, <2>4, <2>5 DEF Logs
<1>2. ASSUME NEW ch \in Chats, Refuse(ch) PROVE Logs
  <2>1. loop[ch].made > 0 /\ loop[ch].at = "dispatch"
    BY <1>2 DEF Refuse, TurnInv, LoopInv
  <2>2. CallOf(ch) \in Calls /\ CallOf(ch)[1] = ch /\ CallOf(ch)[2] = loop[ch].made
    BY <2>1, CurrentCall
  <2>3. Closed(CallOf(ch))
    BY <2>1, <2>2 DEF UnsentInv, Unsent
  <2>4. Told(CallOf(ch), "denied") /\ Told(CallOf(ch), "failed")
    BY <2>3 DEF Told
  <2>5. Moves(ch, "ready", loop[ch].version, loop[ch].made, loop[ch].verdict)
    BY <1>2, GotoMoves DEF Refuse
  <2>6. Moves(ch, "ready", loop[ch].version, loop[ch].made, loop'[ch].verdict)
    BY <2>5 DEF Moves
  <2>7. Audited(ch, "denied") \/ Audited(ch, "failed")
    BY <1>2 DEF Refuse
  <2>8. "failed" \in Answers
    BY DEF Answers, Negative
  <2>9. UNCHANGED desktopVars
    BY <1>2 DEF Refuse
  <2>10. QED
    BY <1>1, <2>1, <2>4, <2>6, <2>7, <2>8, <2>9
<1>3. ASSUME NEW ch \in Chats, Record(ch) PROVE Logs
  <2>1. loop[ch].at = "record" /\ Audited(ch, loop[ch].verdict)
    BY <1>3 DEF Record
  <2>2. loop[ch].verdict \in Answers /\ Told(CallOf(ch), loop[ch].verdict)
    BY <2>1 DEF TurnInv, LoopInv, TypeOK, Loops
  <2>3. Moves(ch, "ready", loop[ch].version, loop[ch].made, None)
    BY <1>3, RecordMoves
  <2>4. Moves(ch, "ready", loop[ch].version, loop[ch].made, loop'[ch].verdict)
    BY <2>3 DEF Moves
  <2>5. UNCHANGED desktopVars
    BY <1>3 DEF Record
  <2>6. QED
    BY <1>1, <2>1, <2>2, <2>4, <2>5
<1>4. ASSUME NEW ch \in Chats, WaitEnds(ch) PROVE Logs
  BY <1>4, WaitJudges DEF Logs, TurnInv
<1>5. ASSUME NEW ch \in Chats, ServeStep(ch) PROVE Logs
  BY <1>5, ServeOutcome DEF Logs, backendVars
<1>6. CASE \/ \E ch \in Chats : \/ StartTurn(ch) \/ MakeCall(ch) \/ EndTurn(ch) \/ Invoke(ch)
                                \/ Take(ch) \/ Post(ch) \/ Disconnect(ch) \/ DesktopDies(ch)
           \/ \E c \in Calls : LateCommit(c)
           \/ RegistryStep \/ PolicyEdit \/ UNCHANGED vars
  BY <1>6 DEF StartTurn, MakeCall, EndTurn, Invoke, Take, Post, Disconnect, DesktopDies, LateCommit,
              RegistryStep, PolicyEdit, vars, callVars, backendVars, Logs
<1>7. QED
  BY <1>2, <1>3, <1>4, <1>5, <1>6 DEF Next, LoopStep, DeskStep, ServeStep

-----------------------------------------------------------------------------
\* The steps keep what is known of a call.

\* A desktop fetches its calls from its stream.
Fetches ==
  \A ch \in Chats :
    desk'[ch].call \in {desk[ch].call, None} \/ desk'[ch].call \in Elems(stream[ch])

LEMMA StepFetches ==
  ASSUME TypeOK, \A ch \in Chats : TurnInv(ch), [Next]_vars
  PROVE  Fetches
<1>1. ASSUME NEW ch \in Chats, NEW at, NEW call, NEW reply, Serves(ch, at, call, reply),
             call \in {desk[ch].call, None} \/ call \in Elems(stream[ch])
      PROVE  Fetches
  BY <1>1 DEF Fetches, Serves
<1>2. ASSUME NEW ch \in Chats, Take(ch) PROVE Fetches
  <2>1. stream[ch] \in Seq(Calls) /\ stream[ch] # <<>>
    BY <1>2 DEF TypeOK, Take
  <2>2. Head(stream[ch]) \in Elems(stream[ch])
    BY <2>1, TailElems DEF TurnInv, StreamInv
  <2>3. QED
    BY <1>1, <1>2, <2>2, TakeTypes
<1>3. ASSUME NEW ch \in Chats, ServeStep(ch) \/ Post(ch) \/ DesktopDies(ch) PROVE Fetches
  BY <1>1, <1>3, ServeOutcome, PostTypes, CutTypes DEF TurnInv
<1>4. ASSUME NEW ch \in Chats, QuietStep(ch) PROVE Fetches
  BY <1>4, QuietLeaves DEF desktopVars, Fetches
<1>5. CASE \/ \E ch \in Chats : Invoke(ch) \/ Disconnect(ch)
           \/ \E c \in Calls : LateCommit(c)
           \/ RegistryStep \/ PolicyEdit \/ UNCHANGED vars
  BY <1>5 DEF Invoke, Disconnect, LateCommit, RegistryStep, PolicyEdit, vars, callVars, desktopVars,
              Fetches
<1>6. QED
  BY <1>2, <1>3, <1>4, <1>5 DEF Next, LoopStep, DeskStep, QuietStep, ServeStep

Forward == TypeOK' /\ PastIsSent' /\ Progress /\ Settles /\ Bridges /\ Logs /\ Fetches

LEMMA UnsentKeeps ==
  ASSUME TypeOK, Forward, NEW c \in Calls, UnsentInv(c)
  PROVE  UnsentInv(c)'
<1> SUFFICES ASSUME Unsent(c)'
             PROVE  /\ c \notin pending' /\ answer'[c] = None /\ Closed(c)' /\ desk'[c[1]].call # c
                    /\ \A i \in 1..Len(audit') : audit'[i].call # c
  BY DEF UnsentInv
<1>1. Unsent(c)
  BY DEF Forward, Progress
<1>2. c \notin pending /\ answer[c] = None /\ Closed(c) /\ desk[c[1]].call # c
      /\ \A i \in 1..Len(audit) : audit[i].call # c
  BY <1>1 DEF UnsentInv
<1>3. c \notin pending' /\ answer'[c] = None
  BY <1>2 DEF Forward, Bridges
<1>4. Closed(c)'
  BY <1>2, <1>3 DEF Forward, Settles
<1>5. desk'[c[1]].call # c
  BY <1>2, CallParts DEF Forward, Fetches, Closed
<1>6. ASSUME NEW i \in 1..Len(audit') PROVE audit'[i].call # c
  <2>1. CASE UNCHANGED audit
    BY <1>2, <2>1
  <2>2. ASSUME NEW d \in Calls, NEW status, Logged(d, status), Past(d)' PROVE audit'[i].call # c
    <3>1. d # c
      BY <2>2 DEF Forward, PastIsSent
    <3>2. QED
      BY <1>2, <2>2, <3>1 DEF Logged
  <2>3. QED
    BY <2>1, <2>2 DEF Forward, Logs
<1>7. QED
  BY <1>3, <1>4, <1>5, <1>6

LEMMA AnswerKeeps ==
  ASSUME TypeOK, Forward, NEW c \in Calls, UnsentInv(c), AnswerInv(c)
  PROVE  AnswerInv(c)'
<1>1. CASE answer'[c] = answer[c] /\ answer[c] = None
  BY <1>1, NoCallAssumption DEF AnswerInv, Told, Answers
<1>2. CASE answer'[c] = answer[c] /\ answer[c] # None
  <2>1. ~Unsent(c)
    BY <1>2 DEF UnsentInv
  <2>2. \A status : Told(c, status) => Told(c, status)'
    BY <2>1, ToldStays DEF Forward
  <2>3. answer[c] \in Negative => Closed(c)'
    BY <2>1 DEF Forward, Settles, AnswerInv
  <2>4. QED
    BY <1>2, <2>2, <2>3 DEF AnswerInv, Told
<1>3. QED
  BY <1>1, <1>2 DEF Forward, Bridges

LEMMA ElementOf == ASSUME NEW S, NEW s \in Seq(S), NEW i \in 1..Len(s) PROVE s[i] \in S
  OBVIOUS

LEMMA AuditKeeps ==
  ASSUME TypeOK, Forward, AuditInv
  PROVE  AuditInv'
<1>1. audit \in Seq([call : Calls, status : Answers \cup {"denied"}])
  BY DEF TypeOK
<1>2. ASSUME NEW i \in 1..Len(audit) PROVE audit[i].call \in Calls
  <2>1. audit[i] \in [call : Calls, status : Answers \cup {"denied"}]
    BY <1>1, ElementOf
  <2>2. QED
    BY <2>1
<1>3. \A c \in Calls : Past(c) => Past(c)' /\ ~Unsent(c)
  BY PastWasSent DEF Forward, Progress, PastIsSent
<1>4. \A c \in Calls : Past(c) => \A status : Told(c, status) => Told(c, status)'
  BY <1>3, ToldStays DEF Forward
<1>5. ASSUME NEW i, NEW c, NEW status, audit'[i].call = c, audit'[i].status = status,
             Past(c)', Told(c, status)'
      PROVE  Past(audit[i].call)' /\ Told(audit[i].call, audit[i].status)'
  BY <1>5 DEF Past, Told, Closed
<1>6. ASSUME NEW i \in 1..Len(audit), audit'[i] = audit[i]
      PROVE  Past(audit[i].call)' /\ Told(audit[i].call, audit[i].status)'
  <2>1. audit[i].call \in Calls /\ Past(audit[i].call) /\ Told(audit[i].call, audit[i].status)
    BY <1>2, <1>6 DEF AuditInv
  <2>2. \A c \in Calls : \A status :
          Past(c) /\ Told(c, status) /\ audit'[i].call = c /\ audit'[i].status = status
            => Past(audit[i].call)' /\ Told(audit[i].call, audit[i].status)'
    BY <1>3, <1>4, <1>5
  <2>3. QED
    BY <1>6, <2>1, <2>2
<1>7. CASE UNCHANGED audit
  BY <1>6, <1>7 DEF AuditInv
<1>8. ASSUME NEW c \in Calls, NEW status, Logged(c, status), ~Past(c), Past(c)', Told(c, status)'
      PROVE  AuditInv'
  <2>1. \A i \in 1..Len(audit') : i \in 1..Len(audit) \/ i = Len(audit')
    BY <1>8 DEF Logged
  <2>2. \A i \in 1..Len(audit) : audit[i].call # c
    BY <1>8 DEF AuditInv
  <2>3. \A i \in 1..Len(audit') : Past(audit[i].call)' /\ Told(audit[i].call, audit[i].status)'
    BY <1>5, <1>6, <1>8, <2>1 DEF Logged
  <2>4. \A i, j \in 1..Len(audit') : audit'[i].call = audit'[j].call => i = j
    BY <1>8, <2>1, <2>2 DEF Logged, AuditInv
  <2>5. QED
    BY <2>3, <2>4 DEF AuditInv
<1>9. QED
  BY <1>7, <1>8 DEF Forward, Logs

\* A released call has its entry.
LEMMA ReleasedKeeps ==
  ASSUME TypeOK, \A ch \in Chats : TurnInv(ch), Forward, ReleasedInv, [Next]_vars
  PROVE  ReleasedInv'
<1>1. \A i \in 1..Len(audit) : i \in 1..Len(audit') /\ audit'[i] = audit[i]
  BY DEF Forward, Logs, Logged
<1>2. \A c \in released : \E i \in 1..Len(audit') : audit'[i].call = c /\ audit'[i].status = "succeeded"
  BY <1>1 DEF ReleasedInv
<1>3. ASSUME NEW ch \in Chats, Record(ch) PROVE ReleasedInv'
  <2>1. loop[ch].made > 0 /\ loop[ch].verdict \in Answers
    BY <1>3 DEF Record, TurnInv, LoopInv, TypeOK, Loops
  <2>2. CASE released' = released
    BY <1>2, <2>2 DEF ReleasedInv
  <2>3. CASE audit' # audit /\ loop[ch].verdict = "succeeded"
    <3>1. released' = released \cup {CallOf(ch)}
      BY <1>3, <2>3 DEF Record
    <3>2. Len(audit) + 1 \in 1..Len(audit') /\ audit'[Len(audit) + 1].call = CallOf(ch)
          /\ audit'[Len(audit) + 1].status = "succeeded"
      BY <1>3, <2>1, <2>3, AuditGrows DEF Record
    <3>3. QED
      BY <1>2, <3>1, <3>2 DEF ReleasedInv
  <2>4. QED
    BY <1>3, <2>2, <2>3 DEF Record
<1>4. ASSUME NEW ch \in Chats, WaitEnds(ch) PROVE UNCHANGED released
  BY <1>4, WaitJudges DEF TurnInv
<1>5. ASSUME NEW ch \in Chats, ServeStep(ch) PROVE UNCHANGED released
  BY <1>5, ServeOutcome DEF backendVars
<1>6. CASE \/ \E ch \in Chats : \/ StartTurn(ch) \/ MakeCall(ch) \/ EndTurn(ch) \/ Refuse(ch) \/ Invoke(ch)
                                \/ Take(ch) \/ Post(ch) \/ Disconnect(ch) \/ DesktopDies(ch)
           \/ \E c \in Calls : LateCommit(c)
           \/ RegistryStep \/ PolicyEdit \/ UNCHANGED vars
  <2>1. UNCHANGED released
    BY <1>6 DEF StartTurn, MakeCall, EndTurn, Refuse, Invoke, Take, Post, Disconnect, DesktopDies,
                LateCommit, RegistryStep, PolicyEdit, vars, callVars, backendVars
  <2>2. QED
    BY <1>2, <2>1 DEF ReleasedInv
<1>7. QED
  <2>1. UNCHANGED released \/ ReleasedInv'
    BY <1>3, <1>4, <1>5, <1>6 DEF Next, LoopStep, DeskStep, ServeStep
  <2>2. QED
    BY <1>2, <2>1 DEF ReleasedInv

-----------------------------------------------------------------------------
\* The steps keep what is known of a turn.

\* Rows are never deleted.
RowsStay == \A k \in Keys : versions[k] # None => versions'[k] # None

\* The parts of LoopInv after a step, the call it may tell of being c.
LEMMA LoopFrom ==
  ASSUME NEW ch \in Chats, NEW c, c = <<ch, loop'[ch].made>>,
         loop'[ch].at = "start" => loop'[ch].made = 0,
         loop'[ch].at \in {"dispatch", "wait", "record"} => loop'[ch].made > 0,
         loop'[ch].made > 0 \/ loop'[ch].at = "ready" =>
           loop'[ch].version \in Keys /\ versions'[loop'[ch].version] # None,
         loop'[ch].at = "record" <=> loop'[ch].verdict # None,
         loop'[ch].at = "record" => Told(c, loop[ch].verdict)'
  PROVE  LoopInv(ch)'
<1>1. c = CallOf(ch)'
  BY DEF CallOf
<1>2. loop'[ch].at = "record" => Told(CallOf(ch), loop[ch].verdict)'
  BY <1>1 DEF Told, Closed
<1>3. QED
  BY <1>2 DEF LoopInv

LEMMA StillLoop ==
  ASSUME TypeOK, Forward, RowsStay, NEW ch \in Chats, LoopInv(ch), loop'[ch] = loop[ch]
  PROVE  LoopInv(ch)'
<1>1. ASSUME loop[ch].at = "record", NEW c, c = CallOf(ch) PROVE Told(c, loop[ch].verdict)'
  <2>1. loop[ch].made > 0 /\ Told(c, loop[ch].verdict)
    BY <1>1 DEF LoopInv
  <2>2. c \in Calls /\ c[1] = ch /\ c[2] = loop[ch].made /\ loop[ch].made \in Nat
    BY <1>1, <2>1, CurrentCall, ToolCallAssumption DEF TypeOK, Loops
  <2>3. ~Unsent(c)
    BY <1>1, <2>2 DEF Unsent
  <2>4. \A v : Told(c, v) => Told(c, v)'
    BY <2>2, <2>3, ToldStays DEF Forward
  <2>5. \A v : v = loop[ch].verdict => Told(c, v)'
    BY <2>1, <2>4
  <2>6. QED
    BY <2>5 DEF Told
<1>2. QED
  BY <1>1, LoopFrom DEF LoopInv, RowsStay, CallOf

LEMMA LoopKeeps ==
  ASSUME TypeOK, Forward, RowsStay, NEW ch \in Chats, TurnInv(ch),
         \A c \in Calls : AnswerInv(c),
         QuietStep(ch) \/ Invoke(ch)
  PROVE  LoopInv(ch)'
<1>0. LoopInv(ch) /\ loop[ch].made \in Nat
  BY ToolCallAssumption DEF TurnInv, TypeOK, Loops
<1>1. ASSUME NEW at, NEW version, NEW made \in Nat, NEW verdict, Moves(ch, at, version, made, verdict),
             at = "start" => made = 0,
             at \in {"dispatch", "wait", "record"} => made > 0,
             made > 0 \/ at = "ready" => version \in Keys /\ versions[version] # None,
             at # "record", verdict = None
      PROVE  LoopInv(ch)'
  BY <1>1, LoopFrom DEF Moves, RowsStay
<1>2. CASE StartTurn(ch)
  <2>1. Resolve(Tool) \in Keys => versions[Resolve(Tool)] # None
    <3>1. None \notin Keys /\ "builtin" \notin Keys
      BY NoCallAssumption, NoneAssumption
    <3>2. Tool \in ToolsOf(Published) =>
            (CHOOSE k \in Published : Tool \in versions[k].tools) \in Published
      BY DEF ToolsOf
    <3>3. QED
      BY <3>1, <3>2 DEF Resolve, Published, WithStatus
  <2>2. loop[ch].at = "start" /\ loop[ch].made = 0 /\ loop[ch].verdict = None
    BY <1>0, <1>2 DEF StartTurn, LoopInv
  <2>3. QED
    BY <1>1, <1>2, <2>1, <2>2, StartMoves
<1>3. CASE MakeCall(ch)
  <2>1. loop[ch].at = "ready" /\ loop[ch].verdict = None /\ loop[ch].made + 1 \in Nat /\ loop[ch].made + 1 > 0
    BY <1>0, <1>3 DEF MakeCall, LoopInv
  <2>2. loop[ch].version \in Keys /\ versions[loop[ch].version] # None
    BY <1>0, <2>1 DEF LoopInv
  <2>3. QED
    BY <1>1, <1>3, <2>1, <2>2, MakeMoves
<1>4. CASE EndTurn(ch)
  <2>1. loop[ch].verdict = None
    BY <1>0, <1>4 DEF EndTurn, LoopInv
  <2>2. QED
    BY <1>0, <1>1, <1>4, <2>1, GotoMoves DEF EndTurn, LoopInv
<1>5. CASE Refuse(ch) \/ Invoke(ch)
  <2>1. loop[ch].at = "dispatch" /\ loop[ch].verdict = None /\ loop[ch].made > 0
        /\ (Goto(ch, "ready") \/ Goto(ch, "wait"))
    BY <1>0, <1>5 DEF Refuse, Invoke, LoopInv
  <2>2. QED
    BY <1>0, <1>1, <2>1, GotoMoves DEF LoopInv
<1>6. CASE WaitEnds(ch)
  <2>1. loop[ch].at = "wait" /\ CallOf(ch) \in Calls
    BY <1>0, <1>6, WaitJudges
  <2>2. loop[ch].made > 0 /\ ~Unsent(CallOf(ch)) /\ CallOf(ch)[1] = ch
    BY <1>0, <2>1, CurrentCall DEF LoopInv, Unsent
  <2>3. PICK v \in Answers : /\ Moves(ch, "record", loop[ch].version, loop[ch].made, v)
                             /\ \/ v = "unknown"
                                \/ v = "cancelled" /\ ~connected[ch]
                                \/ v = answer[CallOf(ch)]
    BY <1>0, <1>6, WaitJudges
  <2> SUFFICES ASSUME NEW c \in Calls, c = CallOf(ch), c[1] = ch, ~Unsent(c) PROVE LoopInv(ch)'
    BY <2>1, <2>2
  <2>4. Told(c, v)
    BY <2>3, NoCallAssumption DEF AnswerInv, Told, Negative, Answers
  <2>5. Told(c, v)'
    BY <2>4, ToldStays DEF Forward
  <2>6. Told(c, loop[ch].verdict)'
    BY <2>3, <2>5 DEF Told, Moves
  <2>7. v # None
    BY NoCallAssumption
  <2>8. QED
    BY <1>0, <2>1, <2>2, <2>3, <2>6, <2>7, LoopFrom DEF LoopInv, RowsStay, Moves, CallOf
<1>7. CASE Record(ch)
  <2>1. loop[ch].at = "record"
    BY <1>7 DEF Record
  <2>2. QED
    BY <1>0, <1>1, <1>7, <2>1, RecordMoves DEF LoopInv
<1>8. QED
  BY <1>2, <1>3, <1>4, <1>5, <1>6, <1>7 DEF QuietStep

ServedInv(ch) == StreamInv(ch) /\ DeskInv(ch)

\* A turn whose desktop does not move, while that of another may write.
LEMMA StillDesk ==
  ASSUME NEW ch \in Chats, ServedInv(ch), desk'[ch] = desk[ch],
         Elems(stream'[ch]) \subseteq Elems(stream[ch]), Distinct(stream'[ch]),
         wrote \subseteq wrote',
         \A c \in wrote' \cup inflight' : c \in wrote \cup inflight \/ c[1] # ch
  PROVE  ServedInv(ch)'
<1>1. \A c : c \in Elems(stream'[ch]) => c[1] = ch /\ c \notin wrote' \cup inflight'
  BY DEF ServedInv, StreamInv
<1>2. desk[ch].call # None /\ desk[ch].call \notin wrote \cup inflight => desk[ch].call \notin wrote' \cup inflight'
  BY DEF ServedInv, DeskInv
<1>3. StreamInv(ch)'
  BY <1>1 DEF ServedInv, StreamInv
<1>4. DeskInv(ch)'
  <2>1. desk[ch].at \in {"check", "preview", "confirm", "write"} => desk[ch].call # None
    BY DEF ServedInv, DeskInv
  <2>2. desk[ch].reply \in Negative => desk[ch].call # None
    BY NoCallAssumption DEF ServedInv, DeskInv, Answers
  <2>3. QED
    BY <1>2, <2>1, <2>2 DEF ServedInv, DeskInv
<1>5. QED
  BY <1>3, <1>4 DEF ServedInv

LEMMA InvokeServed ==
  ASSUME TypeOK, NEW ch \in Chats, TurnInv(ch), \A c \in Calls : UnsentInv(c), Invoke(ch)
  PROVE  ServedInv(ch)'
<1>1. CallOf(ch) \in Calls /\ CallOf(ch)[1] = ch /\ CallOf(ch)[2] = loop[ch].made
  BY CurrentCall DEF Invoke, TurnInv, LoopInv
<1> SUFFICES ASSUME NEW c \in Calls, c = CallOf(ch), c[1] = ch PROVE ServedInv(ch)'
  BY <1>1
<1>2. Closed(c) /\ desk[ch].call # c
  BY <1>1 DEF UnsentInv, Unsent, Invoke
<1>3. stream[ch] \in Seq(Calls) /\ stream'[ch] = Append(stream[ch], c)
  BY DEF Invoke, TypeOK
<1>4. Elems(stream'[ch]) = Elems(stream[ch]) \cup {c} /\ Distinct(stream'[ch])
  BY <1>2, <1>3, AppendElems DEF TurnInv, StreamInv, Closed
<1>5. UNCHANGED <<desk, wrote, inflight>>
  BY DEF Invoke
<1>6. StreamInv(ch)'
  BY <1>2, <1>4, <1>5 DEF TurnInv, StreamInv, Closed
<1>7. DeskInv(ch)'
  BY <1>5 DEF TurnInv, DeskInv
<1>8. QED
  BY <1>6, <1>7 DEF ServedInv

LEMMA TakeServed ==
  ASSUME TypeOK, NEW ch \in Chats, TurnInv(ch), Take(ch)
  PROVE  ServedInv(ch)'
<1>1. stream[ch] \in Seq(Calls) /\ stream[ch] # <<>> /\ desk[ch].at = "idle"
  BY DEF TypeOK, Take
<1> DEFINE c == Head(stream[ch])
<1>2. Serves(ch, "check", c, desk[ch].reply) /\ stream'[ch] = Tail(stream[ch])
  BY TakeTypes
<1>3. c \in Elems(stream[ch]) /\ Elems(stream'[ch]) \subseteq Elems(stream[ch])
      /\ c \notin Elems(stream'[ch]) /\ Distinct(stream'[ch])
  BY <1>1, <1>2, TailElems DEF TurnInv, StreamInv
<1>4. c \in Calls /\ c # None /\ c[1] = ch /\ c \notin wrote \cup inflight
  BY <1>1, <1>3, CallParts DEF TurnInv, StreamInv
<1>5. UNCHANGED <<wrote, inflight>> /\ desk[ch].reply = None
  BY <1>1 DEF Take, TurnInv, DeskInv
<1> HIDE DEF c
<1>6. StreamInv(ch)'
  BY <1>2, <1>3, <1>5 DEF TurnInv, StreamInv, Serves
<1>7. DeskInv(ch)'
  BY <1>2, <1>4, <1>5, NoCallAssumption DEF DeskInv, Serves, Answers
<1>8. QED
  BY <1>6, <1>7 DEF ServedInv

LEMMA ServeServed ==
  ASSUME TypeOK, NEW ch \in Chats, TurnInv(ch), ServeStep(ch)
  PROVE  ServedInv(ch)'
<1>1. PICK at, reply : Serves(ch, at, desk[ch].call, reply) /\ Outcome(ch, at, reply)
  BY ServeOutcome
<1>2. UNCHANGED stream
  BY ServeOutcome
<1>3. desk[ch].call \in Calls /\ desk[ch].call[1] = ch /\ desk[ch].call # None
  BY <1>1, ServedCall, CallParts DEF TurnInv, Outcome
<1>4. wrote \subseteq wrote' /\ wrote' \cup inflight' \subseteq wrote \cup inflight \cup {desk[ch].call}
  BY <1>1 DEF Outcome
<1>5. StreamInv(ch)'
  BY <1>1, <1>2, <1>4 DEF TurnInv, StreamInv, Serves
<1>6. DeskInv(ch)'
  <2>1. desk[ch].at # "post" /\ (at # "post" => reply = None) /\ (at = "post" => reply \in Answers /\ reply # None)
    BY <1>1, NoCallAssumption DEF Outcome, TurnInv, DeskInv, Answers
  <2>2. at \notin {"idle", "gone"}
    BY <1>1 DEF Outcome
  <2>3. at \in {"check", "preview", "confirm", "write"} \/ reply \in Negative =>
          desk[ch].call \notin wrote' \cup inflight'
    BY <1>1, <2>1, NoCallAssumption DEF Outcome, TurnInv, DeskInv, Negative, Answers
  <2>4. at = "committed" \/ reply = "succeeded" => desk[ch].call \in wrote'
    BY <1>1, <2>1, NoCallAssumption DEF Outcome, TurnInv, DeskInv, Negative, Answers
  <2>5. QED
    BY <1>1, <1>3, <2>1, <2>2, <2>3, <2>4 DEF DeskInv, Serves
<1>7. QED
  BY <1>5, <1>6 DEF ServedInv

LEMMA LeaveServed ==
  ASSUME TypeOK, NEW ch \in Chats, TurnInv(ch), Post(ch) \/ DesktopDies(ch)
  PROVE  ServedInv(ch)'
<1>1. \E at \in {"idle", "gone"} : Serves(ch, at, None, None)
  BY PostTypes, CutTypes DEF TurnInv
<1>2. Elems(stream'[ch]) \subseteq Elems(stream[ch]) /\ Distinct(stream'[ch])
  <2>1. CASE Post(ch)
    BY <2>1 DEF Post, TurnInv, StreamInv
  <2>2. CASE DesktopDies(ch)
    BY <2>2, CutTypes, EmptyElems DEF TurnInv, StreamInv
  <2>3. QED
    BY <2>1, <2>2
<1>3. \A c \in Elems(stream[ch]) : c \in Calls
  BY ElementOf DEF Elems, TypeOK
<1>4. \A c \in Elems(stream[ch]) : c # None /\ c # desk[ch].call
  BY <1>3, CallParts DEF TurnInv, StreamInv
<1>5. wrote' = wrote /\ inflight' \subseteq inflight \cup {desk[ch].call}
  BY DEF Post, DesktopDies
<1>6. StreamInv(ch)'
  BY <1>1, <1>2, <1>4, <1>5 DEF TurnInv, StreamInv, Serves
<1>7. DeskInv(ch)'
  BY <1>1, NoCallAssumption DEF DeskInv, Serves, Answers
<1>8. QED
  BY <1>6, <1>7 DEF ServedInv

\* The step of another turn.
LEMMA OtherServed ==
  ASSUME TypeOK, NEW ch \in Chats, NEW d \in Chats, d # ch, TurnInv(ch), TurnInv(d), Forward,
         Invoke(d) \/ Take(d) \/ ServeStep(d) \/ Post(d) \/ Disconnect(d) \/ DesktopDies(d)
  PROVE  ServedInv(ch)'
<1>1. wrote \subseteq wrote'
  BY DEF Forward, Settles
<1>2. desk'[ch] = desk[ch] /\ stream'[ch] = stream[ch]
  <2>1. CASE Invoke(d)
    BY <2>1 DEF Invoke, TypeOK
  <2>2. CASE Take(d)
    BY <2>2, TakeTypes DEF Serves
  <2>3. CASE ServeStep(d)
    BY <2>3, ServeOutcome DEF Serves
  <2>4. CASE Post(d)
    BY <2>4, PostTypes DEF Serves, TurnInv, Post
  <2>5. CASE Disconnect(d)
    BY <2>5, CutTypes DEF Disconnect, TurnInv
  <2>6. CASE DesktopDies(d)
    BY <2>6, CutTypes DEF Serves, TurnInv
  <2>7. QED
    BY <2>1, <2>2, <2>3, <2>4, <2>5, <2>6
<1>3. \A c \in wrote' \cup inflight' : c \in wrote \cup inflight \/ c[1] # ch
  <2>1. CASE Invoke(d) \/ Take(d) \/ Post(d) \/ Disconnect(d)
    BY <2>1 DEF Invoke, Take, Post, Disconnect
  <2>2. CASE ServeStep(d)
    BY <2>2, ServeOutcome, ServedCall DEF Outcome, TurnInv
  <2>3. CASE DesktopDies(d)
    BY <2>3, ServedCall DEF DesktopDies, TurnInv
  <2>4. QED
    BY <2>1, <2>2, <2>3
<1>4. QED
  BY <1>1, <1>2, <1>3, StillDesk DEF TurnInv, ServedInv, StreamInv

LEMMA ServedKeeps ==
  ASSUME TypeOK, \A ch \in Chats : TurnInv(ch), \A c \in Calls : UnsentInv(c), Forward,
         [Next]_vars, NEW ch \in Chats
  PROVE  ServedInv(ch)'
<1>0. ServedInv(ch) /\ Distinct(stream[ch])
  BY DEF ServedInv, TurnInv, StreamInv
<1>1. ASSUME desk' = desk, stream'[ch] = stream[ch] \/ stream'[ch] = <<>>, wrote \subseteq wrote',
             wrote' \cup inflight' \subseteq wrote \cup inflight
      PROVE  ServedInv(ch)'
  BY <1>0, <1>1, EmptyElems, StillDesk
<1>2. ASSUME NEW d \in Chats, QuietStep(d) PROVE ServedInv(ch)'
  BY <1>1, <1>2, QuietLeaves DEF desktopVars
<1>3. ASSUME NEW d \in Chats, Invoke(d) \/ Take(d) \/ ServeStep(d) \/ Post(d) \/ DesktopDies(d)
      PROVE  ServedInv(ch)'
  BY <1>3, OtherServed, InvokeServed, TakeServed, ServeServed, LeaveServed
<1>4. ASSUME NEW d \in Chats, Disconnect(d) PROVE ServedInv(ch)'
  BY <1>1, <1>4, CutTypes DEF Disconnect, TurnInv
<1>5. ASSUME NEW c \in Calls, LateCommit(c) PROVE ServedInv(ch)'
  BY <1>1, <1>5 DEF LateCommit
<1>6. CASE RegistryStep \/ PolicyEdit \/ UNCHANGED vars
  BY <1>1, <1>6 DEF RegistryStep, PolicyEdit, vars, callVars, desktopVars
<1>7. QED
  BY <1>2, <1>3, <1>4, <1>5, <1>6 DEF Next, LoopStep, DeskStep, QuietStep, ServeStep

LEMMA StepKeepsRegistry ==
  ASSUME TypeOK, RequestsExist, [Next]_vars
  PROVE  RequestsExist' /\ RowsKept
<1>1. CASE RegistryStep
  BY <1>1, StepKeepsRows DEF RegistryStep, TypeOK
<1>2. CASE ~RegistryStep
  <2>1. UNCHANGED registryVars
    <3>1. ASSUME NEW ch \in Chats, QuietStep(ch) \/ ServeStep(ch) PROVE UNCHANGED registryVars
      BY <3>1, QuietLeaves, ServeOutcome DEF backendVars
    <3>2. QED
      BY <1>2, <3>1 DEF Next, LoopStep, DeskStep, QuietStep, ServeStep, Invoke, Take, Post, Disconnect,
                    DesktopDies, LateCommit, PolicyEdit, vars, backendVars
  <2>2. QED
    BY <2>1 DEF registryVars, RequestsExist, RowsKept
<1>3. QED
  BY <1>1, <1>2

LEMMA TurnKeeps ==
  ASSUME TypeOK, RequestsExist, \A ch \in Chats : TurnInv(ch),
         \A c \in Calls : UnsentInv(c) /\ AnswerInv(c), Forward, [Next]_vars, NEW ch \in Chats
  PROVE  TurnInv(ch)'
<1>1. RowsStay
  BY StepKeepsRegistry DEF RowsKept, RowsStay
<1>2. ServedInv(ch)'
  BY ServedKeeps
<1>3. ASSUME NEW d \in Chats, QuietStep(d) \/ Invoke(d) PROVE LoopInv(ch)'
  <2>1. CASE d = ch
    BY <1>1, <1>3, <2>1, LoopKeeps
  <2>2. CASE d # ch
    <3>1. loop'[ch] = loop[ch]
      BY <1>3, <2>2, StartMoves, MakeMoves, GotoMoves, WaitJudges, RecordMoves
      DEF QuietStep, EndTurn, Refuse, Invoke, Moves, TurnInv
    <3>2. QED
      BY <1>1, <3>1, StillLoop DEF TurnInv
  <2>3. QED
    BY <2>1, <2>2
<1>4. ASSUME UNCHANGED loop PROVE LoopInv(ch)'
  BY <1>1, <1>4, StillLoop DEF TurnInv
<1>5. ASSUME NEW d \in Chats, ServeStep(d) PROVE UNCHANGED loop
  BY <1>5, ServeOutcome DEF backendVars
<1>6. UNCHANGED loop \/ \E d \in Chats : QuietStep(d) \/ Invoke(d)
  BY <1>5 DEF Next, LoopStep, DeskStep, QuietStep, ServeStep, Take, Post, Disconnect,
     DesktopDies, LateCommit, RegistryStep, PolicyEdit, vars, callVars, backendVars
<1>7. QED
  BY <1>2, <1>3, <1>4, <1>6 DEF ServedInv, TurnInv

-----------------------------------------------------------------------------
\* A call made too late stays outside.

\* A desktop writes what it was approved to write, for the version the turn
\* started with.
Approves ==
  /\ \A c \in wrote' \cup inflight' :
       \/ c \in wrote \cup inflight
       \/ \E ch \in Chats : desk[ch].at = "write" /\ c = desk[ch].call
  /\ \A ch \in Chats :
       loop[ch].made > 0 => loop'[ch].version = loop[ch].version /\ loop'[ch].made > 0
  /\ \A ch \in Chats :
       desk'[ch].at \notin {"idle", "gone", "check", "post"} =>
         /\ desk'[ch].call = desk[ch].call
         /\ desk[ch].at \notin {"check", "post"} \/ loop[ch].version \in Published

LEMMA IdleApproves ==
  ASSUME UNCHANGED <<loop, desk>>, wrote' \cup inflight' \subseteq wrote \cup inflight
  PROVE  Approves
  BY DEF Approves

LEMMA LoopApproves ==
  ASSUME TypeOK, NEW ch \in Chats, LoopInv(ch), QuietStep(ch) \/ Invoke(ch)
  PROVE  Approves
<1>1. UNCHANGED <<desk, wrote, inflight>>
  BY QuietLeaves DEF desktopVars, Invoke
<1>2. ASSUME NEW at, NEW made \in Nat, NEW verdict, Moves(ch, at, loop[ch].version, made, verdict),
             made = loop[ch].made \/ made = loop[ch].made + 1
      PROVE  Approves
  <2>1. loop[ch].made \in Nat
    BY ToolCallAssumption DEF TypeOK, Loops
  <2>2. QED
    BY <1>1, <1>2, <2>1 DEF Moves, Approves
<1>3. loop[ch].made \in Nat /\ loop[ch].made + 1 \in Nat
  BY ToolCallAssumption DEF TypeOK, Loops
<1>4. CASE StartTurn(ch)
  <2>1. loop[ch].made = 0
    BY <1>4 DEF StartTurn, LoopInv
  <2>2. \A d \in Chats \ {ch} : loop'[d] = loop[d]
    BY <1>4, StartMoves DEF Moves
  <2>3. QED
    BY <1>1, <2>1, <2>2 DEF Approves
<1>5. CASE ~StartTurn(ch)
  BY <1>2, <1>3, <1>5, MakeMoves, GotoMoves, WaitJudges, RecordMoves
  DEF QuietStep, EndTurn, Refuse, Invoke
<1>6. QED
  BY <1>4, <1>5

LEMMA DeskApproves ==
  ASSUME TypeOK, NEW ch \in Chats, DeskInv(ch),
         Take(ch) \/ ServeStep(ch) \/ Post(ch) \/ Disconnect(ch) \/ DesktopDies(ch)
  PROVE  Approves
<1>1. UNCHANGED loop
  BY ServeOutcome DEF Take, Post, Disconnect, DesktopDies, backendVars
<1>2. ASSUME NEW at, NEW call, NEW reply, Serves(ch, at, call, reply),
             at \notin {"idle", "gone", "check", "post"} =>
               call = desk[ch].call /\ (desk[ch].at \notin {"check", "post"} \/ loop[ch].version \in Published),
             wrote' \cup inflight' \subseteq wrote \cup inflight
               \/ (desk[ch].at = "write" /\ wrote' \cup inflight' \subseteq wrote \cup inflight \cup {desk[ch].call})
      PROVE  Approves
  BY <1>1, <1>2 DEF Serves, Approves
<1>3. CASE Take(ch)
  BY <1>2, <1>3, TakeTypes DEF Take
<1>4. CASE ServeStep(ch)
  BY <1>2, <1>4, ServeOutcome DEF Outcome
<1>5. CASE Post(ch)
  BY <1>2, <1>5, PostTypes DEF Post
<1>6. CASE Disconnect(ch)
  BY <1>1, <1>6, IdleApproves DEF Disconnect
<1>7. CASE DesktopDies(ch)
  BY <1>2, <1>7, CutTypes DEF DesktopDies
<1>8. QED
  BY <1>3, <1>4, <1>5, <1>6, <1>7

LEMMA StepApproves ==
  ASSUME TypeOK, \A ch \in Chats : TurnInv(ch), [Next]_vars
  PROVE  Approves
<1>1. ASSUME NEW ch \in Chats, LoopStep(ch) \/ DeskStep(ch) \/ Disconnect(ch) \/ DesktopDies(ch)
      PROVE  Approves
  BY <1>1, LoopApproves, DeskApproves DEF LoopStep, DeskStep, QuietStep, ServeStep, TurnInv
<1>2. CASE \/ \E c \in Calls : LateCommit(c)
           \/ RegistryStep \/ PolicyEdit \/ UNCHANGED vars
  <2>1. UNCHANGED <<loop, desk>> /\ wrote' \cup inflight' \subseteq wrote \cup inflight
    BY <1>2 DEF LateCommit, RegistryStep, PolicyEdit, vars, callVars, desktopVars, backendVars
  <2>2. QED
    BY <2>1, IdleApproves
<1>3. QED
  BY <1>1, <1>2 DEF Next

\* A call that was late before the step.
LEMMA LateStays ==
  ASSUME TypeOK, \A ch \in Chats : TurnInv(ch) /\ TurnInv(ch)', Forward, Approves, RowsKept,
         NEW l \in late, LateInv(l), UnsentInv(l[1]),
         l[2] = "withdrawn" => ~allowed'
  PROVE  LateInv(l)'
<1> DEFINE c == l[1]
<1>1. c \in Calls /\ c[1] \in Chats /\ c # None
  BY CallParts DEF TypeOK
<1>2. ASSUME l[2] = "withdrawn" PROVE ~allowed' /\ Closed(c)'
  <2>1. ~allowed /\ Closed(c)
    BY <1>2 DEF LateInv
  <2>2. ~(Unsent(c) /\ c \in pending')
    BY <1>1, <2>1 DEF Forward, Bridges, UnsentInv
  <2>3. QED
    BY <1>1, <1>2, <2>1, <2>2 DEF Forward, Settles
<1>3. ASSUME l[2] = "revoked"
      PROVE  /\ loop'[c[1]].made > 0 /\ versions'[loop'[c[1]].version].status = "revoked"
             /\ desk'[c[1]].call = c => desk'[c[1]].at \in {"check", "post"}
             /\ c \notin wrote' \cup inflight'
  <2>1. /\ loop[c[1]].made > 0 /\ loop[c[1]].version \in Keys /\ versions[loop[c[1]].version] # None
        /\ versions[loop[c[1]].version].status = "revoked"
        /\ desk[c[1]].call = c => desk[c[1]].at \in {"check", "post"}
        /\ c \notin wrote \cup inflight
    BY <1>1, <1>3 DEF LateInv, TurnInv, LoopInv
  <2>2. loop'[c[1]].made > 0 /\ versions'[loop'[c[1]].version].status = "revoked"
    BY <1>1, <2>1 DEF Approves, RowsKept
  <2>3. loop[c[1]].version \notin Published
    BY <2>1 DEF Published, WithStatus
  <2>4. desk'[c[1]].at \in {"idle", "gone"} => desk'[c[1]].call = None
    BY <1>1 DEF TurnInv, DeskInv
  <2>5. desk'[c[1]].call = c => desk'[c[1]].at \in {"check", "post"}
    BY <1>1, <2>1, <2>3, <2>4 DEF Approves
  <2>6. \A ch \in Chats : desk[ch].at = "write" => desk[ch].call[1] = ch
    BY ServedCall DEF TurnInv
  <2>7. c \notin wrote' \cup inflight'
    BY <2>1, <2>6 DEF Approves
  <2>8. QED
    BY <2>2, <2>5, <2>7
<1>4. l[2] \in {"revoked", "withdrawn"}
  BY DEF TypeOK
<1>5. c \notin wrote' \cup inflight'
  BY <1>2, <1>3, <1>4 DEF Closed
<1>6. QED
  BY <1>2, <1>3, <1>5 DEF LateInv

LEMMA MadeLate ==
  ASSUME TypeOK, NEW ch \in Chats, TurnInv(ch), \A c \in Calls : UnsentInv(c), MakeCall(ch),
         NEW l \in late' \ late, TypeOK'
  PROVE  LateInv(l)'
<1>1. Moves(ch, "dispatch", loop[ch].version, loop[ch].made + 1, loop[ch].verdict)
  BY MakeMoves
<1>2. loop[ch].made \in Nat
  BY ToolCallAssumption DEF TypeOK, Loops
<1> DEFINE c == l[1]
<1>3. /\ c = <<ch, loop[ch].made + 1>>
      /\ l[2] = "revoked" => versions[loop[ch].version].status = "revoked"
      /\ l[2] = "withdrawn" => ~allowed
  <2>1. CallOf(ch)' = <<ch, loop[ch].made + 1>>
    BY <1>1 DEF CallOf, Moves
  <2>2. QED
    BY <2>1 DEF MakeCall
<1>4. c \in Calls /\ c[1] = ch /\ c[2] = loop[ch].made + 1
  <2>1. late' \subseteq Calls \X {"revoked", "withdrawn"}
    BY DEF TypeOK
  <2>2. c \in Calls
    BY <2>1
  <2>3. QED
    BY <1>3, <2>2
<1>5. Closed(c) /\ desk[ch].call # c
  BY <1>2, <1>4 DEF UnsentInv, Unsent
<1>6. UNCHANGED <<versions, allowed, stream, desk, wrote, inflight>>
  BY DEF MakeCall, registryVars, desktopVars
<1>7. Closed(c)'
  BY <1>5, <1>6 DEF Closed
<1>8. loop'[c[1]].made > 0 /\ loop'[c[1]].version = loop[ch].version
  BY <1>1, <1>2, <1>4 DEF Moves
<1>9. QED
  BY <1>3, <1>4, <1>5, <1>6, <1>7, <1>8 DEF LateInv, Closed

LEMMA LateKeeps ==
  ASSUME CallsInv, Forward, [Next]_vars, \A ch \in Chats : TurnInv(ch)', NEW l \in late'
  PROVE  LateInv(l)'
<1>1. RowsKept /\ Approves
  BY StepKeepsRegistry, StepApproves DEF CallsInv
<1>2. late \subseteq Calls \X {"revoked", "withdrawn"}
  BY DEF CallsInv, TypeOK
<1>3. ASSUME l \in late PROVE LateInv(l) /\ UnsentInv(l[1])
  BY <1>2, <1>3 DEF CallsInv
<1>4. ASSUME l \in late, UNCHANGED allowed PROVE LateInv(l)'
  <2>1. l[2] = "withdrawn" => ~allowed'
    BY <1>3, <1>4 DEF LateInv
  <2>2. QED
    BY <1>1, <1>3, <1>4, <2>1, LateStays DEF CallsInv
<1>5. CASE PolicyEdit
  <2>1. l \in late /\ (l[2] = "withdrawn" => ~allowed')
    BY <1>5 DEF PolicyEdit
  <2>2. QED
    BY <1>1, <1>3, <2>1, LateStays DEF CallsInv
<1>6. ASSUME NEW ch \in Chats, MakeCall(ch) PROVE LateInv(l)'
  BY <1>4, <1>6, MadeLate DEF MakeCall, CallsInv, Forward
<1>7. ASSUME NEW ch \in Chats, WaitEnds(ch) PROVE UNCHANGED <<allowed, late>>
  BY <1>7, WaitJudges, QuietLeaves DEF CallsInv, TurnInv, QuietStep
<1>8. ASSUME NEW ch \in Chats, ServeStep(ch) PROVE UNCHANGED <<allowed, late>>
  BY <1>8, ServeOutcome DEF CallsInv, backendVars
<1>9. CASE ~PolicyEdit /\ \A ch \in Chats : ~MakeCall(ch)
  <2>1. UNCHANGED <<allowed, late>>
    BY <1>7, <1>8, <1>9 DEF Next, LoopStep, DeskStep, ServeStep, StartTurn, EndTurn, Refuse, Invoke, Record,
       Take, Post, Disconnect, DesktopDies, LateCommit, RegistryStep, vars, callVars, backendVars
  <2>2. QED
    BY <1>4, <2>1
<1>10. QED
  BY <1>5, <1>6, <1>9

-----------------------------------------------------------------------------
\* The invariant is inductive.

LEMMA StepTypes ==
  ASSUME CallsInv, [Next]_vars
  PROVE  TypeOK'
<1>1. ASSUME NEW ch \in Chats, QuietStep(ch) PROVE TypeOK'
  BY <1>1, QuietTypes DEF CallsInv, TurnInv
<1>2. ASSUME NEW ch \in Chats, Invoke(ch) PROVE TypeOK'
  <2>1. LoopInv(ch) /\ loop[ch].at = "dispatch" /\ loop[ch].made > 0
    BY <1>2 DEF CallsInv, TurnInv, LoopInv, Invoke
  <2>2. CallOf(ch) \in Calls /\ CallOf(ch)[1] = ch /\ CallOf(ch)[2] = loop[ch].made
    BY <2>1, CurrentCall DEF CallsInv
  <2>3. answer[CallOf(ch)] = None
    BY <2>1, <2>2 DEF CallsInv, UnsentInv, Unsent
  <2>4. QED
    BY <1>2, <2>1, <2>3, InvokeTypes DEF CallsInv
<1>3. ASSUME NEW ch \in Chats, DeskStep(ch) \/ Disconnect(ch) \/ DesktopDies(ch) PROVE TypeOK'
  BY <1>3, TakeTypes, ServeTypes, PostTypes, CutTypes DEF CallsInv, TurnInv, DeskStep, ServeStep
<1>4. ASSUME NEW c \in Calls, LateCommit(c) PROVE TypeOK'
  BY <1>4, LateCommitTypes DEF CallsInv
<1>5. CASE RegistryStep \/ PolicyEdit
  BY <1>5, AdministratorTypes DEF CallsInv
<1>6. CASE UNCHANGED vars
  BY <1>6 DEF CallsInv, vars, callVars, bridgeVars, desktopVars, TypeOK, CallOf, RegistryTypeOK, registryVars
<1>7. QED
  BY <1>1, <1>2, <1>3, <1>4, <1>5, <1>6 DEF Next, LoopStep, QuietStep

LEMMA NextKeepsCalls == CallsInv /\ [Next]_vars => CallsInv'
<1> SUFFICES ASSUME CallsInv, [Next]_vars PROVE CallsInv'
  OBVIOUS
<1>1. /\ TypeOK /\ RequestsExist /\ \A ch \in Chats : TurnInv(ch)
      /\ \A c \in Calls : UnsentInv(c) /\ AnswerInv(c)
      /\ AuditInv /\ ReleasedInv
  BY DEF CallsInv
<1>2. TypeOK'
  BY StepTypes
<1>3. PastIsSent'
  <2>1. (TypeOK => PastIsSent)'
    BY PastWasSent, PTL
  <2>2. QED
    BY <1>2, <2>1
<1>4. Forward
  BY <1>1, <1>2, <1>3, StepSettles, StepBridges, StepLogs, StepFetches DEF Forward
<1>5. RequestsExist'
  BY <1>1, StepKeepsRegistry
<1>6. \A c \in Calls : UnsentInv(c)' /\ AnswerInv(c)'
  BY <1>1, <1>4, UnsentKeeps, AnswerKeeps
<1>7. \A ch \in Chats : TurnInv(ch)'
  BY <1>1, <1>4, TurnKeeps
<1>8. AuditInv' /\ ReleasedInv'
  BY <1>1, <1>4, AuditKeeps, ReleasedKeeps
<1>9. \A l \in late' : LateInv(l)'
  BY <1>4, <1>7, LateKeeps
<1>10. QED
  BY <1>2, <1>5, <1>6, <1>7, <1>8, <1>9 DEF CallsInv

LEMMA InitCalls == Init => CallsInv
<1> SUFFICES ASSUME Init PROVE CallsInv
  OBVIOUS
<1>1. RegistryTypeOK /\ RequestsExist
  <2>1. ASSUME NEW k \in Keys, NEW s \in Submissions, s.key = k
        PROVE  [digest |-> s.digest, tools |-> s.tools, status |-> "published"] \in VersionRows
    BY <2>1, RegistryAssumption DEF SubmissionSpace, VersionRows, Statuses
  <2>2. versions \in [Keys -> VersionRows \cup {None}]
    BY <2>1 DEF Init
  <2>3. QED
    BY <2>2, RegistryAssumption DEF Init, RegistryTypeOK, RequestsExist
<1>2. TypeOK
  <2>1. loop \in [Chats -> Loops]
    BY ToolCallAssumption DEF Init, Loops
  <2>2. desk \in [Chats -> Desks] /\ stream \in [Chats -> Seq(Calls)]
    BY DEF Init, Desks
  <2>3. audit \in Seq([call : Calls, status : Answers \cup {"denied"}])
    BY DEF Init
  <2>4. /\ allowed \in BOOLEAN /\ connected \in [Chats -> BOOLEAN]
        /\ pending \subseteq Calls /\ answer \in [Calls -> Answers \cup {None}]
        /\ released \cup wrote \cup inflight \subseteq Calls
        /\ late \subseteq Calls \X {"revoked", "withdrawn"}
        /\ pending = {}
    BY DEF Init
  <2>5. QED
    BY <1>1, <2>1, <2>2, <2>3, <2>4 DEF TypeOK
<1>3. \A c \in Calls : UnsentInv(c) /\ AnswerInv(c)
  <2> SUFFICES ASSUME NEW c \in Calls PROVE UnsentInv(c) /\ AnswerInv(c)
    OBVIOUS
  <2>1. c[1] \in Chats /\ c # None
    BY CallParts
  <2>2. Closed(c) /\ desk[c[1]].call # c
    BY <2>1, EmptyElems DEF Init, Closed
  <2>3. QED
    BY <2>2, NoCallAssumption DEF Init, UnsentInv, AnswerInv, Told, Answers
<1>4. \A ch \in Chats : TurnInv(ch)
  BY EmptyElems, NoCallAssumption DEF Init, TurnInv, StreamInv, DeskInv, LoopInv, Answers
<1>5. AuditInv /\ ReleasedInv /\ \A l \in late : LateInv(l)
  BY DEF Init, AuditInv, ReleasedInv
<1>6. QED
  BY <1>1, <1>2, <1>3, <1>4, <1>5 DEF CallsInv

LEMMA CallsInvHolds == Spec => []CallsInv
  BY InitCalls, NextKeepsCalls, PTL DEF Spec

-----------------------------------------------------------------------------
\* Theorems.

\* The loops, the tables, the streams and the log keep their types, and a call
\* is registered only while its agent waits and nothing answered it
\* (pendingTools of Server).
THEOREM CallTypesCorrect == Spec => []TypeOK
<1>1. CallsInv => TypeOK
  BY DEF CallsInv
<1>2. QED
  BY <1>1, CallsInvHolds, PTL

LEMMA StatusOfEntry ==
  ASSUME NEW c, NEW status \in StatusesOf(c)
  PROVE  \E i \in 1..Len(audit) : audit[i].call = c /\ audit[i].status = status
  BY DEF StatusesOf

LEMMA HonestCalls == CallsInv => AuditIsHonest
<1> SUFFICES ASSUME CallsInv, NEW c \in Calls
             PROVE  /\ "succeeded" \in StatusesOf(c) => c \in wrote
                    /\ c \in wrote =>
                         /\ StatusesOf(c) \cap (Negative \cup {"denied"}) \subseteq {"cancelled"}
                         /\ "cancelled" \in StatusesOf(c) => ~connected[c[1]]
  BY DEF AuditIsHonest
<1>1. \A status \in StatusesOf(c) : Told(c, status)
  BY StatusOfEntry DEF CallsInv, AuditInv
<1>2. "cancelled" \in Negative
  BY DEF Negative
<1>3. QED
  BY <1>1, <1>2 DEF Told, Closed

\* The audit log tells what happened to the source, however late the commit and
\* whatever broke meanwhile (Guard.record, executionStatus).
THEOREM AuditTells == Spec => []AuditIsHonest
  BY HonestCalls, CallsInvHolds, PTL

LEMMA ReleasedCalls == CallsInv => ReleasedIsAudited
<1> SUFFICES ASSUME CallsInv PROVE ReleasedIsAudited
  OBVIOUS
<1>1. \A i, j \in 1..Len(audit) : audit[i].call = audit[j].call => i = j
  BY DEF CallsInv, AuditInv
<1>2. ASSUME NEW c \in released PROVE StatusesOf(c) = {"succeeded"}
  <2>1. PICK i \in 1..Len(audit) : audit[i].call = c /\ audit[i].status = "succeeded"
    BY DEF CallsInv, ReleasedInv
  <2>2. \A j \in 1..Len(audit) : audit[j].call = c => j = i
    BY <1>1, <2>1
  <2>3. QED
    BY <2>1, <2>2 DEF StatusesOf
<1>3. QED
  BY <1>1, <1>2 DEF ReleasedIsAudited

\* No result reaches the model before its entry is in the audit log, and no call
\* has two entries (Guard.Invoke).
THEOREM ReleasedWasAudited == Spec => []ReleasedIsAudited
  BY ReleasedCalls, CallsInvHolds, PTL

\* A call made after the version was revoked or the skill withdrawn never writes,
\* though its turn goes on with the catalog and the skills it started with.
THEOREM LateCallsStayOut == Spec => []StaleTurnNeverWrites
<1>1. CallsInv => StaleTurnNeverWrites
  BY DEF CallsInv, LateInv, StaleTurnNeverWrites
<1>2. QED
  BY <1>1, CallsInvHolds, PTL

=============================================================================
