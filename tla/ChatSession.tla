----------------------------- MODULE ChatSession -----------------------------
(***************************************************************************)
(* Chat turns over shared session histories, and the reverse file bridge:  *)
(* handleChat reads the session's history, Ask appends to it message by    *)
(* message, and the result is stored when the turn succeeds. A file tool   *)
(* of the turn sends a request down the turn's event stream and waits for  *)
(* the desktop, which asks the user before it overwrites a file.           *)
(*                                                                         *)
(* A history is a Go slice: an array and a length. Turns that start from   *)
(* the same history share its array.                                       *)
(***************************************************************************)
EXTENDS Integers, Sequences, SequencesExt

CONSTANTS
  Turns,     \* chat requests the desktop sends
  Sessions,  \* session identifiers
  Past,      \* a turn that may have been answered before
  MaxIter,   \* bound on the model calls of a turn
  None

Requests == Turns \X (1..MaxIter)

\* Message n of a turn; 0 is the system prompt of a new session.
Messages == Turns \X (0..(2 * MaxIter + 2))

ASSUME ChatAssumption ==
  /\ MaxIter \in Nat \ {0}
  /\ Past \in Turns /\ Sessions # {}
  /\ None \notin Messages

VARIABLES
  arrays,    \* backing arrays, each named for the message it was made for
  sessions,  \* server.sessions
  turn,      \* the backend's side of each turn
  pending,   \* server.pending: file requests that are registered
  answer,    \* what the channel of each turn's request holds
  stream,    \* events sent to the desktop and not read
  desk,      \* the desktop's side of each turn
  busy,      \* the chat view's busy
  exists,    \* the file is there
  opens,     \* history: turns that started with an empty history
  told,      \* history: what was said in the turns each session remembers
  mixed      \* history: sessions that had two turns at a time

backend == <<arrays, sessions, turn, opens, told, mixed>>
bridge == <<pending, answer>>
desktop == <<stream, desk, busy, exists>>
vars == <<backend, bridge, desktop>>

NoSlice == [array |-> None, len |-> 0]

Slices == [array : Messages \cup {None}, len : Nat]

\* The handler of a chat request.
TurnRows ==
  [at : {"idle", "ask", "model", "tool", "file", "save", "done", "failed"},
   session : Sessions \cup {None}, slice : Slices, said : 0..(2 * MaxIter + 2),
   asked : 0..MaxIter, result : Requests \cup {None}]

DeskRows ==
  [at : {"idle", "reading", "dialog", "post", "answered", "threw"}, req : Requests \cup {None}]

StreamEvents == {<<"done", 0>>, <<"error", 0>>} \cup ({"file"} \X (1..MaxIter))

Live(t) == turn[t].at \notin {"idle", "done", "failed"}

TypeOK ==
  /\ DOMAIN arrays \subseteq Messages
  /\ arrays \in [DOMAIN arrays -> Seq(Messages \cup {None})]
  /\ sessions \in [Sessions -> Slices]
  /\ turn \in [Turns -> TurnRows]
  /\ pending \subseteq Requests
  /\ answer \in [Turns -> Requests \cup {None}]
  /\ stream \in [Turns -> Seq(StreamEvents)]
  /\ desk \in [Turns -> DeskRows]
  /\ busy \in BOOLEAN /\ exists \in BOOLEAN
  /\ opens \subseteq Turns /\ mixed \subseteq Sessions
  /\ told \in [Sessions -> Seq(Messages)]

\* The history Past may have left in some session: a prompt, a question and an
\* answer, in an array with a free slot.
Remembered == [array |-> <<Past, 2>>, len |-> 3]

Init ==
  \E first \in {None, CHOOSE s \in Sessions : TRUE} :
    /\ sessions = [s \in Sessions |-> IF s = first THEN Remembered ELSE NoSlice]
    /\ told = [s \in Sessions |-> IF s = first THEN <<<<Past, 0>>, <<Past, 1>>, <<Past, 2>>>> ELSE <<>>]
    /\ opens = IF first = None THEN {} ELSE {Past}
    /\ arrays = [m \in {<<Past, 2>>} |-> <<<<Past, 0>>, <<Past, 1>>, <<Past, 2>>, None>>]
    /\ turn = [t \in Turns |->
         [at |-> IF t = Past THEN "done" ELSE "idle", session |-> IF t = Past THEN first ELSE None,
          slice |-> NoSlice, said |-> IF t = Past THEN 2 ELSE 0, asked |-> 0, result |-> None]]
    /\ desk = [t \in Turns |-> [at |-> IF t = Past THEN "answered" ELSE "idle", req |-> None]]
    /\ stream = [t \in Turns |-> <<>>]
    /\ pending = {} /\ answer = [t \in Turns |-> None]
    /\ exists = FALSE /\ busy = FALSE
    /\ mixed = {}

-----------------------------------------------------------------------------
\* Slices.

Content(sl) == IF sl.array = None THEN <<>> ELSE SubSeq(arrays[sl.array], 1, sl.len)

\* The content of a full slice and message m, in an array twice as large.
Grown(heap, sl, m) ==
  [i \in 1..(IF sl.len = 0 THEN 1 ELSE 2 * sl.len) |->
     IF i <= sl.len THEN heap[sl.array][i] ELSE IF i = sl.len + 1 THEN m ELSE None]

\* append: in place while the array has room, else in a new array.
AppendTo(heap, sl, m) ==
  IF sl.array # None /\ sl.len < Len(heap[sl.array])
    THEN [heap |-> [heap EXCEPT ![sl.array][sl.len + 1] = m],
          slice |-> [sl EXCEPT !.len = @ + 1]]
    ELSE [heap |-> [k \in DOMAIN heap \cup {m} |-> IF k = m THEN Grown(heap, sl, m) ELSE heap[k]],
          slice |-> [array |-> m, len |-> sl.len + 1]]

\* Turn t says its next message and goes on.
Say(t, where) ==
  LET a == AppendTo(arrays, turn[t].slice, <<t, turn[t].said + 1>>) IN
  /\ arrays' = a.heap
  /\ turn' = [turn EXCEPT ![t].slice = a.slice, ![t].said = @ + 1, ![t].at = where]

End(t, how) == turn' = [turn EXCEPT ![t].at = how, ![t].slice = NoSlice, ![t].result = None]

\* An event and the number of the file request it carries; nobody reads the stream
\* of a chat() that threw.
Send(t, kind, n) ==
  stream' = IF desk[t].at = "threw" THEN stream ELSE [stream EXCEPT ![t] = Append(@, <<kind, n>>)]

-----------------------------------------------------------------------------
\* handleChat and Ask.

\* Mutant of HistoryOf: new sessions start from a pooled buffer.
PooledHistory(s) ==
  IF sessions[s] = NoSlice
    THEN [array |-> CHOOSE m \in DOMAIN arrays : TRUE, len |-> 0]
    ELSE sessions[s]

\* sessions[id], read under the mutex.
HistoryOf(s) == sessions[s]

\* The desktop sends a question of session s and its handler reads the history.
\* The composer is disabled while any turn keeps the view busy, the examples of a
\* conversation without messages are not.
Ask(t) ==
  /\ desk[t].at = "idle"
  /\ desk' = [desk EXCEPT ![t].at = "reading"]
  /\ busy' = TRUE
  /\ \E s \in Sessions :
       /\ busy => \A u \in Turns : turn[u].session # s
       /\ turn' = [turn EXCEPT ![t].at = "ask", ![t].session = s, ![t].slice = HistoryOf(s)]
       /\ opens' = IF HistoryOf(s).len = 0 THEN opens \cup {t} ELSE opens
       /\ mixed' = mixed \cup
            {x \in {s} : \E u \in Turns : Live(u) /\ turn[u].session = x}
  /\ UNCHANGED <<arrays, sessions, told, bridge, stream, exists>>

\* The catalog, the skills or the roles cannot be resolved.
AskFails(t) ==
  /\ turn[t].at = "ask"
  /\ End(t, "failed")
  /\ Send(t, "error", 0)
  /\ UNCHANGED <<arrays, sessions, opens, told, mixed, bridge, desk, busy, exists>>

\* The system prompt of an empty history, and the question.
Begin(t) ==
  /\ turn[t].at = "ask"
  /\ LET sl == turn[t].slice
         a == IF sl.len = 0 THEN AppendTo(arrays, sl, <<t, 0>>)
                            ELSE [heap |-> arrays, slice |-> sl]
         b == AppendTo(a.heap, a.slice, <<t, 1>>) IN
     /\ arrays' = b.heap
     /\ turn' = [turn EXCEPT ![t].slice = b.slice, ![t].said = 1, ![t].at = "model"]
  /\ UNCHANGED <<sessions, opens, told, mixed, bridge, desktop>>

\* Mutant of Fail: the history of a failed turn is stored too.
FailSaves(t) ==
  /\ turn[t].at = "model"
  /\ End(t, "failed")
  /\ Send(t, "error", 0)
  /\ sessions' = [sessions EXCEPT ![turn[t].session] = turn[t].slice]
  /\ UNCHANGED <<arrays, opens, told, mixed, bridge, desk, busy, exists>>

\* The model fails, or the iterations are used up.
Fail(t) ==
  /\ turn[t].at = "model"
  /\ End(t, "failed")
  /\ Send(t, "error", 0)
  /\ UNCHANGED <<arrays, sessions, opens, told, mixed, bridge, desk, busy, exists>>

\* The model answers with a final text, or with one tool call.
Complete(t) ==
  /\ turn[t].at = "model" /\ turn[t].asked < MaxIter
  /\ \/ Say(t, "save")
     \/ Say(t, "tool")
  /\ UNCHANGED <<sessions, opens, told, mixed, bridge, desktop>>

\* The tool the model called is not in the turn's catalog: its call stays in
\* the array.
Unavailable(t) ==
  /\ turn[t].at = "tool"
  /\ End(t, "failed")
  /\ Send(t, "error", 0)
  /\ UNCHANGED <<arrays, sessions, opens, told, mixed, bridge, desk, busy, exists>>

\* A tool of the backend answers.
RunTool(t) ==
  /\ turn[t].at = "tool"
  /\ LET a == AppendTo(arrays, turn[t].slice, <<t, turn[t].said + 1>>) IN
     /\ arrays' = a.heap
     /\ turn' = [turn EXCEPT ![t].slice = a.slice, ![t].said = @ + 1, ![t].asked = @ + 1,
                             ![t].at = "model", ![t].result = None]
  /\ UNCHANGED <<sessions, opens, told, mixed, bridge, desktop>>

\* RequestFile registers the request and sends it.
RequestFile(t) ==
  /\ turn[t].at = "tool"
  /\ LET r == <<t, turn[t].asked + 1>> IN
     /\ turn' = [turn EXCEPT ![t].at = "file", ![t].asked = @ + 1, ![t].result = None]
     /\ pending' = pending \cup {r}
     /\ Send(t, "file", r[2])
  /\ UNCHANGED <<arrays, sessions, opens, told, mixed, answer, desk, busy, exists>>

\* Mutant of Resume: the registration is not taken away.
ResumeRegistered(t, v) ==
  /\ turn[t].at = "file"
  /\ LET a == AppendTo(arrays, turn[t].slice, <<t, turn[t].said + 1>>) IN
     /\ arrays' = a.heap
     /\ turn' = [turn EXCEPT ![t].slice = a.slice, ![t].said = @ + 1,
                             ![t].at = "model", ![t].result = v]
  /\ answer' = [answer EXCEPT ![t] = None]
  /\ UNCHANGED <<sessions, opens, told, mixed, pending, desktop>>

\* The wait ends with result v, which becomes the tool's message; the deferred
\* function takes the registration away.
Resume(t, v) ==
  /\ turn[t].at = "file"
  /\ LET a == AppendTo(arrays, turn[t].slice, <<t, turn[t].said + 1>>) IN
     /\ arrays' = a.heap
     /\ turn' = [turn EXCEPT ![t].slice = a.slice, ![t].said = @ + 1,
                             ![t].at = "model", ![t].result = v]
  /\ pending' = pending \ {<<t, turn[t].asked>>}
  /\ answer' = [answer EXCEPT ![t] = None]
  /\ UNCHANGED <<sessions, opens, told, mixed, desktop>>

FileAnswered(t) == answer[t] # None /\ Resume(t, answer[t])

\* Mutant of FileTimeout: only a client that is gone ends the wait.
FileCancelled(t) == desk[t].at = "threw" /\ Resume(t, None)

\* 120 seconds, or the client is gone.
FileTimeout(t) == Resume(t, None)

\* The messages of a turn, the system prompt with the first of a session.
Spoken(t) ==
  (IF t \in opens THEN <<<<t, 0>>>> ELSE <<>>) \o [n \in 1..turn[t].said |-> <<t, n>>]

\* The history is stored under the mutex, then the turn is called done.
Save(t) ==
  /\ turn[t].at = "save"
  /\ End(t, "done")
  /\ sessions' = [sessions EXCEPT ![turn[t].session] = turn[t].slice]
  /\ told' = [told EXCEPT ![turn[t].session] = @ \o Spoken(t)]
  /\ Send(t, "done", 0)
  /\ UNCHANGED <<arrays, opens, mixed, bridge, desk, busy, exists>>

-----------------------------------------------------------------------------
\* The desktop, which reads a turn's stream one event at a time.

Reads(t, kinds) == desk[t].at = "reading" /\ stream[t] # <<>> /\ Head(stream[t])[1] \in kinds
Requested(t) == <<t, Head(stream[t])[2]>>
Take(t) == stream' = [stream EXCEPT ![t] = Tail(@)]

\* chat() throws; nothing reads its stream any more, and any turn's end makes the
\* view free again.
Throw(t) ==
  /\ busy' = FALSE
  /\ desk' = [desk EXCEPT ![t] = [at |-> "threw", req |-> None]]
  /\ stream' = [stream EXCEPT ![t] = <<>>]

\* The file is read or the path refused, or a new file is written.
HandleFile(t) ==
  /\ Reads(t, {"file"})
  /\ Take(t)
  /\ desk' = [desk EXCEPT ![t] = [at |-> "post", req |-> Requested(t)]]
  /\ exists' \in {exists, TRUE}
  /\ UNCHANGED <<backend, bridge, busy>>

\* The file to write exists: the user is asked, without a timer.
AskOverwrite(t) ==
  /\ Reads(t, {"file"}) /\ exists
  /\ Take(t)
  /\ desk' = [desk EXCEPT ![t] = [at |-> "dialog", req |-> Requested(t)]]
  /\ UNCHANGED <<backend, bridge, busy, exists>>

\* The user lets the file be overwritten, or not.
AnswerOverwrite(t) ==
  /\ desk[t].at = "dialog"
  /\ desk' = [desk EXCEPT ![t].at = "post"]
  /\ UNCHANGED <<backend, bridge, stream, busy, exists>>

\* Mutant of Registered: the answer goes to whatever the turn waits for.
RegisteredTurn(r) == \E p \in pending : p[1] = r[1]

Registered(r) == r \in pending

\* resolveFile finds the request and fills its channel, or the POST fails; an
\* answer that is lost on its way back fails too. A POST that fails makes chat()
\* throw, which leaves the stream unread and the backend's turn running.
PostFile(t) ==
  /\ desk[t].at = "post"
  /\ \/ /\ Registered(desk[t].req)
        /\ answer' = [answer EXCEPT ![t] = desk[t].req]
        /\ \/ desk' = [desk EXCEPT ![t] = [at |-> "reading", req |-> None]]
              /\ UNCHANGED <<stream, busy>>
           \/ Throw(t)
     \/ Throw(t) /\ UNCHANGED answer
  /\ UNCHANGED <<backend, pending, exists>>

\* The last event, or a stream that breaks.
EndStream(t) ==
  /\ \/ /\ Reads(t, {"done"})
        /\ Take(t)
        /\ desk' = [desk EXCEPT ![t].at = "answered"]
        /\ busy' = FALSE
     \/ Reads(t, {"error"}) /\ Throw(t)
     \/ desk[t].at = "reading" /\ Throw(t)
  /\ UNCHANGED <<backend, bridge, exists>>

-----------------------------------------------------------------------------
BackendStep(t) ==
  \/ AskFails(t) \/ Begin(t) \/ Fail(t) \/ Complete(t) \/ Unavailable(t) \/ RunTool(t)
  \/ RequestFile(t) \/ FileAnswered(t) \/ FileTimeout(t) \/ Save(t)

Next ==
  \E t \in Turns :
    \/ Ask(t) \/ BackendStep(t)
    \/ HandleFile(t) \/ AskOverwrite(t) \/ AnswerOverwrite(t) \/ PostFile(t) \/ EndStream(t)

\* The backend's code runs on, its calls of the model end, and the timer runs down.
Fairness == \A t \in Turns : WF_vars(BackendStep(t))

Spec == Init /\ [][Next]_vars
FairSpec == Spec /\ Fairness

-----------------------------------------------------------------------------
\* As long as a session never had two turns at a time, its history is the whole
\* turns that were answered, one after the other: a turn that failed, on its way
\* through the same backing array, has left nothing in it.
SequentialHistory ==
  \A s \in Sessions \ mixed : Content(sessions[s]) = told[s]

\* However many turns of a session overlap, no message of another session gets
\* into its history or into a running turn, and a history has one system prompt,
\* its first message.
SessionsApart ==
  /\ \A s \in Sessions : \A i \in DOMAIN Content(sessions[s]) :
       LET m == Content(sessions[s])[i] IN
       turn[m[1]].session = s /\ (m[2] = 0 <=> i = 1)
  /\ \A t \in Turns : Live(t) =>
       \A m \in Range(Content(turn[t].slice)) : turn[m[1]].session = turn[t].session

\* What the model is told of a file request is what the desktop did for that very
\* request, never the late answer of an earlier one; and only a request somebody
\* waits for is registered, so that an answer is never left without a reader.
FileAnswerFits ==
  /\ \A t \in Turns :
       turn[t].result # None => turn[t].result = <<t, turn[t].asked>>
  /\ \A r \in pending : turn[r[1]].at = "file" /\ turn[r[1]].asked = r[2]

\* Every turn ends in the backend, whatever the user and the desktop do.
EveryTurnEnds == \A t \in Turns : Live(t) ~> ~Live(t)

=============================================================================
