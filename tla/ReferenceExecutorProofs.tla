----------------------- MODULE ReferenceExecutorProofs -----------------------
(***************************************************************************)
(* Theorems of ReferenceExecutor for every set of calls, keys, requests    *)
(* and package files, every seed and every number of starts.               *)
(***************************************************************************)
EXTENDS ReferenceExecutor, FiniteSetTheorems, TLAPS

\* The backend of this start is one of the starts made, and is gone once it was
\* stopped.
StartsInv ==
  /\ agentd \subseteq 1..launch
  /\ stopped => launch \notin agentd

ProcessInv == StartupTypeOK /\ StartsInv /\ ClosedOwnsNothing

\* An entry stands for one write.
EntryInv(k) ==
  /\ done[k] # None /\ done[k].print # None =>
       /\ done[k].before \in Rows /\ done[k].after \in Rows
       /\ done[k].after.ver = done[k].before.ver + 1
  /\ done[k] # None => row # None

StoreInv ==
  /\ row \in Rows \cup {None}
  /\ done \in [Keys -> Entries \cup {None}]
  /\ VersionCountsKeys
  /\ \A k \in Keys : EntryInv(k)

\* A dialog shows the record, or one of an earlier version.
DialogInv(c) ==
  desk[c].at = "asking" =>
    /\ desk[c].req # 0 /\ desk[c].box = "open" /\ desk[c].shown \in Rows
    /\ row # None
    /\ desk[c].shown.ver <= row.ver
    /\ desk[c].shown.ver = row.ver => row = desk[c].shown

\* A report that succeeded was given what its key's entry holds.
AnswerInv(c) ==
  /\ desk[c].at = "answered" <=> desk[c].status # None
  /\ desk[c].status = "succeeded" /\ desk[c].shown # None =>
       /\ desk[c].req # 0
       /\ done[Key(RequestOf(c))] # None
       /\ done[Key(RequestOf(c))].print = Fingerprint(RequestOf(c))
       /\ desk[c].result = done[Key(RequestOf(c))].after
  /\ c \in wrote => desk[c].at = "answered" /\ desk[c].status = "succeeded"

IInv ==
  /\ ProcessInv /\ StoreInv
  /\ package \in DOMAIN Files
  /\ StoreOpen => row # None
  /\ desk \in [Calls -> CallRows] /\ wrote \subseteq Calls
  /\ \A c \in Calls : DialogInv(c) /\ AnswerInv(c)

-----------------------------------------------------------------------------
\* The process.

\* What is open and running only shrinks.
Shrinks ==
  /\ open' \subseteq open /\ agentd' \subseteq agentd
  /\ closed' \in BOOLEAN /\ stopped' \in BOOLEAN

\* What close() leaves, in a process that goes on.
LEMMA CloseAllReleases ==
  ASSUME ProcessInv, CloseAll, launch' = launch, Alive' => Alive
  PROVE  Shrinks /\ StartsInv' /\ ClosedOwnsNothing'
<1>1. CASE closed
  BY <1>1 DEF ProcessInv, CloseAll, StartsInv, ClosedOwnsNothing, StartupTypeOK, Shrinks
<1>2. CASE ~closed
  <2>1. /\ closed' = TRUE /\ StopAgentd
        /\ open' \in {{}} \cup {{p} : p \in open \ {"handlers"}}
    BY <1>2 DEF CloseAll
  <2>2. agentd' \subseteq agentd /\ stopped' = TRUE /\ launch \notin agentd'
    BY <2>1 DEF StopAgentd, ProcessInv, StartsInv
  <2>3. open' \subseteq open /\ "handlers" \notin open' /\ \A p, q \in open' : p = q
    BY <2>1
  <2>4. QED
    BY <2>1, <2>2, <2>3 DEF Shrinks, ProcessInv, StartsInv, ClosedOwnsNothing
<1>3. QED
  BY <1>1, <1>2

\* before-quit closes everything, or nothing was handed over.
LEMMA BeforeQuitReleases ==
  ASSUME ProcessInv, BeforeQuit, launch' = launch, Alive' => Alive
  PROVE  Shrinks /\ StartsInv' /\ ClosedOwnsNothing'
<1>1. CASE held
  BY <1>1, CloseAllReleases DEF BeforeQuit
<1>2. CASE ~held
  BY <1>2 DEF BeforeQuit, Shrinks, ProcessInv, StartupTypeOK, StartsInv, ClosedOwnsNothing
<1>3. QED
  BY <1>1, <1>2

\* A start opens everything, or closed what it opened again.
LEMMA LaunchKeeps ==
  ASSUME ProcessInv, NEW v \in BOOLEAN, Launch(v)
  PROVE  ProcessInv'
<1> USE StartupAssumption DEF ProcessInv, StartupTypeOK
<1>1. launch' \in 0..MaxLaunches /\ launch' = launch + 1 /\ stopped' = FALSE /\ held' = FALSE
      /\ windows' = {} /\ darwin' = darwin
  BY DEF Launch
<1>2. launch \in Nat /\ launch' \in Nat /\ launch + 1 \in 1..launch' /\ launch + 1 \notin agentd
      /\ agentd \subseteq 1..launch' /\ 1..launch' \subseteq 1..MaxLaunches
  BY <1>1 DEF StartsInv
<1>3. CASE v /\ app' = "spawning" /\ open' = Parts
           /\ agentd' = agentd \cup (IF Bundled THEN {launch'} ELSE {})
           /\ closed' = FALSE /\ quitting' = FALSE
  <2>1. StartupTypeOK'
    BY <1>1, <1>2, <1>3 DEF Phases
  <2>2. StartsInv'
    BY <1>1, <1>2, <1>3 DEF StartsInv
  <2>3. QED
    BY <1>3, <2>1, <2>2 DEF ClosedOwnsNothing
<1>4. CASE app' = "failed" /\ open' \in {{}} \cup {{p} : p \in Parts \ {"handlers"}}
           /\ closed' = TRUE /\ quitting' = TRUE /\ UNCHANGED agentd
  <2>1. StartupTypeOK'
    BY <1>1, <1>2, <1>4 DEF Phases
  <2>2. StartsInv'
    BY <1>1, <1>2, <1>4 DEF StartsInv
  <2>3. "handlers" \notin open' /\ \A p, q \in open' : p = q
    BY <1>4
  <2>4. QED
    BY <1>1, <1>2, <1>4, <2>1, <2>2, <2>3 DEF ClosedOwnsNothing
<1>5. QED
  BY <1>3, <1>4 DEF Launch

\* Nothing of a process outlives it but a backend nobody stopped.
LEMMA ExitKeeps ==
  ASSUME ProcessInv, Exit
  PROVE  ProcessInv' /\ ~StoreOpen'
  BY StartupAssumption DEF ProcessInv, StartupTypeOK, StartsInv, ClosedOwnsNothing, Exit, Phases, Alive, StoreOpen

\* No step of a running process opens the store again.
LEMMA WindKeeps ==
  ASSUME ProcessInv, Wind
  PROVE  ProcessInv' /\ (StoreOpen' => StoreOpen) /\ launch' = launch
<1> USE StartupAssumption DEF ProcessInv, StartupTypeOK, Phases
<1>1. CASE Spawned \/ Loaded \/ OpenWorkbench \/ Activate
  <2>1. /\ UNCHANGED <<darwin, launch, open, agentd, closed, stopped, quitting>>
        /\ app' \in Phases /\ (app' # "down" => app # "down")
        /\ held' \in BOOLEAN /\ windows' \subseteq {"main", "workbench"}
    BY <1>1 DEF Spawned, Loaded, OpenWorkbench, Activate
  <2>2. QED
    BY <2>1 DEF StartsInv, ClosedOwnsNothing, Alive, StoreOpen
<1>2. CASE SpawnFails \/ LoadFails
  <2>1. CloseAll /\ app' = "failed" /\ app # "down" /\ quitting' = TRUE
        /\ UNCHANGED <<darwin, launch, held>> /\ windows' \in {windows, {}}
    BY <1>2 DEF SpawnFails, LoadFails, FailStart
  <2>2. Shrinks /\ StartsInv' /\ ClosedOwnsNothing'
    BY <2>1, CloseAllReleases DEF Alive
  <2>3. QED
    BY <2>1, <2>2 DEF Shrinks, StoreOpen, Parts
<1>3. ASSUME NEW w \in {"main", "workbench"}, CloseWindow(w)
      PROVE  ProcessInv' /\ (StoreOpen' => StoreOpen) /\ launch' = launch
  <2>1. /\ UNCHANGED <<darwin, app, launch>> /\ windows' \subseteq windows
        /\ \/ UNCHANGED <<open, agentd, held, closed, stopped, quitting>>
           \/ LastWindowClosed
    BY <1>3 DEF CloseWindow
  <2>2. CASE UNCHANGED <<open, agentd, held, closed, stopped, quitting>>
    BY <2>1, <2>2 DEF StartsInv, ClosedOwnsNothing, Alive, StoreOpen
  <2>3. CASE LastWindowClosed /\ darwin
    BY <2>1, <2>3 DEF LastWindowClosed, StopAgentd, StartsInv, ClosedOwnsNothing, Alive, StoreOpen
  <2>4. CASE LastWindowClosed /\ ~darwin
    <3>1. BeforeQuit /\ quitting' = TRUE /\ held' = FALSE
      BY <2>4 DEF LastWindowClosed, BeforeQuit
    <3>2. Shrinks /\ StartsInv' /\ ClosedOwnsNothing'
      BY <2>1, <3>1, BeforeQuitReleases DEF Alive
    <3>3. QED
      BY <2>1, <3>1, <3>2 DEF Shrinks, StoreOpen
  <2>5. QED
    BY <2>1, <2>2, <2>3, <2>4
<1>4. CASE Quit
  <2>1. /\ BeforeQuit /\ quitting' = TRUE /\ held' = FALSE
        /\ UNCHANGED <<darwin, app, launch>> /\ windows' \subseteq windows
    BY <1>4 DEF Quit, BeforeQuit
  <2>2. Shrinks /\ StartsInv' /\ ClosedOwnsNothing'
    BY <2>1, BeforeQuitReleases DEF Alive
  <2>3. QED
    BY <2>1, <2>2 DEF Shrinks, StoreOpen
<1>5. CASE BackendDies
  BY <1>5 DEF BackendDies, StartsInv, ClosedOwnsNothing, Alive, StoreOpen
<1>6. QED
  BY <1>1, <1>2, <1>3, <1>4, <1>5 DEF Wind

-----------------------------------------------------------------------------
\* The store.

\* The table of an earlier version counts as writes already made.
LEMMA InitStore ==
  ASSUME Init
  PROVE  StoreInv
<1>1. PICK old \in SUBSET Legacy :
        /\ done = [k \in Keys |->
                    IF k \in old THEN [print |-> None, before |-> None, after |-> None] ELSE None]
        /\ row = IF old = {} THEN None ELSE [Seed EXCEPT !.ver = 1 + Cardinality(old)]
  BY DEF Init
<1>2. [print |-> None, before |-> None, after |-> None] \in Entries /\ None \notin Entries
  BY ExecutorAssumption DEF Entries
<1>3. {k \in Keys : done[k] # None} = old
  BY <1>1, <1>2, ExecutorAssumption
<1>4. IsFiniteSet(old) /\ Cardinality(old) \in Nat
  BY ExecutorAssumption, FS_Subset, FS_CardinalityType
<1>5. row \in Rows \cup {None} /\ (row # None => row.ver = 1 + Cardinality(old))
  BY <1>1, <1>4, ExecutorAssumption DEF Rows
<1>6. old # {} => row # None
  BY <1>1, <1>5, <1>4, ExecutorAssumption DEF Rows
<1>7. \A k \in Keys : EntryInv(k)
  BY <1>1, <1>2, <1>6 DEF EntryInv
<1>8. done \in [Keys -> Entries \cup {None}]
  BY <1>1, <1>2
<1>9. QED
  BY <1>3, <1>5, <1>7, <1>8 DEF StoreInv, VersionCountsKeys

\* A start finds the record or seeds it.
LEMMA SeedKeeps ==
  ASSUME StoreInv, SeedStore, done' = done
  PROVE  StoreInv' /\ row' # None /\ (row # None => row' = row)
<1>1. row' \in Rows /\ row' # None /\ (row # None => row' = row) /\ (row = None => row' = Seed)
  BY ExecutorAssumption DEF SeedStore, StoreInv
<1>2. CASE row = None
  <2>1. {k \in Keys : done'[k] # None} = {}
    BY <1>2 DEF StoreInv, EntryInv
  <2>2. VersionCountsKeys'
    BY <1>1, <1>2, <2>1, FS_EmptySet, ExecutorAssumption DEF VersionCountsKeys
  <2>3. QED
    BY <1>1, <2>2 DEF StoreInv, EntryInv
<1>3. CASE row # None
  BY <1>1, <1>3 DEF StoreInv, EntryInv, VersionCountsKeys
<1>4. QED
  BY <1>2, <1>3

\* A write advances the record and files it.
LEMMA WriteKeeps ==
  ASSUME StoreInv, NEW i \in DOMAIN Requests, row # None,
         done[Key(Requests[i])] = None, ValidProgress(Requests[i]),
         row' = Proposed(Requests[i], row),
         done' = [done EXCEPT ![Key(Requests[i])] =
                    [print |-> Fingerprint(Requests[i]), before |-> row, after |-> row']]
  PROVE  /\ StoreInv' /\ row' \in Rows /\ row' # None /\ row'.ver = row.ver + 1
         /\ done'[Key(Requests[i])] # None
         /\ done'[Key(Requests[i])].print = Fingerprint(Requests[i])
         /\ done'[Key(Requests[i])].after = row'
<1> DEFINE q == Requests[i]
           filed == {k \in Keys : done[k] # None}
           e == [print |-> Fingerprint(q), before |-> row, after |-> row']
<1>1. row \in Rows /\ Key(q) \in Keys /\ Note(q) \in STRING \cup {None}
  BY ExecutorAssumption DEF StoreInv
<1>2. row' \in Rows /\ row'.ver = row.ver + 1 /\ row' # None
  BY <1>1, ExecutorAssumption DEF Proposed, Rows, ValidProgress
<1>3. Fingerprint(q) \in Prints
  BY DEF Prints
<1>4. e \in Entries /\ e # None
  BY <1>1, <1>2, <1>3, ExecutorAssumption DEF Entries
<1>5. done' \in [Keys -> Entries \cup {None}] /\ done'[Key(q)] = e
      /\ \A k \in Keys : k # Key(q) => done'[k] = done[k]
  BY <1>1, <1>4 DEF StoreInv
<1>6. VersionCountsKeys'
  <2>1. {k \in Keys : done'[k] # None} = filed \cup {Key(q)} /\ Key(q) \notin filed
    BY <1>1, <1>4, <1>5
  <2>2. IsFiniteSet(filed)
    BY ExecutorAssumption, FS_Subset
  <2>3. Cardinality(filed \cup {Key(q)}) = Cardinality(filed) + 1 /\ Cardinality(filed) \in Nat
    BY <2>1, <2>2, FS_AddElement, FS_CardinalityType
  <2>4. row.ver = 1 + Cardinality(filed)
    BY DEF StoreInv, VersionCountsKeys
  <2>5. QED
    BY <1>2, <2>1, <2>3, <2>4 DEF VersionCountsKeys
<1>7. \A k \in Keys : EntryInv(k)'
  BY <1>1, <1>2, <1>4, <1>5 DEF StoreInv, EntryInv
<1>8. QED
  BY <1>2, <1>4, <1>5, <1>6, <1>7 DEF StoreInv

-----------------------------------------------------------------------------
\* The calls.

\* Records grow older, entries stay.
Advances ==
  /\ StoreInv'
  /\ row # None => /\ row' # None /\ row.ver <= row'.ver
                   /\ row'.ver = row.ver => row' = row
  /\ \A k \in Keys : done[k] # None => done'[k] = done[k]

\* What leaves the store alone.
LEMMA UnchangedAdvances ==
  ASSUME StoreInv, UNCHANGED storeVars
  PROVE  Advances
<1>1. row' = row /\ done' = done
  BY DEF storeVars
<1>2. StoreInv'
  BY <1>1 DEF StoreInv, VersionCountsKeys, EntryInv
<1>3. row # None => row.ver <= row.ver
  BY DEF StoreInv, Rows
<1>4. QED
  BY <1>1, <1>2, <1>3 DEF Advances

CallInv(c) == DialogInv(c) /\ AnswerInv(c)

\* A call keeps what it knows while the others go on.
LEMMA OtherCallKeeps ==
  ASSUME IInv, Advances, NEW d \in Calls, desk'[d] = desk[d],
         d \in wrote' => d \in wrote
  PROVE  CallInv(d)'
<1>1. desk[d] \in CallRows /\ CallInv(d)
  BY DEF IInv, CallInv
<1>2. DialogInv(d)'
  BY <1>1 DEF CallInv, DialogInv, Advances, IInv, StoreInv, Rows
<1>3. AnswerInv(d)'
  <2>1. desk[d].req # 0 => Key(RequestOf(d)) \in Keys /\ RequestOf(d)' = RequestOf(d)
    BY <1>1, ExecutorAssumption DEF CallRows, RequestOf
  <2>2. QED
    BY <1>1, <2>1 DEF CallInv, AnswerInv, Advances
<1>4. QED
  BY <1>2, <1>3 DEF CallInv

\* One call takes a new row.
LEMMA OneCallMoves ==
  ASSUME IInv, Advances, NEW c \in Calls, NEW r \in CallRows,
         desk' = [desk EXCEPT ![c] = r],
         wrote' = wrote \/ wrote' = wrote \cup {c}, CallInv(c)',
         ProcessInv', StoreOpen' => StoreOpen, package' \in DOMAIN Files
  PROVE  IInv'
<1>1. desk' \in [Calls -> CallRows] /\ wrote' \subseteq Calls
      /\ \A d \in Calls \ {c} : desk'[d] = desk[d] /\ (d \in wrote' => d \in wrote)
  BY DEF IInv
<1>2. \A d \in Calls : CallInv(d)'
  BY <1>1, OtherCallKeeps
<1>3. StoreInv' /\ (StoreOpen' => row' # None)
  BY DEF Advances, IInv
<1>4. QED
  BY <1>1, <1>2, <1>3 DEF IInv, CallInv

\* A row a call may take without a write: it did not succeed with a report, and
\* a dialog shows the record.
QuietRow(r) ==
  /\ r \in CallRows
  /\ r.at = "answered" <=> r.status # None
  /\ r.status = "succeeded" => r.shown = None
  /\ r.at = "asking" =>
       r.req # 0 /\ r.box = "open" /\ row \in Rows /\ row # None /\ r.shown = row

\* A call that takes such a row disturbs nobody.
LEMMA QuietCallMoves ==
  ASSUME IInv, NEW c \in Calls, NEW r, QuietRow(r),
         desk' = [desk EXCEPT ![c] = r], c \notin wrote,
         UNCHANGED <<processVars, package, storeVars, wrote>>
  PROVE  IInv'
<1>1. Advances /\ row' = row
  BY UnchangedAdvances DEF IInv, storeVars
<1>2. ProcessInv' /\ StoreOpen' = StoreOpen /\ package' \in DOMAIN Files
  BY DEF IInv, processVars, ProcessInv, StartupTypeOK, StartsInv, ClosedOwnsNothing, Alive, StoreOpen
<1>3. desk'[c] = r /\ r \in CallRows
  BY DEF IInv, QuietRow
<1>4. DialogInv(c)'
  <2>1. r.at = "asking" => r.shown.ver <= row.ver
    BY DEF Rows, QuietRow
  <2>2. QED
    BY <1>1, <1>3, <2>1 DEF DialogInv, QuietRow
<1>5. AnswerInv(c)'
  BY <1>3 DEF AnswerInv, QuietRow
<1>6. QED
  BY <1>1, <1>2, <1>3, <1>4, <1>5, OneCallMoves DEF CallInv

\* An answer given without a dialog is such a row.
LEMMA FreshAnswerIsQuiet ==
  ASSUME NEW d \in CallRows, d.shown = None,
         NEW s \in Statuses, NEW v \in Rows \cup {None}
  PROVE  QuietRow(Answered(d, s, v))
<1>1. s # None
  BY ExecutorAssumption
<1> DEFINE a == Answered(d, s, v)
<1>2. a \in CallRows /\ a.at = "answered" /\ a.status = s /\ a.shown = None
  BY DEF Answered, Idle, CallRows
<1> HIDE DEF a
<1>3. QuietRow(a)
  BY <1>1, <1>2 DEF QuietRow
<1>4. QED
  BY <1>3 DEF a

\* A delivery ends in such a row.
LEMMA DeliveredIsQuiet ==
  ASSUME IInv, NEW d \in CallRows, d.shown = None, d.status = None, d.req # 0, NEW q
  PROVE  QuietRow(Preview(d, q)) /\ QuietRow(Read(d, q)) /\ QuietRow(Answered(d, "failed", None))
<1>1. /\ {"failed", "succeeded", "source_conflict"} \subseteq Statuses
      /\ row \in Rows \cup {None} /\ (StoreOpen => row # None)
  BY DEF Statuses, IInv, StoreInv
<1> DEFINE asking == [d EXCEPT !.at = "asking", !.box = "open", !.shown = row]
<1>2. \A s \in {"failed", "succeeded", "source_conflict"}, v \in {row, None} :
        QuietRow(Answered(d, s, v))
  BY <1>1, FreshAnswerIsQuiet
<1>3. ASSUME StoreOpen PROVE QuietRow(asking)
  <2>1. /\ asking \in CallRows /\ asking.req = d.req /\ asking.box = "open"
        /\ asking.at = "asking" /\ asking.status = None /\ asking.shown = row
    BY <1>1 DEF CallRows
  <2>2. None # "succeeded"
    BY <1>1, ExecutorAssumption
  <2> HIDE DEF asking
  <2>3. QED
    BY <1>1, <1>3, <2>1, <2>2 DEF QuietRow
<1>4. Preview(d, q) \in {Answered(d, "failed", None), Answered(d, "source_conflict", None)}
      \/ (StoreOpen /\ Preview(d, q) = asking)
  BY DEF Preview
<1>5. Read(d, q) \in {Answered(d, "failed", None), Answered(d, "source_conflict", None),
                      Answered(d, "succeeded", row)}
  BY DEF Read
<1> HIDE DEF asking
<1>6. QED
  BY <1>2, <1>3, <1>4, <1>5

\* A request that arrives.
LEMMA DeliverKeeps ==
  ASSUME IInv, NEW c \in Calls, Deliver(c)
  PROVE  IInv'
<1>1. PICK i \in DOMAIN Requests :
        desk' = [desk EXCEPT ![c] =
            IF ~Accepted(Requests[i]) THEN Answered([Idle EXCEPT !.req = i], "failed", None)
            ELSE IF ToolName(Requests[i]) = "report_production_progress"
              THEN Preview([Idle EXCEPT !.req = i], Requests[i])
            ELSE Read([Idle EXCEPT !.req = i], Requests[i])]
  BY DEF Deliver
<1> DEFINE d == [Idle EXCEPT !.req = i]
<1>2. d \in CallRows /\ d.shown = None /\ d.status = None /\ d.req # 0
  BY ExecutorAssumption DEF Idle, CallRows
<1>3. c \notin wrote
  BY DEF Deliver, IInv, AnswerInv
<1> HIDE DEF d
<1>4. QuietRow(Preview(d, Requests[i])) /\ QuietRow(Read(d, Requests[i]))
      /\ QuietRow(Answered(d, "failed", None))
  BY <1>2, DeliveredIsQuiet
<1>5. \E r : QuietRow(r) /\ desk' = [desk EXCEPT ![c] = r]
  BY <1>1, <1>4 DEF d
<1>6. QED
  BY <1>3, <1>5, QuietCallMoves DEF Deliver

\* A call that has not succeeded has not written.
LEMMA EndKeeps ==
  ASSUME IInv, NEW c \in Calls, Decline(c) \/ Expire(c) \/ ClickLate(c)
  PROVE  IInv'
<1>1. desk[c] \in CallRows /\ DialogInv(c) /\ AnswerInv(c)
  BY DEF IInv
<1>2. "cancelled" \in Statuses /\ None \notin Statuses /\ "cancelled" # "succeeded"
  BY ExecutorAssumption DEF Statuses
<1>3. CASE Decline(c)
  <2>1. c \notin wrote
    BY <1>1, <1>3 DEF Decline, AnswerInv
  <2> DEFINE r == Answered(desk[c], "cancelled", None)
  <2>2. r \in CallRows /\ r.at = "answered" /\ r.status = "cancelled"
    BY <1>1, <1>2 DEF Answered, Idle, CallRows
  <2>3. QuietRow(r)
    BY <1>2, <2>2 DEF QuietRow
  <2>4. desk' = [desk EXCEPT ![c] = Answered(desk[c], "cancelled", None)]
    BY <1>3 DEF Decline, IInv
  <2>5. QED
    BY <1>3, <2>1, <2>3, <2>4, QuietCallMoves DEF Decline
<1>4. CASE Expire(c)
  <2> DEFINE r == [desk[c] EXCEPT !.at = "answered", !.status = "cancelled"]
  <2>1. c \notin wrote
    BY <1>1, <1>4 DEF Expire, AnswerInv
  <2>2. r \in CallRows /\ r.at = "answered" /\ r.status = "cancelled"
    BY <1>1, <1>2 DEF CallRows
  <2>3. QuietRow(r)
    BY <1>2, <2>2 DEF QuietRow
  <2>4. desk' = [desk EXCEPT ![c] = r]
    BY <1>4 DEF Expire, IInv
  <2>5. QED
    BY <1>4, <2>1, <2>3, <2>4, QuietCallMoves DEF Expire
<1>5. CASE ClickLate(c)
  <2> DEFINE r == [desk[c] EXCEPT !.box = "none"]
  <2>1. /\ desk' = [desk EXCEPT ![c] = r] /\ r \in CallRows /\ desk[c].at = "answered"
        /\ UNCHANGED <<processVars, package, storeVars, wrote>>
    BY <1>1, <1>5 DEF ClickLate, CallRows, IInv
  <2>2. r.at = desk[c].at /\ r.req = desk[c].req /\ r.shown = desk[c].shown
        /\ r.status = desk[c].status /\ r.result = desk[c].result
    BY <1>1 DEF CallRows
  <2>3. Advances /\ done' = done /\ wrote' = wrote
    BY <2>1, UnchangedAdvances DEF IInv, storeVars
  <2>4. desk'[c] = r
    BY <2>1 DEF IInv
  <2> HIDE DEF r
  <2>5. DialogInv(c)' /\ AnswerInv(c)'
    BY <1>1, <2>1, <2>2, <2>3, <2>4 DEF DialogInv, AnswerInv, RequestOf
  <2>6. ProcessInv' /\ StoreOpen' = StoreOpen /\ package' \in DOMAIN Files
    BY <2>1 DEF IInv, processVars, ProcessInv, StartupTypeOK, StartsInv, ClosedOwnsNothing, Alive, StoreOpen
  <2>7. QED
    BY <2>1, <2>3, <2>5, <2>6, OneCallMoves DEF CallInv
<1>6. QED
  BY <1>3, <1>4, <1>5

-----------------------------------------------------------------------------
\* The confirmed report.

\* The row of a call that is answered after its dialog.
LEMMA AnswerRow ==
  ASSUME IInv, NEW c \in Calls, NEW s \in Statuses, NEW v \in Rows \cup {None},
         Answer(c, s, v)
  PROVE  \E r \in CallRows :
           /\ desk' = [desk EXCEPT ![c] = r]
           /\ r.at = "answered" /\ r.status = s /\ r.result = v
           /\ v = None => r.shown = None
           /\ v # None => r.req = desk[c].req /\ r.shown = desk[c].shown
<1> DEFINE r == [Answered(desk[c], s, v) EXCEPT !.box = "none"]
<1>1. desk[c] \in CallRows /\ desk' = [desk EXCEPT ![c] = r]
  BY DEF Answer, IInv
<1>2. r \in CallRows /\ r.at = "answered" /\ r.status = s /\ r.result = v
      /\ (v = None => r.shown = None)
      /\ (v # None => r.req = desk[c].req /\ r.shown = desk[c].shown)
  BY <1>1 DEF Answered, Idle, CallRows
<1> HIDE DEF r
<1>3. QED
  BY <1>1, <1>2

\* A report is refused, repeats its key's answer, or writes.
LEMMA ReportCases ==
  ASSUME NEW c \in Calls, NEW q, Report(c, q)
  PROVE  \/ /\ Answer(c, "failed", None) \/ Answer(c, "source_conflict", None)
            /\ UNCHANGED <<storeVars, wrote>>
         \/ /\ done[Key(q)] # None /\ Repeats(q)
            /\ Answer(c, "succeeded", done[Key(q)].after)
            /\ UNCHANGED <<storeVars, wrote>>
         \/ /\ done[Key(q)] = None /\ Current(q) /\ ValidProgress(q)
            /\ row' = Proposed(q, row)
            /\ done' = [done EXCEPT ![Key(q)] =
                          [print |-> Fingerprint(q), before |-> row, after |-> row']]
            /\ Answer(c, "succeeded", row')
            /\ wrote' = wrote \cup {c}
  BY DEF Report

\* The confirmed report, in each of its cases.
LEMMA ApproveKeeps ==
  ASSUME IInv, NEW c \in Calls, Approve(c)
  PROVE  IInv'
<1> DEFINE q == RequestOf(c)
<1>1. /\ Report(c, q) /\ desk[c].at = "asking" /\ UNCHANGED <<processVars, package>>
      /\ desk[c] \in CallRows /\ DialogInv(c) /\ AnswerInv(c)
  BY DEF Approve, IInv
<1>2. PICK i \in DOMAIN Requests : i = desk[c].req /\ q = Requests[i]
  BY <1>1 DEF DialogInv, CallRows, RequestOf
<1>3. /\ {"failed", "succeeded", "source_conflict"} \subseteq Statuses /\ None \notin Statuses
      /\ None \notin Rows /\ Fingerprint(q) # None /\ Key(q) \in Keys
  BY <1>2, ExecutorAssumption DEF Statuses, Prints
<1>4. c \notin wrote
  BY <1>1 DEF AnswerInv
<1>5. ProcessInv' /\ StoreOpen' = StoreOpen /\ package' \in DOMAIN Files
  BY <1>1 DEF IInv, processVars, ProcessInv, StartupTypeOK, StartsInv, ClosedOwnsNothing, Alive, StoreOpen
<1>6. ASSUME NEW s \in {"failed", "source_conflict"}, Answer(c, s, None), UNCHANGED <<storeVars, wrote>>
      PROVE  IInv'
  <2>1. PICK r \in CallRows : /\ desk' = [desk EXCEPT ![c] = r]
                              /\ r.at = "answered" /\ r.status = s /\ r.shown = None
    BY <1>3, <1>6, AnswerRow
  <2>2. QuietRow(r)
    BY <1>3, <2>1 DEF QuietRow
  <2>3. QED
    BY <1>1, <1>4, <1>6, <2>1, <2>2, QuietCallMoves
<1>7. ASSUME done[Key(q)] # None, Repeats(q), Answer(c, "succeeded", done[Key(q)].after),
             UNCHANGED <<storeVars, wrote>>
      PROVE  IInv'
  <2>1. done[Key(q)].print = Fingerprint(q) /\ done[Key(q)].after \in Rows
    BY <1>3, <1>7 DEF Repeats, IInv, StoreInv, EntryInv
  <2>2. PICK r \in CallRows :
          /\ desk' = [desk EXCEPT ![c] = r]
          /\ r.at = "answered" /\ r.status = "succeeded" /\ r.result = done[Key(q)].after
          /\ r.req = desk[c].req /\ r.shown = desk[c].shown
    BY <1>3, <1>7, <2>1, AnswerRow
  <2>3. Advances /\ done' = done /\ wrote' = wrote
    BY <1>7, UnchangedAdvances DEF IInv, storeVars
  <2>4. desk'[c] = r /\ RequestOf(c)' = q
    BY <2>2 DEF IInv, RequestOf
  <2>5. DialogInv(c)' /\ AnswerInv(c)'
    BY <1>1, <1>3, <1>4, <1>7, <2>1, <2>2, <2>3, <2>4 DEF DialogInv, AnswerInv
  <2>6. QED
    BY <1>5, <2>2, <2>3, <2>5, OneCallMoves DEF CallInv
<1>8. ASSUME done[Key(q)] = None, Current(q), ValidProgress(q), row' = Proposed(q, row),
             done' = [done EXCEPT ![Key(q)] =
                        [print |-> Fingerprint(q), before |-> row, after |-> row']],
             Answer(c, "succeeded", row'), wrote' = wrote \cup {c}
      PROVE  IInv'
  <2>1. row # None /\ StoreInv
    BY <1>8 DEF Current, IInv
  <2>2. /\ StoreInv' /\ row' \in Rows /\ row' # None /\ row'.ver = row.ver + 1
        /\ done'[Key(q)] # None
        /\ done'[Key(q)].print = Fingerprint(q) /\ done'[Key(q)].after = row'
    BY <1>2, <1>8, <2>1, WriteKeeps
  <2>3. Advances
    <3>1. row.ver \in Nat
      BY <2>1 DEF StoreInv, Rows
    <3>2. \A k \in Keys : done[k] # None => done'[k] = done[k]
      BY <1>3, <1>8, <2>1 DEF StoreInv
    <3>3. QED
      BY <2>2, <3>1, <3>2 DEF Advances
  <2>4. PICK r \in CallRows :
          /\ desk' = [desk EXCEPT ![c] = r]
          /\ r.at = "answered" /\ r.status = "succeeded" /\ r.result = row'
          /\ r.req = desk[c].req /\ r.shown = desk[c].shown
    BY <1>3, <1>8, <2>2, AnswerRow
  <2>5. desk'[c] = r /\ RequestOf(c)' = q
    BY <2>4 DEF IInv, RequestOf
  <2>6. DialogInv(c)' /\ AnswerInv(c)'
    BY <1>1, <1>3, <2>2, <2>4, <2>5 DEF DialogInv, AnswerInv
  <2>7. QED
    BY <1>5, <1>8, <2>3, <2>4, <2>6, OneCallMoves DEF CallInv
<1>9. QED
  BY <1>1, <1>6, <1>7, <1>8, ReportCases

-----------------------------------------------------------------------------
\* The process around the calls.

\* A start seeds the store at most once.
LEMMA StartKeeps ==
  ASSUME IInv, Start
  PROVE  IInv'
<1>1. PICK v \in BOOLEAN : Launch(v)
  <2>1. Verified(Files[package']) \in BOOLEAN
    BY DEF Verified
  <2>2. QED
    BY <2>1 DEF Start
<1>2. ProcessInv'
  BY <1>1, LaunchKeeps DEF IInv
<1>3. SeedStore /\ done' = done /\ desk' = desk /\ wrote' = wrote /\ package' \in DOMAIN Files
  BY DEF Start
<1>4. StoreInv' /\ row' # None /\ (row # None => row' = row)
  BY <1>3, SeedKeeps DEF IInv
<1>5. Advances
  <2>1. row # None => row.ver <= row.ver
    BY DEF IInv, StoreInv, Rows
  <2>2. QED
    BY <1>3, <1>4, <2>1 DEF Advances
<1>6. \A d \in Calls : CallInv(d)'
  BY <1>3, <1>5, OtherCallKeeps
<1>7. QED
  BY <1>2, <1>3, <1>4, <1>6 DEF IInv, CallInv

\* Windows, start-up and quitting leave the store and the calls alone.
LEMMA ProceedKeeps ==
  ASSUME IInv, Proceed
  PROVE  IInv'
<1>1. /\ Wind /\ UNCHANGED storeVars /\ row' = row /\ done' = done
      /\ desk' = desk /\ wrote' = wrote /\ package' = package
  BY DEF Proceed, storeVars
<1>2. ProcessInv' /\ (StoreOpen' => StoreOpen)
  BY <1>1, WindKeeps DEF IInv
<1>3. Advances
  BY <1>1, UnchangedAdvances DEF IInv
<1>4. \A d \in Calls : CallInv(d)'
  BY <1>1, <1>3, OtherCallKeeps
<1>5. QED
  BY <1>1, <1>2, <1>3, <1>4 DEF IInv, CallInv, Advances

\* What was asked is lost, what was answered stays answered.
LEMMA EndOfProcessKeeps ==
  ASSUME IInv, End
  PROVE  IInv'
<1> DEFINE r(c) == IF desk[c].at = "asking" THEN [Idle EXCEPT !.at = "lost"]
                   ELSE [desk[c] EXCEPT !.box = "none"]
<1>1. /\ Exit /\ desk' = [c \in Calls |-> r(c)] /\ package' = 1
      /\ UNCHANGED storeVars /\ wrote' = wrote
  BY DEF End
<1>2. ProcessInv' /\ ~StoreOpen'
  BY <1>1, ExitKeeps DEF IInv
<1>3. StoreInv' /\ done' = done
  BY <1>1, UnchangedAdvances DEF IInv, Advances, storeVars
<1>4. ASSUME NEW c \in Calls
      PROVE  r(c) \in CallRows /\ CallInv(c)'
  <2>1. desk[c] \in CallRows /\ DialogInv(c) /\ AnswerInv(c)
    BY DEF IInv
  <2>2. /\ r(c) \in CallRows
        /\ r(c).at # "asking"
        /\ r(c).status = desk[c].status
        /\ (r(c).at = "answered") <=> (desk[c].at = "answered")
        /\ desk[c].at = "answered" =>
             /\ r(c).req = desk[c].req /\ r(c).shown = desk[c].shown
             /\ r(c).result = desk[c].result
    BY <2>1 DEF CallRows, Idle, AnswerInv
  <2>3. desk'[c] = r(c)
    BY <1>1
  <2> HIDE DEF r
  <2>4. DialogInv(c)'
    BY <2>2, <2>3 DEF DialogInv
  <2>5. AnswerInv(c)'
    <3>1. CASE desk[c].at = "answered"
      <4>1. RequestOf(c)' = RequestOf(c)
        BY <2>2, <2>3, <3>1 DEF RequestOf
      <4>2. QED
        BY <1>1, <1>3, <2>1, <2>2, <2>3, <3>1, <4>1 DEF AnswerInv
    <3>2. CASE desk[c].at # "answered"
      <4>1. desk[c].status = None /\ c \notin wrote
        BY <2>1, <3>2 DEF AnswerInv
      <4>2. None # "succeeded"
        BY ExecutorAssumption DEF Statuses
      <4>3. QED
        BY <1>1, <2>2, <2>3, <3>2, <4>1, <4>2 DEF AnswerInv
    <3>3. QED
      BY <3>1, <3>2
  <2>6. QED
    BY <2>2, <2>4, <2>5 DEF CallInv
<1>5. QED
  BY <1>1, <1>2, <1>3, <1>4, ExecutorAssumption DEF IInv, CallInv

\* What the first start finds.
LEMMA InitKeeps ==
  ASSUME Init
  PROVE  IInv
<1>1. StoreInv
  BY InitStore
<1>2. ProcessInv /\ ~StoreOpen
  <2>1. StartupInit
    BY DEF Init
  <2>2. StartupTypeOK
    <3>1. launch \in 0..MaxLaunches
      BY <2>1, StartupAssumption DEF StartupInit
    <3>2. /\ darwin \in BOOLEAN /\ app \in Phases /\ open \subseteq Parts
          /\ agentd \subseteq 1..MaxLaunches /\ windows \subseteq {"main", "workbench"}
      BY <2>1 DEF StartupInit, Phases
    <3>3. held \in BOOLEAN /\ closed \in BOOLEAN /\ stopped \in BOOLEAN /\ quitting \in BOOLEAN
      BY Zenon, <2>1 DEF StartupInit
    <3>4. QED
      BY <3>1, <3>2, <3>3 DEF StartupTypeOK
  <2>3. StartsInv /\ ClosedOwnsNothing /\ ~StoreOpen
    BY <2>1 DEF StartupInit, StartsInv, ClosedOwnsNothing, StoreOpen, Alive
  <2>4. QED
    BY <2>2, <2>3 DEF ProcessInv
<1>3. Idle \in CallRows
  BY DEF Idle, CallRows
<1>4. desk = [c \in Calls |-> Idle] /\ wrote = {} /\ package \in DOMAIN Files
  BY ExecutorAssumption DEF Init
<1>5. None # "succeeded"
  BY ExecutorAssumption DEF Statuses
<1>6. \A c \in Calls : DialogInv(c) /\ AnswerInv(c)
  BY <1>4, <1>5 DEF DialogInv, AnswerInv, Idle
<1>7. QED
  BY <1>1, <1>2, <1>3, <1>4, <1>6 DEF IInv

\* Every step of the process, of a call and of the user keeps the invariant.
LEMMA NextKeeps ==
  ASSUME IInv, [Next]_vars
  PROVE  IInv'
<1>1. ASSUME NEW c \in Calls, Deliver(c)
      PROVE  IInv'
  BY <1>1, DeliverKeeps
<1>2. ASSUME NEW c \in Calls, Approve(c)
      PROVE  IInv'
  BY <1>2, ApproveKeeps
<1>3. ASSUME NEW c \in Calls, Decline(c) \/ Expire(c) \/ ClickLate(c)
      PROVE  IInv'
  BY <1>3, EndKeeps
<1>4. CASE Start
  BY <1>4, StartKeeps
<1>5. CASE Proceed
  BY <1>5, ProceedKeeps
<1>6. CASE End
  BY <1>6, EndOfProcessKeeps
<1>7. CASE UNCHANGED vars
  BY <1>7 DEF vars, processVars, storeVars, IInv, ProcessInv, StartupTypeOK, StartsInv,
     ClosedOwnsNothing, StoreInv, VersionCountsKeys, EntryInv, DialogInv, AnswerInv,
     RequestOf, StoreOpen, Alive
<1>8. QED
  BY <1>1, <1>2, <1>3, <1>4, <1>5, <1>6, <1>7 DEF Next

\* The invariant the theorems follow from.
LEMMA Invariance == Spec => []IInv
<1>1. Init => IInv
  BY InitKeeps
<1>2. IInv /\ [Next]_vars => IInv'
  BY NextKeeps
<1>3. QED
  BY <1>1, <1>2, PTL DEF Spec

-----------------------------------------------------------------------------
\* The theorems.

\* The state of the process, of the store and of every call keeps its type.
THEOREM TypeCorrect == Spec => []TypeOK
<1>1. IInv => TypeOK
  BY DEF IInv, ProcessInv, StoreInv, EntryInv, DialogInv, AnswerInv, TypeOK
<1>2. QED
  BY <1>1, Invariance, PTL

\* store.ts reportProductionProgress: over every number of restarts, crashes and
\* repeated deliveries the record's version counts the keys filed for it.
THEOREM VersionCounts == Spec => []VersionCountsKeys
<1>1. IInv => VersionCountsKeys
  BY DEF IInv, StoreInv
<1>2. QED
  BY <1>1, Invariance, PTL

\* executor.ts and store.ts: a report that succeeded was given what its key did,
\* and a call that wrote was told so.
THEOREM AnswersStayAgreed == Spec => []AnswersAgree
<1>1. IInv => AnswersAgree
  <2>1. SUFFICES ASSUME IInv, NEW c \in Calls,
                        desk[c].status = "succeeded", desk[c].shown # None
                 PROVE  LET e == done[Key(RequestOf(c))] IN
                        /\ e # None /\ e.print = Fingerprint(RequestOf(c))
                        /\ desk[c].result = e.after /\ e.after.ver = e.before.ver + 1
    BY DEF AnswersAgree, IInv, AnswerInv
  <2> DEFINE q == RequestOf(c)
  <2>2. /\ desk[c] \in CallRows /\ desk[c].req # 0
        /\ done[Key(q)] # None /\ done[Key(q)].print = Fingerprint(q)
        /\ desk[c].result = done[Key(q)].after
    BY <2>1 DEF IInv, AnswerInv
  <2>3. Key(q) \in Keys /\ Fingerprint(q) \in Prints
    BY <2>2, ExecutorAssumption DEF CallRows, RequestOf, Prints
  <2>4. done[Key(q)].print # None /\ EntryInv(Key(q))
    <3>1. Fingerprint(q) # None
      BY <2>3, ExecutorAssumption
    <3>2. EntryInv(Key(q))
      BY <2>1, <2>3 DEF IInv, StoreInv
    <3>3. QED
      BY <2>2, <3>1, <3>2
  <2>5. QED
    BY <2>2, <2>4 DEF EntryInv
<1>2. QED
  BY <1>1, Invariance, PTL

\* index.ts closeAll and its callers: a process that was told to close owns no
\* backend, no handlers and at most the one part whose close() failed.
THEOREM ClosedStaysEmpty == Spec => []ClosedOwnsNothing
<1>1. IInv => ClosedOwnsNothing
  BY DEF IInv, ProcessInv
<1>2. QED
  BY <1>1, Invariance, PTL

\* executor.ts and store.ts: a confirmed write whose request expects the version
\* the dialog showed replaces exactly the record the dialog showed.
THEOREM ConfirmedReplaces == Spec => ConfirmedIsReplaced
<1> DEFINE Fresh == \A c \in wrote' \ wrote :
               LET q == RequestOf(c) IN
               desk[c].shown # None /\ Number(q, "expectedVersion") = desk[c].shown.ver =>
                 row = desk[c].shown /\ row' = Proposed(q, desk[c].shown)
<1>1. ASSUME IInv, [Next]_vars
      PROVE  Fresh
  <2>1. CASE wrote' = wrote
    BY <2>1
  <2>2. CASE wrote' # wrote
    <3>1. PICK c \in Calls : Approve(c)
      BY <1>1, <2>2 DEF Next, vars, Deliver, Decline, Expire, ClickLate, Start, Proceed, End
    <3>2. desk[c].at = "asking" /\ Report(c, RequestOf(c))
      BY <3>1 DEF Approve
    <3>3. wrote' = wrote \cup {c} /\ Current(RequestOf(c)) /\ row' = Proposed(RequestOf(c), row)
      BY <2>2, <3>2, ReportCases
    <3>4. DialogInv(c)
      BY <1>1 DEF IInv
    <3>5. QED
      BY <3>2, <3>3, <3>4 DEF Current, DialogInv
  <2>3. QED
    BY <2>1, <2>2
<1>2. QED
  BY <1>1, Invariance, PTL DEF Spec, ConfirmedIsReplaced

=============================================================================
