-------------------------- MODULE SqlPolicyProofs --------------------------
(***************************************************************************)
(* Theorems of SqlPolicy and of the calls it makes (SourceCall), for every *)
(* set of templates, databases and arguments.                              *)
(***************************************************************************)
EXTENDS SqlPolicy, FiniteSetTheorems, TLAPS

-----------------------------------------------------------------------------
\* The inductive invariant.

\* The query has been answered.
Settled ==
  \/ phase \in {"shown", "answered"}
  \/ phase = "running" /\ call = "leaving" /\ next = "done"

\* The run of an update has the arguments of the call and the next version.
ArgumentsInv ==
  phase \in {"running", "shown"} /\ op.kind = "update" =>
    /\ args = [p \in Derived |-> args[p]]
    /\ {args.completionRate, args.expectedVersion, args.nextVersion} \subseteq Values
    /\ args.note \in Values \cup {Missing}

ReadInv ==
  op.kind = "read" /\ Settled /\ QualifiedRead(op) => \A r \in answer : r.orderId = args.orderId

ShownInv ==
  op.kind = "update" /\ Settled =>
    /\ shown = [before |-> shown.before, proposed |-> ProposedRecord(shown.before, args)]
    /\ shown.before.version = args.expectedVersion
    /\ shown.before.note \in Values

PhaseInv ==
  /\ phase \in {"new", "accepted"} => call = "idle"
  /\ phase # "new" => Accepts(op)
  /\ phase = "shown" => op.kind = "update"

RunInv ==
  /\ RunTypeOK /\ NoPoolIsLeft /\ PhaseInv
  /\ op.kind = "update" => HasColumns(db, op.before)
  /\ ArgumentsInv /\ ReadInv /\ ShownInv

-----------------------------------------------------------------------------
\* Calls.

\* The steps of a call: the owner's start, the program's own, the driver's
\* answers, in time or late, and the owner's close.
CallStep ==
  \/ call = "idle" /\ \E checked \in BOOLEAN : StartCall(checked)
  \/ OwnStep \/ Opened \/ Close
  \/ \E again \in BOOLEAN : OpenFails(again) \/ QueryFails(again)
  \/ \E then \in {"done", "failed"} : Leave(then)
  \/ \E i \in Attempts : Late(i) \/ PoolCloses(i)

LEMMA CallStepTypes == ASSUME CallTypeOK, CallStep PROVE CallTypeOK'
<1>1. /\ closed \in BOOLEAN /\ attempt \in Attempts /\ 2 \in Attempts
      /\ call \in {"idle", "done", "failed", "checking", "credential", "opening", "querying", "leaving"}
      /\ next \in {"done", "failed", "retry"}
      /\ pools \in [Attempts -> {"none", "opening", "open", "closing"}]
  BY DEF CallTypeOK, Waits, Attempts
<1>2. /\ closed' \in BOOLEAN
      /\ pools' \in [Attempts -> {"none", "opening", "open", "closing"}]
  BY <1>1 DEF CallStep, StartCall, OwnStep, Check, Fetch, Left, Opened, Close, OpenFails, QueryFails, Leave,
              Late, PoolCloses
<1>3. attempt' \in Attempts /\ next' \in {"done", "failed", "retry"}
  BY <1>1 DEF CallStep, StartCall, OwnStep, Check, Fetch, Left, Opened, Close, OpenFails, QueryFails, Leave,
              Late, PoolCloses, EndAttempt
<1>4. call' \in {"idle", "done", "failed", "checking", "credential", "opening", "querying", "leaving"}
  BY <1>1 DEF CallStep, StartCall, OwnStep, Check, Fetch, Left, Opened, Close, OpenFails, QueryFails, Leave,
              Late, PoolCloses, EndAttempt, Goes
<1>5. QED
  BY <1>2, <1>3, <1>4 DEF CallTypeOK, Waits

\* Every way out of a query closes its pool, and a pool that opens for a call
\* that has left is closed.
LEMMA CallStepLeavesNoPool == ASSUME CallTypeOK, NoPoolIsLeft, CallStep PROVE NoPoolIsLeft'
<1> SUFFICES ASSUME NEW i \in Attempts, pools'[i] = "open"
             PROVE  call' = "querying" /\ attempt' = i
  BY DEF NoPoolIsLeft
<1>1. attempt \in Attempts /\ pools \in [Attempts -> {"none", "opening", "open", "closing"}]
  BY DEF CallTypeOK
<1>2. pools[i] = "open" => call = "querying" /\ attempt = i
  BY DEF NoPoolIsLeft
<1>3. CASE call = "idle" /\ \E checked \in BOOLEAN : StartCall(checked)
  BY <1>2, <1>3 DEF StartCall
<1>4. CASE OwnStep \/ Opened
  BY <1>1, <1>2, <1>4 DEF OwnStep, Check, Fetch, Left, Opened
<1>5. CASE Close
  BY <1>1, <1>2, <1>5 DEF Close
<1>6. CASE \E again \in BOOLEAN : OpenFails(again)
  BY <1>1, <1>2, <1>6 DEF OpenFails
<1>7. CASE \E then : Leave(then)
  BY <1>1, <1>2, <1>7 DEF Leave
<1>8. CASE \E j \in Attempts : Late(j) \/ PoolCloses(j)
  BY <1>1, <1>2, <1>8 DEF Late, PoolCloses
<1>9. QED
  BY <1>3, <1>4, <1>5, <1>6, <1>7, <1>8 DEF CallStep, QueryFails

LEMMA CallStutters == ASSUME CallTypeOK, NoPoolIsLeft, UNCHANGED callVars PROVE CallTypeOK' /\ NoPoolIsLeft'
BY DEF callVars, CallTypeOK, NoPoolIsLeft

-----------------------------------------------------------------------------
\* What a query finds.

LEMMA Singleton == ASSUME NEW S, IsFiniteSet(S), Cardinality(S) = 1, NEW x \in S PROVE S = {x}
BY FS_Singleton

LEMMA SingleHit ==
  ASSUME NEW d, NEW s, NEW a, NEW x \in Single(d, s, a)
  PROVE  \E hit \in Hits(d, s, a) : x = Project(d, s, hit)
<1>1. PICK r \in Results(d, s, a) : \E hit \in r : x = Project(d, s, hit)
  BY DEF Single
<1>2. r \in SUBSET Hits(d, s, a)
  BY <1>1 DEF Results
<1>3. QED
  BY <1>1, <1>2

\* A conjunction holds of each of its leaves.
LEMMA LeafHolds ==
  ASSUME NEW d, NEW s, NEW a, NEW hit \in Hits(d, s, a), NEW leaf \in Leaves(s.where),
         AndOnly(s.where), \A clause \in s.where : IsFiniteSet(clause)
  PROVE  Compare(At(d, hit, leaf.ref), leaf.op, a[leaf.par])
<1>1. PICK clause \in s.where : leaf \in clause
  BY DEF Leaves
<1>2. clause = {leaf}
  BY <1>1, Singleton DEF AndOnly
<1>3. QED
  BY <1>1, <1>2 DEF Hits

\* A field whose own column a leaf pins has the value of the argument.
LEMMA PinnedField ==
  ASSUME NEW d, NEW s, NEW a, NEW hit \in Hits(d, s, a), NEW leaf \in Leaves(s.where),
         AndOnly(s.where), \A clause \in s.where : IsFiniteSet(clause),
         NEW field \in DOMAIN s.cols, NEW par,
         Pins(s, leaf, field, par), leaf.ref[1] = s.cols[field][1]
  PROVE  a[par] # Missing /\ At(d, hit, s.cols[field]) = a[par]
<1>1. Compare(At(d, hit, leaf.ref), "=", a[par])
  BY LeafHolds DEF Pins
<1>2. At(d, hit, leaf.ref) = At(d, hit, s.cols[field])
  BY DEF At, Pins, SameColumn
<1>3. QED
  BY <1>1, <1>2 DEF Compare

\* Every accepted read of one table is qualified.
LEMMA OneTableReads ==
  ASSUME NEW t \in Templates, t.kind = "read", ReadOK(t), NEW table, t.declared = {table}
  PROVE  QualifiedRead(t)
<1>1. "orderId" \in DOMAIN t.select.cols
  BY SqlPolicyAssumption DEF SqlPolicyAssumption, IsSelect
<1>2. /\ t.select.from = {table}
      /\ t.select.cols["orderId"][1] \in t.select.from
      /\ \A leaf \in Leaves(t.select.where) : leaf.ref[1] \in t.select.from
  BY <1>1 DEF ReadOK, SelectOK, FromOK, ProjectionOK
<1>3. QED
  BY <1>2 DEF QualifiedRead

\* Each record an accepted and qualified read finds is the resource's.
LEMMA ReadFindsResource ==
  ASSUME op \in Templates, op.kind = "read", Accepts(op), QualifiedRead(op),
         NEW result \in Results(db, op.select, args), NEW hit \in result
  PROVE  Project(db, op.select, hit).orderId = args.orderId
<1> DEFINE s == op.select
<1>1. "orderId" \in DOMAIN s.cols /\ \A clause \in s.where : IsFiniteSet(clause)
  BY SqlPolicyAssumption DEF SqlPolicyAssumption, IsSelect
<1>2. ReadOK(op)
  BY DEF Accepts
<1>3. PICK leaf \in Leaves(s.where) : Pins(s, leaf, "orderId", "orderId")
  BY <1>2 DEF ReadOK, Identifies
<1>4. AndOnly(s.where) /\ leaf.ref[1] = s.cols["orderId"][1]
  BY <1>2, <1>3 DEF ReadOK, Identifies, QualifiedRead, Pins
<1>5. hit \in Hits(db, s, args)
  BY DEF Results
<1>6. At(db, hit, s.cols["orderId"]) = args["orderId"]
  BY <1>1, <1>3, <1>4, <1>5, PinnedField
<1>7. QED
  BY <1>1, <1>6 DEF Project

\* The record a preview shows has a note among the values.
LEMMA NoteIsValue ==
  ASSUME RunTypeOK, op.kind = "update", Accepts(op), HasColumns(db, op.before),
         NEW a, NEW before \in Single(db, op.before, a)
  PROVE  before.note \in Values
<1> DEFINE ref == op.before.cols["note"]
<1>1. "note" \in DOMAIN op.before.cols
  BY SqlPolicyAssumption DEF SqlPolicyAssumption, RunTypeOK, IsSelect
<1>2. ref[1] \in op.before.from
  BY <1>1 DEF Accepts, UpdateOK, SelectOK, ProjectionOK
<1>3. PICK hit \in Hits(db, op.before, a) : before = Project(db, op.before, hit)
  BY SingleHit
<1>4. hit[ref[1]] \in DOMAIN db[ref[1]]
  BY <1>2 DEF Hits
<1>5. ref[1] \in DOMAIN db /\ ref[2] \in DOMAIN db[ref[1]][hit[ref[1]]]
  BY <1>1, <1>4 DEF HasColumns
<1>6. At(db, hit, ref) \in Values
  BY <1>4, <1>5 DEF At, RunTypeOK, IsDatabase
<1>7. QED
  BY <1>1, <1>3, <1>6 DEF Project

\* An UPDATE that assigns values leaves a database with the same columns.
LEMMA UpdatedDatabase ==
  ASSUME NEW d, NEW t, NEW a, NEW s, IsDatabase(d), HasColumns(d, s),
         \A c \in DOMAIN t.set : a[t.set[c]] \in Values
  PROVE  IsDatabase(Updated(d, t, a)) /\ HasColumns(Updated(d, t, a), s)
<1> DEFINE e == Updated(d, t, a)
<1>1. /\ DOMAIN e = DOMAIN d /\ e = [u \in DOMAIN e |-> e[u]]
      /\ \A u \in DOMAIN d : u # t.table => e[u] = d[u]
      /\ t.table \in DOMAIN d =>
           e[t.table] = [i \in DOMAIN d[t.table] |->
             IF i \notin Touched(d, t, a) THEN d[t.table][i]
             ELSE [c \in DOMAIN d[t.table][i] |->
                     IF c \in DOMAIN t.set THEN a[t.set[c]] ELSE d[t.table][i][c]]]
  BY DEF IsDatabase, Updated
<1> HIDE DEF e
<1>2. ASSUME NEW u \in DOMAIN d
      PROVE  /\ DOMAIN e[u] = DOMAIN d[u] /\ e[u] = [i \in DOMAIN e[u] |-> e[u][i]]
             /\ \A i \in DOMAIN d[u] :
                  /\ DOMAIN e[u][i] = DOMAIN d[u][i]
                  /\ \A c \in DOMAIN d[u][i] : e[u][i][c] \in Values
  <2>1. CASE u # t.table
    BY <1>1, <2>1 DEF IsDatabase
  <2>2. CASE u = t.table
    <3>1. DOMAIN e[u] = DOMAIN d[u] /\ e[u] = [i \in DOMAIN e[u] |-> e[u][i]]
      BY <1>1, <2>2
    <3>2. ASSUME NEW i \in DOMAIN d[u]
          PROVE  /\ DOMAIN e[u][i] = DOMAIN d[u][i]
                 /\ \A c \in DOMAIN d[u][i] : e[u][i][c] \in Values
      <4>1. CASE i \notin Touched(d, t, a)
        BY <1>1, <2>2, <4>1 DEF IsDatabase
      <4>2. CASE i \in Touched(d, t, a)
        <5>1. e[u][i] = [c \in DOMAIN d[u][i] |-> IF c \in DOMAIN t.set THEN a[t.set[c]] ELSE d[u][i][c]]
          BY <1>1, <2>2, <4>2
        <5>2. \A c \in DOMAIN d[u][i] : d[u][i][c] \in Values
          BY DEF IsDatabase
        <5>3. QED
          BY <5>1, <5>2
      <4>3. QED
        BY <4>1, <4>2
    <3>3. QED
      BY <3>1, <3>2
  <2>3. QED
    BY <2>1, <2>2
<1>3. IsDatabase(e)
  BY <1>1, <1>2 DEF IsDatabase
<1>4. HasColumns(e, s)
  BY <1>1, <1>2 DEF HasColumns
<1>5. QED
  BY <1>3, <1>4 DEF e

-----------------------------------------------------------------------------
\* The steps of a run.

LEMMA AcceptKeeps == ASSUME RunInv, Accept PROVE RunInv'
<1>1. phase = "new" /\ phase' = "accepted" /\ call = "idle" /\ UNCHANGED <<callVars, runVars>>
  BY DEF Accept, RunInv, PhaseInv
<1>2. CallTypeOK' /\ NoPoolIsLeft'
  BY <1>1, CallStutters DEF RunInv, RunTypeOK
<1>3. RunTypeOK'
  BY <1>1, <1>2 DEF RunInv, RunTypeOK, runVars
<1>4. PhaseInv'
  BY <1>1 DEF PhaseInv, Accept, callVars, runVars
<1>5. ~Settled'
  BY <1>1 DEF Settled
<1>6. (op.kind = "update" => HasColumns(db, op.before))'
  BY <1>1 DEF RunInv, runVars
<1>7. ArgumentsInv' /\ ReadInv' /\ ShownInv'
  BY <1>1, <1>5 DEF ArgumentsInv, ReadInv, ShownInv
<1>8. QED
  BY <1>2, <1>3, <1>4, <1>6, <1>7 DEF RunInv

LEMMA PreparedArguments ==
  ASSUME NEW a \in Arguments, InRange(a)
  PROVE  LET b == Prepared(a) IN
         /\ b = [p \in Derived |-> b[p]]
         /\ {b.completionRate, b.expectedVersion, b.nextVersion} \subseteq Values
         /\ b.note \in Values \cup {Missing}
<1> DEFINE b == Prepared(a)
<1>1. /\ b = [p \in Derived |-> b[p]]
      /\ b.completionRate = a.completionRate /\ b.expectedVersion = a.expectedVersion
      /\ b.note = a.note /\ b.nextVersion = a.expectedVersion + 1
  BY DEF Prepared, Derived
<1>2. a.expectedVersion + 1 \in Values
  BY SqlPolicyAssumption DEF SqlPolicyAssumption, InRange, Values
<1>3. QED
  BY <1>1, <1>2, SqlPolicyAssumption DEF SqlPolicyAssumption

LEMMA BeginKeeps ==
  ASSUME RunInv, NEW who \in {"runtime", "workbench"}, NEW a \in Arguments, Begin(who, a)
  PROVE  RunInv'
<1>1. /\ phase = "accepted" /\ phase' \in {"refused", "running"} /\ call = "idle"
      /\ by' = who /\ UNCHANGED <<db, op, shown, answer>>
      /\ op \in Templates /\ IsDatabase(db) /\ Accepts(op)
      /\ op.kind = "update" => HasColumns(db, op.before)
  BY DEF Begin, RunInv, PhaseInv, RunTypeOK
<1>2. CallStep \/ UNCHANGED callVars
  BY <1>1 DEF Begin, CallStep
<1>3. CallTypeOK' /\ NoPoolIsLeft'
  BY <1>2, CallStepTypes, CallStepLeavesNoPool, CallStutters DEF RunInv, RunTypeOK
<1>4. RunTypeOK'
  BY <1>1, <1>3 DEF RunTypeOK
<1>5. PhaseInv' /\ (op.kind = "update" => HasColumns(db, op.before))'
  BY <1>1 DEF PhaseInv
<1>6. ~Settled'
  <2>1. phase' = "running" => call' \in {"checking", "credential", "failed"}
    BY DEF Begin, StartCall, Goes
  <2>2. QED
    BY <1>1, <2>1 DEF Settled
<1>7. ArgumentsInv'
  <2> SUFFICES ASSUME phase' = "running", op.kind = "update"
               PROVE  args' = Prepared(a) /\ InRange(a)
    BY <1>1, PreparedArguments DEF ArgumentsInv
  <2>1. ArgumentsOK(a)
    BY DEF Begin
  <2>2. QED
    BY <2>1 DEF Begin, ArgumentsOK
<1>8. ReadInv' /\ ShownInv'
  BY <1>6 DEF ReadInv, ShownInv
<1>9. QED
  BY <1>3, <1>4, <1>5, <1>7, <1>8 DEF RunInv

\* A step that asks nothing new of the database keeps what a run has found.
LEMMA QuietStep ==
  ASSUME RunInv, UNCHANGED runVars, CallStep,
         \/ /\ phase = "running" /\ phase' \in {"running", "shown", "answered", "refused"}
            /\ phase' = "shown" => op.kind = "update"
         \/ phase' = phase /\ (call = "idle" => UNCHANGED call),
         Settled' => Settled
  PROVE  RunInv'
<1>1. CallTypeOK' /\ NoPoolIsLeft'
  BY CallStepTypes, CallStepLeavesNoPool DEF RunInv, RunTypeOK
<1>2. UNCHANGED <<db, op, by, args, shown, answer>>
  BY DEF runVars
<1>3. RunTypeOK'
  BY <1>1, <1>2 DEF RunInv, RunTypeOK
<1>4. PhaseInv' /\ (op.kind = "update" => HasColumns(db, op.before))'
  BY <1>2 DEF RunInv, PhaseInv
<1>5. ArgumentsInv' /\ ReadInv' /\ ShownInv'
  BY <1>2 DEF RunInv, ArgumentsInv, ReadInv, ShownInv
<1>6. QED
  BY <1>1, <1>3, <1>4, <1>5 DEF RunInv

LEMMA ProceedKeeps == ASSUME RunInv, Proceed PROVE RunInv'
<1>1. /\ phase = "running" /\ UNCHANGED runVars /\ Outcome
      /\ OwnStep \/ Opened \/ \E again \in BOOLEAN : OpenFails(again) \/ QueryFails(again)
  BY DEF Proceed
<1>2. CallStep
  BY <1>1 DEF CallStep
<1>3. call' # "leaving" \/ next' # "done"
  BY <1>1 DEF OwnStep, Check, Fetch, Left, Opened, OpenFails, QueryFails, Leave, EndAttempt, Goes
<1>4. call' = "done" => call = "leaving" /\ next = "done"
  BY <1>1 DEF OwnStep, Check, Fetch, Left, Opened, OpenFails, QueryFails, Leave, EndAttempt, Goes
<1>5. Settled' => Settled
  BY <1>1, <1>3, <1>4 DEF Settled, Outcome
<1>6. /\ phase' \in {"running", "shown", "answered", "refused"}
      /\ phase' = "shown" => op.kind = "update"
  BY <1>1 DEF Outcome
<1>7. QED
  BY <1>1, <1>2, <1>5, <1>6, QuietStep

LEMMA ShutKeeps == ASSUME RunInv, Shut PROVE RunInv'
<1>1. /\ Close /\ UNCHANGED runVars
      /\ phase' = IF phase = "running" /\ call' = "failed" THEN "refused" ELSE phase
  BY DEF Shut
<1>2. CallStep
  BY <1>1 DEF CallStep
<1>3. call = "idle" => UNCHANGED call
  BY <1>1 DEF Close
<1>4. Settled' => Settled
  BY <1>1 DEF Settled, Close
<1>5. QED
  BY <1>1, <1>2, <1>3, <1>4, QuietStep

LEMMA DrainKeeps == ASSUME RunInv, Drain PROVE RunInv'
<1>1. /\ \E i \in Attempts : Late(i) \/ PoolCloses(i)
      /\ UNCHANGED <<phase, runVars, call, next>>
  BY DEF Drain, Late, PoolCloses
<1>2. QED
  BY <1>1, QuietStep DEF CallStep, Settled

LEMMA QueryKeeps == ASSUME RunInv, Query PROVE RunInv'
<1>1. /\ phase = "running" /\ UNCHANGED <<phase, db, op, by, args>> /\ CallTypeOK /\ NoPoolIsLeft
      /\ op \in Templates /\ IsDatabase(db) /\ Accepts(op)
      /\ op.kind = "update" => HasColumns(db, op.before)
  BY DEF Query, RunInv, RunTypeOK, PhaseInv
<1>2. /\ \E then \in {"done", "failed"} : Leave(then)
      /\ call' = "leaving"
  BY DEF Query, Read, Preview, Ping, Leave
<1>3. CallTypeOK' /\ NoPoolIsLeft'
  BY <1>1, <1>2, CallStepTypes, CallStepLeavesNoPool DEF CallStep
<1>4. RunTypeOK' /\ PhaseInv' /\ (op.kind = "update" => HasColumns(db, op.before))' /\ ArgumentsInv'
  BY <1>1, <1>3 DEF RunTypeOK, RunInv, PhaseInv, ArgumentsInv
<1>5. ReadInv'
  <2> SUFFICES ASSUME op.kind = "read", next' = "done", QualifiedRead(op)
               PROVE  \A r \in answer' : r.orderId = args.orderId
    BY <1>1, <1>2 DEF ReadInv, Settled
  <2>1. Read
    BY DEF Query, Preview, Ping
  <2>2. PICK result \in Results(db, op.select, args) :
          answer' = {Project(db, op.select, hit) : hit \in result}
    BY <2>1 DEF Read, Leave
  <2>3. QED
    BY <1>1, <2>2, ReadFindsResource
<1>6. ShownInv'
  <2> SUFFICES ASSUME op.kind = "update", next' = "done"
               PROVE  /\ shown' = [before |-> shown'.before, proposed |-> ProposedRecord(shown'.before, args)]
                      /\ shown'.before.version = args.expectedVersion
                      /\ shown'.before.note \in Values
    BY <1>1, <1>2 DEF ShownInv, Settled, ProposedRecord
  <2>1. Preview
    BY DEF Query, Read, Ping
  <2>2. PICK before \in Single(db, op.before, args) :
          /\ before.version = args.expectedVersion
          /\ shown' = [before |-> before, proposed |-> ProposedRecord(before, args)]
    BY <2>1 DEF Preview, Leave
  <2>3. before.note \in Values
    BY <1>1, NoteIsValue DEF RunInv
  <2>4. shown'.before = before
    BY <2>2
  <2>5. QED
    BY <2>2, <2>3, <2>4
<1>7. QED
  BY <1>3, <1>4, <1>5, <1>6 DEF RunInv

\* What an update assigns is among the values.
LEMMA AssignedValues ==
  ASSUME RunInv, phase = "shown", op.kind = "update"
  PROVE  /\ \A c \in DOMAIN op.set : Materialized[op.set[c]] \in Values
         /\ \A f \in Proposed : Materialized[ArgumentOf(f)] = shown.proposed[f]
         /\ Materialized.orderId = args.orderId /\ Materialized.workOrderId = args.workOrderId
         /\ Materialized.expectedVersion = args.expectedVersion
<1>1. /\ args = [p \in Derived |-> args[p]]
      /\ {args.completionRate, args.expectedVersion, args.nextVersion} \subseteq Values
      /\ args.note \in Values \cup {Missing}
  BY DEF RunInv, ArgumentsInv
<1>2. shown.proposed = ProposedRecord(shown.before, args) /\ shown.before.note \in Values
  BY DEF RunInv, ShownInv, Settled
<1>3. /\ shown.proposed["note"] = IF args.note = Missing THEN shown.before.note ELSE args.note
      /\ shown.proposed["completionRate"] = args["completionRate"]
      /\ shown.proposed["version"] = args["nextVersion"]
  BY <1>2 DEF ProposedRecord, Proposed, ArgumentOf
<1>4. /\ Materialized["note"] = shown.proposed["note"]
      /\ \A p \in Derived \ {"note"} : Materialized[p] = args[p]
  BY <1>1 DEF Materialized, Derived
<1>5. \A f \in Proposed : Materialized[ArgumentOf(f)] = shown.proposed[f]
  BY <1>3, <1>4 DEF Proposed, ArgumentOf, Derived
<1>6. \A f \in Proposed : shown.proposed[f] \in Values
  BY <1>1, <1>2, <1>3 DEF Proposed
<1>7. \A c \in DOMAIN op.set : \E f \in Proposed : op.set[c] = ArgumentOf(f)
  BY DEF RunInv, PhaseInv, Accepts, UpdateOK, AssignmentsOK
<1>8. QED
  BY <1>4, <1>5, <1>6, <1>7 DEF Derived

LEMMA WriteKeeps == ASSUME RunInv, Write PROVE RunInv'
<1>1. /\ phase = "shown" /\ UNCHANGED <<callVars, op, by, args, shown>>
      /\ phase' \in {"written", "refused"}
      /\ db' = db \/ db' = Updated(db, op, Materialized)
      /\ op.kind = "update"
  BY DEF Write, RunInv, PhaseInv
<1>2. IsDatabase(db)' /\ (op.kind = "update" => HasColumns(db, op.before))'
  <2>1. CASE db' = db
    BY <1>1, <2>1 DEF RunInv, RunTypeOK
  <2>2. CASE db' = Updated(db, op, Materialized)
    BY <1>1, <2>2, UpdatedDatabase, AssignedValues DEF RunInv, RunTypeOK
  <2>3. QED
    BY <1>1, <2>1, <2>2
<1>3. CallTypeOK' /\ NoPoolIsLeft'
  BY <1>1, CallStutters DEF RunInv, RunTypeOK
<1>4. RunTypeOK'
  BY <1>1, <1>2, <1>3 DEF RunInv, RunTypeOK
<1>5. PhaseInv'
  BY <1>1 DEF RunInv, PhaseInv
<1>6. ArgumentsInv' /\ ReadInv' /\ ShownInv'
  BY <1>1 DEF ArgumentsInv, ReadInv, ShownInv, Settled
<1>7. QED
  BY <1>2, <1>3, <1>4, <1>5, <1>6 DEF RunInv

LEMMA PeerWriteKeeps == ASSUME RunInv, NEW d \in Databases, PeerWrite(d) PROVE RunInv'
<1>1. phase = "shown" /\ db' = d /\ UNCHANGED <<callVars, phase, op, by, args, shown, answer>>
  BY DEF PeerWrite
<1>2. IsDatabase(db)' /\ (op.kind = "update" => HasColumns(db, op.before))'
  BY <1>1, SqlPolicyAssumption DEF SqlPolicyAssumption, IsSelect, RunInv, RunTypeOK
<1>3. CallTypeOK' /\ NoPoolIsLeft'
  BY <1>1, CallStutters DEF RunInv, RunTypeOK
<1>4. RunTypeOK' /\ PhaseInv'
  BY <1>1, <1>2, <1>3 DEF RunInv, RunTypeOK, PhaseInv
<1>5. Settled' => Settled
  BY <1>1 DEF Settled, callVars
<1>6. ArgumentsInv' /\ ReadInv' /\ ShownInv'
  BY <1>1, <1>5 DEF RunInv, ArgumentsInv, ReadInv, ShownInv
<1>7. QED
  BY <1>2, <1>3, <1>4, <1>6 DEF RunInv

LEMMA InitRun == Init => RunInv
<1> SUFFICES ASSUME Init PROVE RunInv
  OBVIOUS
<1>1. CallTypeOK /\ NoPoolIsLeft
  <2>1. pools \in [Attempts -> {"none", "opening", "open", "closing"}] /\ \A i \in Attempts : pools[i] # "open"
    BY DEF Init, CallInit
  <2>2. NoPoolIsLeft
    BY <2>1 DEF NoPoolIsLeft
  <2>3. 1 \in Attempts
    BY DEF Attempts
  <2>4. QED
    BY <2>1, <2>2, <2>3 DEF Init, CallInit, CallTypeOK
<1>2. RunTypeOK
  BY <1>1, SqlPolicyAssumption DEF SqlPolicyAssumption, Init, RunTypeOK
<1>3. PhaseInv /\ (op.kind = "update" => HasColumns(db, op.before))
  BY SqlPolicyAssumption DEF SqlPolicyAssumption, Init, CallInit, PhaseInv, IsSelect
<1>4. ArgumentsInv /\ ReadInv /\ ShownInv
  BY DEF Init, ArgumentsInv, ReadInv, ShownInv, Settled
<1>5. QED
  BY <1>1, <1>2, <1>3, <1>4 DEF RunInv

LEMMA StepKeepsRun == RunInv /\ [Next]_vars => RunInv'
<1> SUFFICES ASSUME RunInv, [Next]_vars PROVE RunInv'
  OBVIOUS
<1>1. CASE Next
  BY <1>1, AcceptKeeps, BeginKeeps, ProceedKeeps, QueryKeeps, ShutKeeps, DrainKeeps, WriteKeeps, PeerWriteKeeps DEF Next
<1>2. CASE UNCHANGED vars
  <2>1. CallTypeOK' /\ NoPoolIsLeft'
    BY <1>2, CallStutters DEF vars, RunInv, RunTypeOK
  <2>2. UNCHANGED <<phase, db, op, by, args, shown, answer, call, next>>
    BY <1>2 DEF vars, callVars, runVars
  <2>3. QED
    BY <2>1, <2>2 DEF RunInv, RunTypeOK, PhaseInv, ArgumentsInv, ReadInv, ShownInv, Settled
<1>3. QED
  BY <1>1, <1>2

LEMMA RunHolds == Spec => []RunInv
BY InitRun, StepKeepsRun, PTL DEF Spec

-----------------------------------------------------------------------------
\* The theorems.

\* Every database a run sees or leaves has only values the columns' types allow,
\* the next version included, and the call keeps its types.
THEOREM RunTypesCorrect == Spec => []RunTypeOK
<1>1. RunInv => RunTypeOK
  BY DEF RunInv
<1>2. QED
  BY <1>1, RunHolds, PTL

\* However a call ends - answered, failed, retried or closed by its owner - the
\* connection it opened does not outlive its query.
THEOREM NoPoolStays == Spec => []NoPoolIsLeft
<1>1. RunInv => NoPoolIsLeft
  BY DEF RunInv
<1>2. QED
  BY <1>1, RunHolds, PTL

\* A qualified read answers with records of the resource only: the rules of the
\* validators suffice for every WHERE, join and row limit.
THEOREM ReadsStay == Spec => []ReadStaysOnResource
<1>1. RunInv => ReadStaysOnResource
  BY DEF RunInv, ReadInv, ReadStaysOnResource, Settled
<1>2. QED
  BY <1>1, RunHolds, PTL

-----------------------------------------------------------------------------
\* What a confirmed update writes.

\* The UPDATE finds one row, and its three guards make it the row asked for.
LEMMA OneAskedRow ==
  ASSUME RunInv, Write, phase' = "written"
  PROVE  \E i \in DOMAIN db[op.table] : Touched(db, op, Materialized) = {i} /\ IsAsked(i)
<1> DEFINE s == op.before
           a == Materialized
<1>1. /\ phase = "shown" /\ op.kind = "update" /\ op \in Templates /\ UpdateOK(op)
      /\ IsDatabase(db) /\ HasColumns(db, s) /\ OneRow(db, op, a)
  BY DEF Write, RunInv, RunTypeOK, PhaseInv, Accepts
<1>2. op.table \in DOMAIN db
  <2>1. "orderId" \in DOMAIN s.cols
    BY <1>1, SqlPolicyAssumption DEF SqlPolicyAssumption, IsSelect
  <2>2. s.cols["orderId"][1] = op.table
    BY <1>1, <2>1 DEF UpdateOK, SelectOK, FromOK, ProjectionOK
  <2>3. QED
    BY <1>1, <2>1, <2>2 DEF HasColumns
<1>3. Touched(db, op, a) \subseteq DOMAIN db[op.table] /\ IsFiniteSet(Touched(db, op, a))
  <2>1. Touched(db, op, a) \subseteq DOMAIN db[op.table] /\ IsFiniteSet(DOMAIN db[op.table])
    BY <1>1, <1>2 DEF Touched, IsDatabase
  <2>2. QED
    BY <2>1, FS_Subset
<1>4. PICK i : Touched(db, op, a) = {i}
  BY <1>1, <1>3, FS_Singleton DEF OneRow
<1>5. ASSUME NEW c, NEW par, [ref |-> <<op.table, c>>, op |-> "=", par |-> par] \in op.guards
      PROVE  db[op.table][i][c] = a[par]
  <2> DEFINE g == [ref |-> <<op.table, c>>, op |-> "=", par |-> par]
  <2>1. Compare(db[op.table][i][g.ref[2]], g.op, a[g.par])
    BY <1>4, <1>5 DEF Touched
  <2>2. QED
    BY <2>1 DEF Compare
<1>6. /\ db[op.table][i][s.cols.orderId[2]] = a.orderId
      /\ db[op.table][i][s.cols.workOrderId[2]] = a.workOrderId
      /\ db[op.table][i][VersionColumn] = a.expectedVersion
  <2>1. GuardsOK(op)
    BY <1>1 DEF UpdateOK
  <2>2. /\ [ref |-> <<op.table, s.cols.orderId[2]>>, op |-> "=", par |-> "orderId"] \in op.guards
        /\ [ref |-> <<op.table, s.cols.workOrderId[2]>>, op |-> "=", par |-> "workOrderId"] \in op.guards
        /\ [ref |-> <<op.table, VersionColumn>>, op |-> "=", par |-> "expectedVersion"] \in op.guards
    BY <2>1 DEF GuardsOK
  <2>3. QED
    BY <1>5, <2>2
<1>7. IsAsked(i)
  BY <1>1, <1>6, AssignedValues DEF IsAsked
<1>8. QED
  BY <1>3, <1>4, <1>7

\* The row the dialog showed is the one the UPDATE finds: the conjunction that
\* found it pins the resource and the work order, and its version was compared.
LEMMA ShownIsTouched ==
  ASSUME RunInv, Write, phase' = "written", PlainUpdate(op),
         NEW r \in DOMAIN db[op.table], Touched(db, op, Materialized) = {r}
  PROVE  Project(db, op.before, [t \in {op.table} |-> r]) = shown.before
<1> DEFINE s == op.before
           a == Materialized
           col(f) == s.cols[f][2]
<1>1. /\ phase = "shown" /\ op.kind = "update" /\ op \in Templates /\ UpdateOK(op)
      /\ IsDatabase(db) /\ HasColumns(db, s)
      /\ shown.before \in Single(db, s, a) /\ OneRow(db, op, a)
  BY DEF Write, RunInv, RunTypeOK, PhaseInv, Accepts
<1>2. /\ {"orderId", "workOrderId", "version"} \subseteq DOMAIN s.cols
      /\ \A clause \in s.where : IsFiniteSet(clause)
  BY <1>1, SqlPolicyAssumption DEF SqlPolicyAssumption, IsSelect
<1>3. /\ s.from = {op.table} /\ AndOnly(s.where)
      /\ \A f \in DOMAIN s.cols : s.cols[f][1] = op.table
      /\ \A leaf \in Leaves(s.where) : leaf.ref[1] = op.table
  BY <1>1 DEF UpdateOK, SelectOK, FromOK, ProjectionOK
<1>4. PICK hit \in Hits(db, s, a) : shown.before = Project(db, s, hit)
  BY <1>1, SingleHit
<1> DEFINE i == hit[op.table]
<1>5. i \in DOMAIN db[op.table] /\ hit = [t \in {op.table} |-> i]
  BY <1>3 DEF Hits
<1>6. /\ a["orderId"] # Missing /\ db[op.table][i][col("orderId")] = a["orderId"]
      /\ a["workOrderId"] # Missing /\ db[op.table][i][col("workOrderId")] = a["workOrderId"]
  <2>1. PICK leaf \in Leaves(s.where) : Pins(s, leaf, "orderId", "orderId")
    BY <1>1 DEF UpdateOK
  <2>2. PICK other \in Leaves(s.where) : Pins(s, other, "workOrderId", "workOrderId")
    BY <1>1 DEF UpdateOK, Identifies
  <2>3. a["orderId"] # Missing /\ At(db, hit, s.cols["orderId"]) = a["orderId"]
    BY <1>2, <1>3, <2>1, PinnedField
  <2>4. a["workOrderId"] # Missing /\ At(db, hit, s.cols["workOrderId"]) = a["workOrderId"]
    BY <1>2, <1>3, <2>2, PinnedField
  <2>5. QED
    BY <1>2, <1>3, <2>3, <2>4 DEF At
<1>7. a["expectedVersion"] # Missing /\ db[op.table][i][VersionColumn] = a["expectedVersion"]
  <2>1. shown.before["version"] = args["expectedVersion"] /\ args["expectedVersion"] \in Values
    BY <1>1 DEF RunInv, ShownInv, ArgumentsInv, Settled
  <2>2. a["expectedVersion"] = args["expectedVersion"]
    BY <1>1, AssignedValues
  <2>3. col("version") = VersionColumn
    BY <1>1 DEF PlainUpdate, UpdateOK, AssignmentsOK, Proposed
  <2>4. shown.before["version"] = db[op.table][i][col("version")]
    BY <1>2, <1>3, <1>4 DEF Project, At
  <2>5. QED
    BY <2>1, <2>2, <2>3, <2>4, SqlPolicyAssumption DEF SqlPolicyAssumption
<1>8. i \in Touched(db, op, a)
  <2>1. ASSUME NEW g \in op.guards
        PROVE  Compare(db[op.table][i][g.ref[2]], g.op, a[g.par])
    <3>1. g.op = "=" /\ g.par \in {"orderId", "workOrderId", "expectedVersion"} /\ g.ref[2] = Guarded(op, g.par)
      BY <1>1 DEF PlainUpdate, UpdateOK, GuardsOK
    <3>2. db[op.table][i][g.ref[2]] = a[g.par] /\ a[g.par] # Missing
      BY <1>6, <1>7, <3>1 DEF Guarded
    <3>3. QED
      BY <3>1, <3>2 DEF Compare
  <2>2. QED
    BY <1>5, <2>1 DEF Touched
<1>9. i = r
  BY <1>8
<1>10. QED
  BY <1>4, <1>5, <1>9

LEMMA OnlyWriteWrites == ASSUME Next, phase' = "written", phase # "written" PROVE Write
BY DEF Next, Accept, Begin, Proceed, Outcome, Query, Shut, Drain, PeerWrite

\* The SET gives each declared column the value that was shown, and names no
\* other column.
LEMMA WritesOneRow ==
  ASSUME RunInv, Write, phase' = "written",
         NEW i \in DOMAIN db[op.table], Touched(db, op, Materialized) = {i}
  PROVE  /\ DOMAIN op.set = {op.columns[f] : f \in Proposed}
         /\ \A f \in Proposed : Materialized[op.set[op.columns[f]]] = shown.proposed[f]
         /\ db' = [db EXCEPT ![op.table][i] = [c \in DOMAIN db[op.table][i] |->
              IF c \in DOMAIN op.set THEN Materialized[op.set[c]] ELSE db[op.table][i][c]]]
<1> DEFINE a == Materialized
           row == db[op.table][i]
<1>1. /\ phase = "shown" /\ op.kind = "update" /\ UpdateOK(op) /\ IsDatabase(db)
      /\ db' = Updated(db, op, a)
  BY DEF Write, RunInv, RunTypeOK, PhaseInv, Accepts
<1>2. /\ DOMAIN op.set = {op.columns[f] : f \in Proposed}
      /\ \A f \in Proposed : op.set[op.columns[f]] = ArgumentOf(f)
  BY <1>1 DEF UpdateOK, AssignmentsOK
<1>3. \A f \in Proposed : a[op.set[op.columns[f]]] = shown.proposed[f]
  BY <1>1, <1>2, AssignedValues
<1>4. Updated(db, op, a)
        = [db EXCEPT ![op.table][i] = [c \in DOMAIN row |-> IF c \in DOMAIN op.set THEN a[op.set[c]] ELSE row[c]]]
  <2>1. Updated(db, op, a) = [db EXCEPT ![op.table] = [j \in DOMAIN db[op.table] |->
          IF j # i THEN db[op.table][j]
          ELSE [c \in DOMAIN row |-> IF c \in DOMAIN op.set THEN a[op.set[c]] ELSE row[c]]]]
    BY DEF Updated
  <2>2. op.table \in DOMAIN db => db[op.table] = [j \in DOMAIN db[op.table] |-> db[op.table][j]]
    BY <1>1 DEF IsDatabase
  <2>3. QED
    BY <1>1, <2>1, <2>2 DEF IsDatabase
<1>5. QED
  BY <1>1, <1>2, <1>3, <1>4

LEMMA RowTakesProposed ==
  ASSUME RunInv, Write, phase' = "written",
         NEW i \in DOMAIN db[op.table], Touched(db, op, Materialized) = {i}
  PROVE  TakesProposed(i)
<1> DEFINE a == Materialized
           row == db[op.table][i]
<1>1. /\ DOMAIN op.set = {op.columns[f] : f \in Proposed}
      /\ \A f \in Proposed : a[op.set[op.columns[f]]] = shown.proposed[f]
      /\ db' = [db EXCEPT ![op.table][i] = [c \in DOMAIN row |->
           IF c \in DOMAIN op.set THEN a[op.set[c]] ELSE row[c]]]
  BY WritesOneRow
<1>2. [c \in DOMAIN row |-> IF c \in DOMAIN op.set THEN a[op.set[c]] ELSE row[c]]
        = [c \in DOMAIN row |-> IF \E f \in Proposed : op.columns[f] = c
                                  THEN shown.proposed[CHOOSE f \in Proposed : op.columns[f] = c]
                                  ELSE row[c]]
  <2> HIDE DEF a
  <2>1. ASSUME NEW c, \E f \in Proposed : op.columns[f] = c
        PROVE  c \in DOMAIN op.set /\ a[op.set[c]] = shown.proposed[CHOOSE f \in Proposed : op.columns[f] = c]
    <3> DEFINE g == CHOOSE f \in Proposed : op.columns[f] = c
    <3>1. g \in Proposed /\ op.columns[g] = c
      BY <2>1
    <3> HIDE DEF g
    <3>2. c \in DOMAIN op.set /\ a[op.set[c]] = shown.proposed[g]
      BY <1>1, <3>1
    <3>3. QED
      BY <3>2 DEF g
  <2>2. \A c : c \in DOMAIN op.set => \E f \in Proposed : op.columns[f] = c
    BY <1>1
  <2>3. QED
    BY <2>1, <2>2
<1>3. QED
  BY <1>1, <1>2 DEF TakesProposed

\* In a plain update the declared columns are those of the dialog's fields.
LEMMA PlainRowIsShown ==
  ASSUME RunInv, Write, phase' = "written", PlainUpdate(op),
         NEW i \in DOMAIN db[op.table], Touched(db, op, Materialized) = {i}
  PROVE  IsTheShown(i)
<1> DEFINE s == op.before
           a == Materialized
           row == db[op.table][i]
           hit == [t \in {op.table} |-> i]
<1>1. /\ op.kind = "update" /\ op \in Templates /\ UpdateOK(op)
      /\ IsDatabase(db) /\ HasColumns(db, s)
  BY DEF Write, RunInv, RunTypeOK, PhaseInv, Accepts
<1>2. /\ DOMAIN op.set = {op.columns[f] : f \in Proposed}
      /\ \A f \in Proposed : a[op.set[op.columns[f]]] = shown.proposed[f]
      /\ db' = [db EXCEPT ![op.table][i] = [c \in DOMAIN row |->
           IF c \in DOMAIN op.set THEN a[op.set[c]] ELSE row[c]]]
  BY WritesOneRow
<1>3. ASSUME NEW f \in Proposed
      PROVE  /\ f \in DOMAIN s.cols /\ s.cols[f][1] = op.table
             /\ s.cols[f][2] = op.columns[f] /\ s.cols[f][2] \in DOMAIN row
             /\ op.table \in DOMAIN db
  <2>1. f \in DOMAIN s.cols
    BY <1>1, SqlPolicyAssumption DEF SqlPolicyAssumption, IsSelect, Proposed
  <2>2. s.cols[f][1] = op.table
    BY <1>1, <2>1 DEF UpdateOK, SelectOK, FromOK, ProjectionOK
  <2>3. s.cols[f][2] = op.columns[f]
    BY DEF PlainUpdate
  <2>4. QED
    BY <1>1, <2>1, <2>2, <2>3 DEF HasColumns
<1>4. op.table \in DOMAIN db
  BY <1>3 DEF Proposed
<1>5. db'[op.table][i] = [c \in DOMAIN row |-> IF c \in DOMAIN op.set THEN a[op.set[c]] ELSE row[c]]
  BY <1>2, <1>4
<1>6. Project(db, s, hit) = shown.before
  BY ShownIsTouched
<1>7. \A f \in Proposed : Project(db', s, hit)[f] = shown.proposed[f]
  <2> TAKE f \in Proposed
  <2>1. Project(db', s, hit)[f] = db'[op.table][i][s.cols[f][2]]
    BY <1>3 DEF Project, At
  <2>2. s.cols[f][2] \in DOMAIN op.set /\ s.cols[f][2] \in DOMAIN row
    BY <1>2, <1>3
  <2>3. QED
    BY <1>2, <1>3, <1>5, <2>1, <2>2
<1>8. \A c \in DOMAIN row : db'[op.table][i][c] # row[c] => \E f \in Proposed : s.cols[f][2] = c
  BY <1>2, <1>3, <1>5
<1>9. QED
  BY <1>6, <1>7, <1>8 DEF IsTheShown

\* A confirmed update changes one row, of the resource, work order and version
\* asked for, in the declared columns, to the values of the dialog; when its
\* guards are those the rules ask for and its declared columns those of its
\* projection, it is the row and the columns the dialog showed.
THEOREM ShownStaysWritten == Spec => ShownIsWritten
<1> DEFINE W ==
      phase' = "written" /\ phase # "written" =>
        \E i \in DOMAIN db[op.table] :
          /\ IsAsked(i)
          /\ TakesProposed(i)
          /\ PlainUpdate(op) => IsTheShown(i)
<1>1. ASSUME RunInv, [Next]_vars
      PROVE  [W]_vars
  <2>1. CASE UNCHANGED vars
    BY <2>1
  <2>2. CASE Next
    <3> SUFFICES ASSUME phase' = "written", phase # "written" PROVE W
      OBVIOUS
    <3>1. Write
      BY <2>2, OnlyWriteWrites
    <3>2. PICK i \in DOMAIN db[op.table] : Touched(db, op, Materialized) = {i} /\ IsAsked(i)
      BY <1>1, <3>1, OneAskedRow
    <3>3. TakesProposed(i)
      BY <1>1, <3>1, <3>2, RowTakesProposed
    <3>4. PlainUpdate(op) => IsTheShown(i)
      BY <1>1, <3>1, <3>2, PlainRowIsShown
    <3>5. QED
      BY <3>2, <3>3, <3>4
  <2>3. QED
    BY <1>1, <2>1, <2>2
<1>2. QED
  BY <1>1, RunHolds, PTL DEF Spec, ShownIsWritten

=============================================================================
