----------------------------- MODULE SqlPolicy -----------------------------
(***************************************************************************)
(* The rules an SQL template of a connector must satisfy (sql-policy.ts,   *)
(* m7-contract.ts), and what an accepted template then does to a database  *)
(* whatever the rows are (sql-adapter.ts): a read answers one projected    *)
(* record, an update previews a record, is confirmed, and writes.  Reads   *)
(* and previews are calls of SourceCall, made by the connector runtime or  *)
(* by a test of the workbench, which also tests the bare connection.       *)
(*                                                                         *)
(* A template is its syntax tree.  A reference is <<table, column>>; a     *)
(* WHERE is a set of clauses, all of which must hold, each a set of        *)
(* leaves, one of which must; a SET assigns an argument to each of its     *)
(* columns.  A parameter goes by the name of the argument it is bound to   *)
(* (the bindings are one to one).                                          *)
(***************************************************************************)
EXTENDS SourceCall, Integers, FiniteSets

CONSTANTS
  Templates,  \* what an implementer may write: reads and updates
  Databases,  \* the contents the database may have: table -> row -> column -> value
  Arguments,  \* the arguments a call may carry
  VersionColumn,  \* the column the fixed contract calls "version"
  MaxInt,     \* the largest value of an Int binding
  Missing,    \* an optional argument that is not given
  None        \* no row limit, no record

VARIABLES
  db,     \* the database
  op,     \* the template
  phase,  \* where its one run stands
  by,     \* who runs it, None before
  args,   \* the arguments of the run, the derived one included
  shown,  \* an update: the record and the proposed values of the dialog
  answer  \* the records the run returned

runVars == <<db, op, by, args, shown, answer>>
vars == <<callVars, phase, runVars>>

Values == 0..MaxInt

\* Tables of finitely many rows, with values in their columns.
IsDatabase(d) ==
  /\ d = [t \in DOMAIN d |-> d[t]]
  /\ \A t \in DOMAIN d :
       /\ IsFiniteSet(DOMAIN d[t])
       /\ d[t] = [i \in DOMAIN d[t] |-> d[t][i]]
       /\ \A i \in DOMAIN d[t] : \A c \in DOMAIN d[t][i] : d[t][i][c] \in Values

\* The database has the columns a SELECT projects: it would refuse it otherwise.
HasColumns(d, s) ==
  \A f \in DOMAIN s.cols :
    /\ s.cols[f][1] \in DOMAIN d
    /\ \A i \in DOMAIN d[s.cols[f][1]] : s.cols[f][2] \in DOMAIN d[s.cols[f][1]][i]

\* A SELECT projects the fields of its fixed contract.
IsSelect(s, fields) ==
  /\ fields \subseteq DOMAIN s.cols
  /\ \A clause \in s.where : IsFiniteSet(clause)
  /\ \A d \in Databases : HasColumns(d, s)

SqlPolicyAssumption ==
  /\ MaxInt \in Nat /\ Missing \notin Values
  /\ \A d \in Databases : IsDatabase(d)
  /\ \A a \in Arguments : /\ {a.completionRate, a.expectedVersion} \subseteq Values
                          /\ a.note \in Values \cup {Missing}
  /\ \A t \in Templates :
       /\ t.kind = "read" => IsSelect(t.select, {"orderId"})
       /\ t.kind = "update" =>
            IsSelect(t.before, {"orderId", "workOrderId", "version", "completionRate", "note"})

ASSUME SqlPolicyAssumption

RunTypeOK ==
  /\ IsDatabase(db)
  /\ op \in Templates
  /\ phase \in {"new", "accepted", "running", "shown", "answered", "written", "refused"}
  /\ by \in {None, "runtime", "workbench"}
  /\ CallTypeOK

-----------------------------------------------------------------------------
\* The template.

Leaves(where) == UNION where

AndOnly(where) == \A clause \in where : Cardinality(clause) = 1

Parameters(where) == {leaf.par : leaf \in Leaves(where)}

\* validateFrom, validateJoinPredicate: the declared tables, each but the first
\* joined to another by an equality of two columns.
FromOK(s, declared) ==
  /\ s.from = declared
  /\ Cardinality(s.join) = Cardinality(s.from) - 1
  /\ \A j \in s.join : j[1][1] # j[2][1] /\ {j[1][1], j[2][1]} \subseteq s.from

\* validateTop: a read is limited to as many rows as it declares, at most 100.
TopOK(s, top) == s.top = top /\ (top # None => top \in 1..100)

\* validateProjection: the projected expressions are columns.
ProjectionOK(s) == \A f \in DOMAIN s.cols : s.cols[f][1] \in s.from

\* validateSelectTemplate: no clause beyond these, the declared projection and
\* row limit, and every comparison is of a column with a parameter.
SelectOK(s, declared, top) ==
  /\ s.extras = {}
  /\ TopOK(s, top)
  /\ FromOK(s, declared)
  /\ ProjectionOK(s)
  /\ \A leaf \in Leaves(s.where) : leaf.ref[1] \in s.from /\ leaf.par # "literal"

\* Two references agree when their columns have one name: their tables are not
\* compared.
SameColumn(r, q) == r[2] = q[2]

\* Some leaf pins the column of a projected field to an argument.
Pins(s, leaf, field, par) ==
  leaf.par = par /\ leaf.op = "=" /\ SameColumn(leaf.ref, s.cols[field])

\* Mutant of Identifies: the argument may stand in one branch of an OR.
IdentifiesSomewhere(s, field, par) ==
  \E leaf \in Leaves(s.where) : Pins(s, leaf, field, par)

\* readOperationUsesResourceParameter: the argument is used once, in a
\* conjunction, to pin the field's own column.
Identifies(s, field, par) ==
  /\ s.where # {}
  /\ AndOnly(s.where)
  /\ \E leaf \in Leaves(s.where) :
       /\ Pins(s, leaf, field, par)
       /\ \A other \in Leaves(s.where) : other.par = par => other = leaf

\* validateReadOperation and the contract of query_order_status.
ReadOK(t) ==
  /\ SelectOK(t.select, t.declared, t.maxResults)
  /\ Parameters(t.select.where) = {"orderId"}
  /\ Identifies(t.select, "orderId", "orderId")

-----------------------------------------------------------------------------
\* The update, report_production_progress.

Proposed == {"completionRate", "note", "version"}

ArgumentOf(field) == IF field = "version" THEN "nextVersion" ELSE field

Derived == {"orderId", "workOrderId", "completionRate", "expectedVersion",
            "note", "nextVersion"}

\* Mutant of AssignmentsOK: the SET may assign columns nobody declared.
AssignmentsInclude(t) ==
  \A f \in Proposed : t.columns[f] \in DOMAIN t.set /\ t.set[t.columns[f]] = ArgumentOf(f)

\* validateAssignments, exactProposedField: the SET assigns the declared
\* columns and no other, the argument of each proposed field to its column.
AssignmentsOK(t) ==
  /\ DOMAIN t.set = {t.columns[f] : f \in Proposed}
  /\ \A f \in Proposed : t.set[t.columns[f]] = ArgumentOf(f)
  /\ t.columns.version = VersionColumn

\* collectUpdateGuards, validateUpdateTemplate: the conjunction pins the
\* resource, the version and, once, the work order.
GuardsOK(t) ==
  LET Guard(c, par) == [ref |-> <<t.table, c>>, op |-> "=", par |-> par] IN
  /\ \A g \in t.guards : g.op = "=" /\ g.par # "literal"
  /\ Guard(t.before.cols.orderId[2], "orderId") \in t.guards
  /\ Guard(VersionColumn, "expectedVersion") \in t.guards
  /\ {g \in t.guards : g.par = "workOrderId"} =
       {Guard(t.before.cols.workOrderId[2], "workOrderId")}

\* validateUpdateOperation, assertUpdateRoles,
\* updateOperationUsesProjectedParameter.
UpdateOK(t) ==
  /\ SelectOK(t.before, {t.table}, None)
  /\ SelectOK(t.readBack, {t.table}, None)
  /\ DOMAIN t.before.cols = DOMAIN t.readBack.cols
  /\ \A s \in {t.before, t.readBack} :
       /\ AndOnly(s.where)
       /\ \E leaf \in Leaves(s.where) : Pins(s, leaf, "orderId", "orderId")
       /\ Identifies(s, "workOrderId", "workOrderId")
  /\ \A f \in {"orderId", "workOrderId"} : SameColumn(t.before.cols[f], t.readBack.cols[f])
  /\ AssignmentsOK(t)
  /\ GuardsOK(t)
  /\ Parameters(t.before.where) \cup Parameters(t.readBack.where)
       \cup {g.par : g \in t.guards} \cup {t.set[c] : c \in DOMAIN t.set} = Derived

Accepts(t) ==
  \/ t.kind = "connection"
  \/ t.kind = "read" /\ ReadOK(t)
  \/ t.kind = "update" /\ UpdateOK(t)

-----------------------------------------------------------------------------
\* What the database makes of it.

\* A comparison with a parameter that has no value is not true.
Compare(x, rel, y) ==
  /\ y # Missing
  /\ \/ rel = "=" /\ x = y
     \/ rel = "<>" /\ x # y
     \/ rel = "<" /\ x < y

At(d, hit, ref) == d[ref[1]][hit[ref[1]]][ref[2]]

\* The combinations of rows, one of each table, a SELECT finds.
Hits(d, s, a) ==
  LET Rows == UNION {DOMAIN d[t] : t \in s.from} IN
  {hit \in [s.from -> Rows] :
     /\ \A t \in s.from : hit[t] \in DOMAIN d[t]
     /\ \A j \in s.join : At(d, hit, j[1]) = At(d, hit, j[2])
     /\ \A clause \in s.where : \E leaf \in clause :
          Compare(At(d, hit, leaf.ref), leaf.op, a[leaf.par])}

\* A TOP cuts the result at some of them.
Results(d, s, a) ==
  LET all == Hits(d, s, a) IN
  IF s.top = None THEN {all}
  ELSE {some \in SUBSET all :
          Cardinality(some) = IF Cardinality(all) < s.top THEN Cardinality(all) ELSE s.top}

\* projectRows, projectSingleRow.
Project(d, s, hit) == [f \in DOMAIN s.cols |-> At(d, hit, s.cols[f])]

Single(d, s, a) == {Project(d, s, hit) : hit \in UNION {r \in Results(d, s, a) : Cardinality(r) = 1}}

\* The rows an UPDATE finds, and the table it leaves.
Touched(d, t, a) ==
  {i \in DOMAIN d[t.table] :
     \A g \in t.guards : Compare(d[t.table][i][g.ref[2]], g.op, a[g.par])}

Updated(d, t, a) ==
  [d EXCEPT ![t.table] = [i \in DOMAIN @ |->
     IF i \notin Touched(d, t, a) THEN @[i]
     ELSE [c \in DOMAIN @[i] |-> IF c \in DOMAIN t.set THEN a[t.set[c]] ELSE @[i][c]]]]

-----------------------------------------------------------------------------
\* One run of an accepted template.

Init ==
  /\ CallInit
  /\ db \in Databases
  /\ op \in Templates /\ phase = "new" /\ by = None
  /\ args = None /\ shown = None /\ answer = None

\* A template that breaks a rule never gets past its draft.
Accept ==
  /\ phase = "new"
  /\ Accepts(op)
  /\ phase' = "accepted"
  /\ UNCHANGED <<callVars, runVars>>

\* prepareM71Arguments derives the next version.
Prepared(a) == [p \in Derived |-> IF p = "nextVersion" THEN a.expectedVersion + 1 ELSE a[p]]

\* Mutant of InRange: the boundary itself is let through.
InRangeOrLast(a) == a.expectedVersion <= MaxInt

\* The next version must fit the binding too.
InRange(a) == a.expectedVersion < MaxInt

\* The required arguments are there; a note may be missing.
Complete(a) == a.orderId # Missing

ArgumentsOK(a) ==
  \/ op.kind = "connection"
  \/ op.kind = "read" /\ Complete(a)
  \/ op.kind = "update" /\ Complete(a) /\ InRange(a)

\* checkedTool, prepareM71Arguments and the adapter's own check of the bindings
\* come before anything is asked of the source; only the workbench tests a
\* connection.
Begin(who, a) ==
  /\ phase = "accepted"
  /\ op.kind = "connection" => who = "workbench"
  /\ by' = who
  /\ IF ArgumentsOK(a)
     THEN /\ args' = CASE op.kind = "update" -> Prepared(a)
                       [] op.kind = "read" -> [orderId |-> a.orderId]
                       [] OTHER -> None
          /\ StartCall(who = "runtime")
          /\ phase' = IF call' = "failed" THEN "refused" ELSE "running"
     ELSE phase' = "refused" /\ UNCHANGED <<callVars, args>>
  /\ UNCHANGED <<db, op, shown, answer>>

\* The call goes on, or ends: a preview is shown, a read is answered.
Outcome ==
  phase' = CASE call' = "failed" -> "refused"
             [] call' = "done" -> IF op.kind = "update" THEN "shown" ELSE "answered"
             [] OTHER -> "running"

Proceed ==
  /\ phase = "running"
  /\ OwnStep \/ Opened \/ OpenFails(op.kind = "read") \/ QueryFails(op.kind = "read")
  /\ Outcome
  /\ UNCHANGED runVars

\* executeRead and executeWorkbenchRead: the rows are projected; the runtime
\* takes one record only.
Read ==
  /\ op.kind = "read"
  /\ \E result \in Results(db, op.select, args) :
       IF by = "runtime" /\ Cardinality(result) # 1
         THEN Leave("failed") /\ UNCHANGED answer
         ELSE Leave("done") /\ answer' = {Project(db, op.select, hit) : hit \in result}
  /\ UNCHANGED shown

\* proposedRecord: the arguments, or what the record has where an optional
\* argument is missing.
ProposedRecord(before, a) ==
  [f \in Proposed |-> IF f = "note" /\ a.note = Missing THEN before.note ELSE a[ArgumentOf(f)]]

\* previewUpdate: one record, at the expected version.
Preview ==
  LET found == {r \in Single(db, op.before, args) : r.version = args.expectedVersion} IN
  /\ op.kind = "update"
  /\ IF found = {} THEN Leave("failed") /\ UNCHANGED shown
     ELSE /\ Leave("done")
          /\ \E before \in found :
               shown' = [before |-> before, proposed |-> ProposedRecord(before, args)]
  /\ UNCHANGED answer

\* testConnection.
Ping == op.kind = "connection" /\ Leave("done") /\ UNCHANGED <<shown, answer>>

\* The query is answered.
Query ==
  /\ phase = "running"
  /\ Read \/ Preview \/ Ping
  /\ UNCHANGED <<phase, db, op, by, args>>

\* The owner is closed, whatever the run does.
Shut ==
  /\ Close
  /\ phase' = IF phase = "running" /\ call' = "failed" THEN "refused" ELSE phase
  /\ UNCHANGED runVars

\* The driver's late answers.
Drain ==
  /\ \E i \in Attempts : Late(i) \/ PoolCloses(i)
  /\ UNCHANGED <<phase, runVars>>

Materialized == [args EXCEPT !.note = shown.proposed.note]

\* matchesProposed.
ReadBackMatches(r) ==
  /\ r.version = shown.before.version + 1
  /\ \A f \in Proposed : r[f] = shown.proposed[f]

\* Mutant of OneRow: how many rows the UPDATE found is not looked at.
AnyRow(d, t, a) == Touched(d, t, a) # {}

OneRow(d, t, a) == Cardinality(Touched(d, t, a)) = 1

\* executeCreatedUpdate, as the transaction it is when nobody else writes
\* between its statements (SqlUpdate has those interleavings): the record is
\* still the confirmed one, one row is written, and it reads back as proposed.
Write ==
  LET after == Updated(db, op, Materialized) IN
  /\ phase = "shown" /\ by = "runtime"
  /\ IF /\ ~closed
        /\ shown.before \in Single(db, op.before, Materialized)
        /\ OneRow(db, op, Materialized)
        /\ \E r \in Single(after, op.readBack, Materialized) : ReadBackMatches(r)
     THEN /\ db' = after
          /\ \E r \in Single(after, op.readBack, Materialized) : answer' = {r} /\ ReadBackMatches(r)
          /\ phase' = "written"
     ELSE phase' = "refused" /\ UNCHANGED <<db, answer>>
  /\ UNCHANGED <<callVars, op, by, args, shown>>

\* Another application changes the database while the dialog is open.
PeerWrite(d) ==
  /\ phase = "shown"
  /\ db' = d
  /\ UNCHANGED <<callVars, phase, op, by, args, shown, answer>>

Next ==
  \/ Accept
  \/ \E who \in {"runtime", "workbench"}, a \in Arguments : Begin(who, a)
  \/ Proceed \/ Query \/ Shut \/ Drain
  \/ Write
  \/ \E d \in Databases : PeerWrite(d)

Spec == Init /\ [][Next]_vars

\* The key chain answers and the timers fire; nothing is assumed of the driver,
\* whose own timeouts may be as long as the profile says.
FairSpec == Spec /\ WF_vars(phase = "running" /\ OwnStep /\ Proceed)

-----------------------------------------------------------------------------
\* Properties.

\* The validators compare the column a read is pinned by with the resource's by
\* name only. In a qualified read the name stands for one column: every
\* comparison with a column of that name is with the resource's own. Reads of
\* one table all are; a join to a table with a column of that name may not be.
QualifiedRead(t) ==
  \A leaf \in Leaves(t.select.where) :
    SameColumn(leaf.ref, t.select.cols.orderId) => leaf.ref[1] = t.select.cols.orderId[1]

\* A qualified read, and a test of it in the workbench, answers only with
\* records of the resource it was asked for, whatever the rows and however its
\* WHERE and joins are written: the resource is what the caller was authorized
\* for. (Of accepted reads that are not qualified this is not so: the record may
\* be any one joined to a row that bears the resource's value.)
ReadStaysOnResource ==
  phase = "answered" /\ op.kind = "read" /\ QualifiedRead(op) =>
    \A r \in answer : r.orderId = args.orderId

\* The column a guard of the UPDATE compares with an argument.
Guarded(t, par) ==
  CASE par = "orderId" -> t.before.cols.orderId[2]
    [] par = "workOrderId" -> t.before.cols.workOrderId[2]
    [] OTHER -> VersionColumn

\* The validators let an UPDATE have more guards than the three asked for, and
\* assign other columns than those the proposed fields are read from. A plain
\* update does neither.
PlainUpdate(t) ==
  /\ \A g \in t.guards :
       /\ g.par \in {"orderId", "workOrderId", "expectedVersion"}
       /\ g.ref[2] = Guarded(t, g.par)
  /\ \A f \in Proposed : t.before.cols[f][2] = t.columns[f]

\* Row i is of the resource, the work order and the version that were asked for.
IsAsked(i) ==
  LET Own(f) == db[op.table][i][op.before.cols[f][2]] IN
  /\ Own("orderId") = args.orderId
  /\ Own("workOrderId") = args.workOrderId
  /\ db[op.table][i][VersionColumn] = args.expectedVersion

\* Row i has the proposed values in the declared columns, and nothing else has
\* changed.
TakesProposed(i) ==
  db' = [db EXCEPT ![op.table][i] = [c \in DOMAIN @ |->
     IF \E f \in Proposed : op.columns[f] = c
       THEN shown.proposed[CHOOSE f \in Proposed : op.columns[f] = c]
       ELSE @[c]]]

\* Row i is the one of the dialog; it reads afterwards as the dialog proposed,
\* and no column has changed but those the dialog read the proposed fields from.
IsTheShown(i) ==
  LET hit == [t \in {op.table} |-> i] IN
  /\ Project(db, op.before, hit) = shown.before
  /\ \A f \in Proposed : Project(db', op.before, hit)[f] = shown.proposed[f]
  /\ \A c \in DOMAIN db[op.table][i] :
       db'[op.table][i][c] # db[op.table][i][c] => \E f \in Proposed : op.before.cols[f][2] = c

\* Whatever the rows are and whatever changed while the dialog was open: a
\* confirmed update changes one row, of the resource, work order and version
\* that were asked for, in the declared columns and nowhere else, to the values
\* of the dialog. If the update is plain it is the row the dialog showed, in the
\* columns the dialog read. (Of others this last part is not so.)
ShownIsWritten ==
  [][phase' = "written" /\ phase # "written" =>
       \E i \in DOMAIN db[op.table] :
         /\ IsAsked(i)
         /\ TakesProposed(i)
         /\ PlainUpdate(op) => IsTheShown(i)]_vars

=============================================================================
