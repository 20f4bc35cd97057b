# Formal model of the merchant agent

The repository holds a Go backend (`src/backend`, the server `agentd`) and an Electron
desktop (`src/desktop`). A user chats with an LLM agent in the backend; the agent calls tools;
some tools run in the backend, others on the user's desktop against files or the enterprise's
SQL Server. Administrators manage roles, skills and connector versions. This directory is the
TLA+ model of the parts where concurrency, failure and ordering decide whether the system is
correct, with TLC runs and TLAPS proofs.

Contents: [components](#1-components) · [hazards](#2-where-it-is-hard) · [modules](#3-modules-and-the-code) ·
[runs](#4-runs) · [fairness](#5-fairness) · [proofs](#6-what-is-proved) ·
[only model-checked](#7-what-is-only-model-checked) · [not modelled](#8-what-is-not-modelled) · [plan](#9-plan)

## 1. Components

| component | state it keeps | operations | talks to | what makes it correct |
|---|---|---|---|---|
| **Confirmed SQL update** `connectors/sql-adapter.ts`, `ledger.ts` | execution ledger (SQLite, one entry per idempotency key: `pending`, `unknown`, `succeeded`), one source transaction per write | preview, resume, confirmed update, recovery; `begin`, `markUnknown`, `markSucceeded` | SQL Server, the user's dialog, the connector runtime | one write per key, no success without proof, a negative answer is final, no lost update |
| **SQL policy and source reads** `sql-policy.ts`, `m7-contract.ts`, the reads of `sql-adapter.ts` | one connection pool per call | check a template; read, preview, test | vault, SQL Server, runtime, workbench | an accepted template answers and writes what it was asked for; no connection is left behind |
| **Policy and projection** `admin_handlers.go`, `config/`, `skill/`, `wire/projector.go`, `authz/` | tables `roles`, `role_rules`, `skills`, `domain_grants`; OpenFGA's tuples; the projector's mutex | nine admin requests, `Reproject`, boot | OpenFGA, SQLite | "ok" means in force; a deleted role leaves nothing |
| **Connector registry and catalog** `connectorregistry/`, `connector/catalog.go`, `connector_handlers.go` | `connector_versions`, `connector_lifecycle_events` (append-only) | submit, publish, suspend, revoke, the catalog snapshot of a turn | admin handlers, agent loop, workbench | versions immutable, revoked final, log = history, a connector's tool never falls back to the built-in |
| **Desktop tool call** `runtime/llm.go`, `runtime/guard.go`, `localtoolbridge.go`, `agentd.ts`, `ipc.ts`, `connectors/runtime.ts` | the turn's snapshots, `pendingTools` and its channels, the audit log; the desktop's dialog and running call | dispatch, authorize, send, wait, post, time out, record; approval, preview, confirm, write | everything above | honest audit, audited before released, stale turns harmless, every call ends |
| **Chat sessions, file bridge** `handlers.go`, `llm.go`, `filebridge.go`, `ipc.ts` | a Go slice per session; `pending` and its channels; the overwrite dialog | read the history, append, store; request a file, answer, time out | agent loop, renderer, desktop | no turn lost, sessions apart, an answer belongs to its request |
| **Connector workbench** `WorkbenchApp.tsx`, `workflow.ts`, `workbench-service.ts`, `package-store.ts`, `agentd.ts` | the window's form, evidence and frozen summary; the session and its draft; the package directory | unlock, edit, save, test, freeze, submit, lock, expire | registry, SQL Server, package store | what is submitted was tested and shown, what is registered is installed |
| **Reference tools** `local-tools/` | SQLite store with an idempotency table; the signed package; the dialog | verify the package, query, preview, confirm, write | desktop IPC | one effect per key, over restarts |
| **Startup** `startup.ts`, `index.ts` | the open parts of the desktop, the spawned backend, the windows | start, fail, close, quit, activate | all desktop parts | nothing is owned after close |
| **Vault, schema, device identity** | encrypted values, installed documents, a key pair, credentials with an expiry | read, validate, sign, verify | workbench, runtime | what they answer, at any time, is an input of the modules that ask |
| **Guard and audit chain, demo agent, server connectors, org and LLM adapters, syncer, HTTP routing, renderer, test fixtures** | a hash chain; otherwise none, or constant data | - | - | - |

`PROJECT.json` lists every component with its status and its sources.

How they interact. A chat turn reads the *session's* history, asks the *registry* for its catalog
and OpenFGA (kept by *policy and projection*) for the skills once, then at each call asks OpenFGA
again. A desktop tool's call goes as an event over the turn's own HTTP response to the desktop, which asks the
registry whether the version is still published, shows a dialog, and runs the *SQL update*; the
answer comes back by a POST of its own. File tools of the turn go the same way through the *file bridge*.
The *workbench* is how a version comes into being: tested against the source, frozen, installed on the
device, submitted to the registry. *Startup* owns all desktop parts and closes them. Three
stores that are never committed together - the ledger, the source database, the audit log - must end
up telling one story, and so must two more: the package directory and the registry.

## 2. Where it is hard

The hazards, each at its line with the properties that cover it, are in `PROJECT.json`. Their families:

- *no transaction over two stores*: ledger and source; policy tables and OpenFGA; source and audit log; package directory and registry;
- *an outcome nobody knows*: a commit whose answer is lost, a POST that comes late, a broken stream, a submission that is lost;
- *state read early and used late*: catalog and skills of a turn, the approval before the dialog,
  the row before the confirmation, the version an admin handler listed, the form a test was started with;
- *several of the same at once*: admin handlers, projections, deliveries of a key, dialogs, turns of a session over one backing array;
- *timers against answers*: 120 s in both bridges, the dialogs' timers, the driver's and the commit's deadlines, a session's expiry;
- *an owner that closes*: a call whose runtime or session closes while its pool opens, a quit during the start.

## 3. Modules and the code

`PROJECT.json` maps each definition to its lines. The names follow the code.

| module | is | state ↔ code | actions ↔ code |
|---|---|---|---|
| `SqlUpdate` | `ConnectorRuntime.execute` of one write, with the ledger and the source | `ledger` the SQLite table; `row`, `lock`, `srv` the database's side; `pc`, `req`, `seen` the call's locals; `carried`, `denied` history | `Deliver` = `resumeUpdate`; `Preview`, `Confirm`/`Decline` (`executeConfirmedUpdate` up to `begin`), `BeforeRead`, `Update`, `SendCommit`, `Acknowledged`, `OutcomeLost` = `executeCreatedUpdate`; `RecoverRead`, `Judge...` = `recoverEntry`; `ServerCommit`, `ServerRollback`, `PeerWrite`, `Crash` the environment |
| `IdempotentUpdate` | what a keyed update promises, without ledger, transaction or crash | - | `Fix`, `Apply`, `Grant`, `Deny`, `Peer`; implemented by `SqlUpdate` under the mapping `Abstract` |
| `SourceCall` | one reading call: credential, pool, query, one retry, its owner's abort | `pools` the pools of the two attempts; `call`, `attempt`, `next` the call's locals; `closed` the signal | `Check`, `Fetch`, `Left` the program's own steps; `Opened`, `OpenFails`, `Leave`, `PoolCloses` the driver's answers; `Late` a pool whose call has ended; `Close` the owner |
| `SqlPolicy` | what a template may say and what an accepted one does; **extends** `SourceCall`, which carries each of its reads | `db` the customer's tables; `op` the template's syntax tree; `args`, `shown`, `answer` the run's locals | `Accept` = the validators; `Begin` the argument checks; `Proceed`, `Query` = a read, preview or test as the call goes on; `Write` the confirmed update; `PeerWrite` another application |
| `PolicyProjection` | admin handlers and the projector | the four tables; `tuples` OpenFGA; `holder` the mutex; `view`, `diff` the projection's locals; `author`, `since`, `buried`, `clash` history | one action per SQL statement, per table read of `Reproject`, and for the OpenFGA write; `Abort` any failure or cancelled context; `Crash`, `Boot` |
| `ConnectorRegistry` | registry, its admin handler, the composed catalog | the two tables; `admin` what a handler keeps between its two transactions | `Submit`, `ListVersion` then `Transition`; `Resolve` = the catalog |
| `ToolCall` | a turn's calls, end to end; **extends** `ConnectorRegistry`, whose steps interleave with its own | `loop` the agent's locals; `pending`, `answer` the bridge; `stream`, `connected`, `desk` the desktop; `audit`, `released`; `wrote`, `inflight` the source; `late` history | `StartTurn` ... `Record` = `Ask`, `dispatchWithTools`, `InvokeLocalTool`; `Take` ... `Post` = `agentd.ts` and `ConnectorRuntime.execute`; `Disconnect`, `DesktopDies`, `PolicyEdit` |
| `Workbench` | window, session, package directory, submission; **extends** `ConnectorRegistry`, whose `Submit` takes what it posts | `form` ... `shown`, `run` the React state and the operation under way; `service` the session; `disk`; `wire` POSTs on their way | `Start`, `Read...` the window's two ends of a call; `SaveDraft` ... `Install` the service's; `Deliver`, `LosePost` the backend and the network; `Expire`, `Lock`, `Edit`, `WindowCloses` what happens meanwhile |
| `ChatSession` | turns over shared histories, with the file bridge | `arrays`, `sessions` Go's slices; `turn` the handler; `pending`, `answer` the bridge; `stream`, `desk`, `busy` the desktop; `opens`, `told`, `mixed` history | `Begin` ... `Save` = `handleChat`, `Ask`; `RequestFile` ... `FileTimeout` = `filebridge.go`; `HandleFile` ... `EndStream` = `agentd.ts`, `ipc.ts` |
| `CapabilityPackage` | the signed package's checks and what it says of a request: pure operators | - | `Verified`, `Requires`, `Accepts` |
| `Startup` | the life of the desktop process | `open` its parts; `agentd` the spawned backends; `app`, `held`, `closed`, `stopped`, `quitting`, `windows` the module's flags | `Launch`, `Spawned`, `Loaded` and their failures, `Quit`, `CloseWindow`, `Activate`, `Exit` (a crash too), `BackendDies` |
| `ReferenceExecutor` | the reference tools; **extends** `Startup` and `CapabilityPackage`: its calls live in that process | `row`, `done` the SQLite tables; `desk` the calls with their dialogs; `wrote` history | `Deliver` = request, checks and preview; `Approve` (with the write's transaction), `Decline`, `Expire`, `ClickLate` the dialog; `Start`, `Proceed`, `End` the process |
| `SqlUpdateProofs`, `SqlPolicyProofs`, `PolicyProjectionProofs`, `ConnectorRegistryProofs`, `ToolCallProofs`, `WorkbenchProofs`, `ReferenceExecutorProofs`, `ChatSessionProofs` | theorems of the module of that name (`SqlPolicyProofs` also of `SourceCall`); `ToolCallProofs` **extends** `ConnectorRegistryProofs`, whose lemmas it uses | | |
| `MC...` | the instances TLC runs | | |

Choices worth knowing:

- *Granularity.* A step ends where the code awaits, unlocks or commits. Code that runs without
  yielding (the check and `ledger.begin` in Node's single thread; a SQL transaction on the store's one
  connection) is one action, its trailing writes included.
- *Histories* (`carried`, `denied`, `author`, `since`, `buried`, `clash`, `late`, `opens`, `told`, `mixed`, `wrote` of
  `ReferenceExecutor`, and the field `tested` of a workbench session) only record; no action's guard reads them.
- *The database* of `SqlUpdate` is external: a row with an exclusive lock, READ COMMITTED reads that
  wait for it or, with `SnapshotReads`, do not. `VersionedPeers` says whether other writers bump the
  version field, which the connector's contract asks of them. `SameKeyOverlap` says whether two
  deliveries of one key may be in flight together; a call's key is derived from its own call id and the
  desktop serves a stream one request at a time, so one after the other is the usual case.
- *`ToolCall` abstracts the write* to three outcomes (committed; not and never; nobody knows), which
  is the contract the properties `HonestFailure` and `VerdictIsFinal` of `SqlUpdate` check.
- *Authorization in `ToolCall`* is one Boolean, what OpenFGA answers for this user and tool: what makes it
  true is the subject of `PolicyProjection`.
- *In the registry* a submission has passed its contract checks and its attestation; what a caller may
  send is the set `Submissions`.
- *A template* of `SqlPolicy` is a syntax tree with columns as positions, values as small numbers and parameters by the name of
  their argument. An outer join is an inner join that keeps more rows and ORDER BY only orders them: the
  validators treat them alike, and the model does not tell them apart.
- *A form* of `Workbench` is its package label, its contents and its test arguments; a payload's digest is
  the payload, since the canonical encoding never gives two contents one digest. A payload of the code also has
  the digest of the results its tests showed (`evidenceDigest`); the model does not tell two results of one test apart.
- *In `Startup`* `kill()` ends the backend at once and does not throw, and of one `close()` at most one disposal throws; the code goes
  on after any number of them, and what stays open is then the parts that threw.
- *In `ChatSession`* `PostFile` is one step, though `resolveFile` unlocks between finding the channel and sending on it: the
  channel is the request's own and takes one answer without blocking.
- *A Go slice* of `ChatSession` is the array's name and a length. `append` writes in place while the array has room and
  otherwise copies into an array of twice the length, as Go does for short slices.
- Definitions whose comment begins with "Mutant of" are wrong variants beside the definition they vary. No
  specification uses them; each makes TLC find the violation of one property, which shows the
  property can fail.

## 4. Runs

Sizes are distinct states. Symmetry is used only in runs without liveness.

| run | instance | shows |
|---|---|---|
| `sql_overlap` (1.1 M) | 2 deliveries, 2 keys, 3 requests (a duplicate with other arguments, another key with the same change), versioned reads, any other writer, crashes, failing local store | `AtMostOneCommit`, `AnswersAgree`, `SuccessWasVisible`, `HonestFailure` hold even in the harshest environment |
| `sql_retry` (29 k) | 2 deliveries, 2 keys, 3 versions, locking reads, peers that keep the version | `NoLostUpdate`, `VerdictIsFinal`, `EveryCallSettles`, and `IdempotentUpdate` is implemented |
| `sql_snapshot` (violation) | `sql_retry` with versioned reads | a recovery's read passes the lock of the commit it judges: `source_conflict` is answered, then the write lands |
| `templates` (349 k) | some hundred reads and updates that differ in WHERE, guards, SET, declared columns, row limit and join, the accepted ones run - qualified and plain or not; 2 tables of 2 rows with every content over {0, 1} that tells rows apart; runtime, workbench and bare connection test; another application writing while the dialog is open | `ReadStaysOnResource`, `ShownIsWritten`; the version at the end of its range (`RunTypeOK`); over the connection protocol `NoPoolIsLeft`, `CloseEndsTheCall` |
| `policy_edits` (934 k) | 2 handlers, 1 role and 1 malformed role id, 1 skill, 3 requests of all nine kinds, crashes, cancelled requests, boots | `OkMeansInForce`; `CascadeComplete`: a deletion nobody interrupts leaves no trace |
| `policy_deletions` (violation) | 2 handlers delete 2 roles that one skill names | each writes the skill back as it listed it: a deleted role returns |
| `registry` (22 k) | 2 admins, 1 connector, 2 versions, relabelled and repackaged resubmissions, a log of 6 events | `LogExplainsStatus`, `NameIsTaken`, `VersionsAreImmutable` |
| `call_turn` (403 k) | a turn of 2 calls, 1 admin, 1 lifecycle event, unlimited policy edits | `AuditIsHonest`, `ReleasedIsAudited`, `StaleTurnNeverWrites`, `EveryCallEnds` |
| `call_cut` (violation) | 1 call | the stream breaks during the write: the audit log says `cancelled` of a write that is in the source |
| `workbench` (194 k) | 2 contents of one version, 1 tool and the connection test, 2 credentials, 1 submission on its way at a time | `SubmittedWasTested`, `SubmittedIsShown`, `RegisteredIsInstalled`, `ShownIsOfDraft`, `EveryRunEnds` |
| `reference` (359 k) | 2 calls at a time out of 6 requests (repeated, racing, contradicting, out of range, null, a query), 3 package files, 2 keys, one of them perhaps from an earlier version, 2 starts | `VersionCountsKeys`, `AnswersAgree`, `ConfirmedIsReplaced`, `ClosedOwnsNothing` |
| `chat` (124 k) | 2 turns of one session or two, after a past turn of either or none, 2 model calls each, with file requests | `SequentialHistory`, `SessionsApart`, `FileAnswerFits`, `EveryTurnEnds` |

The three violated properties state what a document or a comment of the repository says; `PROJECT.json`
quotes it. `CascadeComplete` and the "unless the connection broke" in `AuditIsHonest` are what remains true
of two of them.

*What the code allows and no property forbids.* Met while modelling. No run checks them: no text of the repository says
otherwise (but see the first two), or a property would only restate them.

- A version revoked while the user's dialog is open still writes (`runtime.ts:225`). The design wants an installed package of a revoked
  version not to execute (`2026-07-12-enterprise-connector-workbench-design.md:249`); it does not say whether a call that has begun is
  meant. `StaleTurnNeverWrites` is about calls made after the revocation.
- A read is pinned by the name of its column, not by its table (`sql-policy.ts:470`); the test "rejects query_order_status when orderId filters
  an unrelated column" (`m7-contract.test.ts:121`) tries a column of another name. Nothing ties an update's declared
  columns to its projection (`sql-policy.ts:637`); an UPDATE may have guards beyond the three asked for (`sql-policy.ts:546`), so
  that it writes another row of the same order, work order and version than the dialog showed, if the read-back is as particular. The
  properties say so in the open: `ReadStaysOnResource` is about reads that are `QualifiedRead`, and `ShownIsWritten` claims of every
  accepted update that it writes one row of the resource asked for, as declared, and only of a `PlainUpdate` that it is the row and the
  columns the dialog showed. The run's templates include all three forms: with `QualifiedRead` dropped, or with either half of
  `PlainUpdate`, TLC finds the violation in the same run.
- `ReplaceRules` (`config.go:195`) stores a role id `CreateRole` would refuse; no projection, and no boot, succeeds
  from then on. `policy_edits` contains such an id: `OkMeansInForce` holds with it.
- Two turns of one session mix their messages in one backing array (`llm.go:283`), and the last to end stores its
  own history over the other's (`handlers.go:88`). `SequentialHistory` is therefore stated for sessions that
  never had two turns at a time; `SessionsApart` bounds the damage.
- The dialog of the reference tools shows a record without comparing its version to the one the request expects
  (`executor.ts:256`); `ConfirmedIsReplaced` is stated for requests that expect what was shown.
- A quit while the start is waiting leaves the spawned backend running (`index.ts:197`), and on macOS `activate` shows a
  window without a backend (`index.ts:184`).

*Bounds and why they are enough.* `MaxVersion` is 1 or 2: a write moves the version by one, and one more is
needed for a peer to move it before or after. Two calls: the properties relate a write with one
other delivery of its key (the writer and a recoverer, or a crash victim and its retry). `MaxRequests = 3`
with two handlers: an edit, one that overtakes it, and one that repairs or repeats it. `MaxEvents = 6` takes
both versions through submission, publication and suspension or revocation; with 1 in `call_turn` an
administrator takes the version away at any time - a version that returns would only relax the guard; with 1 in
`workbench` the one version is registered once, after which every other submission of its label is refused. `MaxCalls = 2`: the
second call shows what the first one leaves in the bridge and on the stream. `MaxWire = 1` lets one post of a window that
is gone stay on its way while the next session works; a second submission waits. `MaxIter = 2` puts a second file
request after one that timed out, and `MaxLaunches = 2` a life of the process after a crash. Two rows, two values: a
template that reads or writes the wrong row does so with one row that differs from the right one in one column; `MaxInt = 1` puts the
version at the end of its range. Each bound stands
in a guard (`Idle`, `Submit`, `Transition`, `MakeCall`, `Install`, `Complete`, `Launch`) or in a constant set, and no other bound exists. Deadlock is
not checked: chats end, deliveries are answered, windows stay locked, and the bounds stop the rest; liveness is stated where
it matters.

## 5. Fairness

- `SqlUpdate`: weak fairness on each call's steps, because the waits for the source and the user have a deadline
  (driver timeouts, `commitAttempt`'s deadline, the dialog's timer), so a call can always go on, at least to fail. The one wait
  without a deadline is for the system's key chain (`vault.get`, `sql-adapter.ts:1166`, `runtime.ts:248`), which is assumed to answer, here
  and in the next two modules. Also on the server ending a transaction it was asked to commit, or whose client is gone.
- `ToolCall`: weak fairness on the end of the agent's wait (its timer is its own, whatever the desktop does),
  on the agent's other steps within a call, and on the desktop's steps, each of which has a time-out but for the key chain. None on
  `MakeCall`, `StartTurn`, administrators, connection loss, or the commit that nobody waits for.
- `SqlPolicy`: weak fairness on the call's own steps only - the key chain answers and the code runs on. Nothing is
  assumed of the driver: that a closed call ends is shown without it.
- `Workbench`: weak fairness on the main process serving a call, on the window reading an answer, and on a
  submission being answered or lost (`fetch` has a timeout). None on the user, on expiry, or on locks.
- `ChatSession`: weak fairness on each turn's steps in the backend - its code runs on, its calls of the model end, and the
  120 s timer of the file bridge runs down. None on the desktop or the user: that is the point of `EveryTurnEnds`.
- `PolicyProjection`, `ConnectorRegistry` and `ReferenceExecutor` state no liveness: a projection waits for OpenFGA, whose calls have no
  timeout in this code, and the others wait for users.

## 6. What is proved

Every safety property a run checks is also a theorem, for all values of the constants, from the named assumptions of the modules
(`SqlUpdateAssumption`, `SqlPolicyAssumption`, `PolicyAssumption`, `RegistryAssumption`, `NoneAssumption`, `NoCallAssumption`,
`WorkbenchAssumption`, `ChatAssumption`, `StartupAssumption` and those of `ReferenceExecutor`), which TLC evaluates in
the runs. They say that constants have their kinds, that `None` is no value of anything else, and of `SqlPolicy` that a database's
tables are finite, with the columns a template projects (SQL Server refuses the template otherwise), and that arguments are in the range of
their bindings. Each inductive invariant was checked by TLC on the runs' instances before it was proved.

**SqlUpdate** (`SqlUpdateProofs`): `Spec => []TypeOK`, `[]AtMostOneCommit`, `[]SuccessWasVisible`,
`[]HonestFailure`, for any number of calls and keys, either kind of reads and any other writers. None of the
properties is inductive. `IInv` adds what the code relies on without saying so:

- `OneWriter` - among the calls of a key at most one is, was or may become its writer: from `begin`, which only
  succeeds on a key without an entry, and from entries never being deleted;
- `EntryKnown` - a writer or a recoverer works under an entry with its own fingerprint;
- `SeenInv` - what a transaction will commit matches its key's entry (`WrittenMatches`: the before record is
  the confirmed one, so the version moves by exactly one);
- `StageInv` - a sent commit is only ever behind a call that waits for it or has answered `succeeded` or `unknown`;
- `CarriedInv`, `EntryInv`, `RowInv` - a matching row has been witnessed, so recording a success after an
  acknowledgement or a matching read-back is truthful.

One lemma per action shows it inductive; the two ends that write the ledger share
`RecordedKeeps`, whose premise `Recorded` is all that `markSucceeded` and `markUnknown` may do.

The second half of the module, from "Open transactions" on, builds on `IInv`. `StepCases` sorts the steps by what they do to the ledger - open an
entry (`Opens`), record an outcome (`Settles`), leave it alone (`Other`) - and each theorem adds what it needs, naming
the environment it needs it in:

- `[]AnswersAgree`, in every environment, from `AgreeInv` and `OpenInv`: while a transaction is open the
  row is the one it found, of the version before its entry's, and what it will commit is that row with the change made;
- `NoLostUpdate`, for `VersionedPeers` alone, from `BeforeInv`: between the before-read and the UPDATE the row is
  the confirmed one, gone, or of a later version, so the version predicate that passes has found the confirmed one. Versioned
  reads and overlapping deliveries do no harm, which the runs do not show;
- `VerdictIsFinal`, for `~SnapshotReads` and `~SameKeyOverlap`, from `VInv`: a recovery that has read past the
  lock finds no open transaction of its key (`JudgeInv`), and after its verdict no call of the key writes or will (`FinalInv`). Other
  writers are free to do anything. `sql_snapshot` shows that the first condition cannot be dropped;
- `ImplementsIdempotentUpdate` under the same two conditions, with one lemma per abstract action: `Opens` is `Fix`,
  `Settles` is `Grant` or a stutter, `JudgeNotWritten` is `Deny`, `ServerCommit` is `Apply` (it needs `OneWriter`, `OpenInv`
  and `FinalInv`), `PeerWrite` is `Peer`, and everything else, a crash too, changes nothing an observer sees.

**SqlPolicy** and **SourceCall** (`SqlPolicyProofs`): `[]RunTypeOK`, `[]NoPoolIsLeft`, `[]ReadStaysOnResource` and the action property
`ShownIsWritten`. A template is any syntax tree the validators accept, a database any finite tables, so the theorems say what the rules
are worth: that they suffice, and for which templates - the conditions are in the properties, not in the theorems. `LeafHolds` and `PinnedField` are the heart: in a conjunction whose clauses have
one leaf each, a row a SELECT finds satisfies every leaf, and a field whose column a leaf pins has the argument's value. A read needs
in addition that a column of the resource's name is the resource's (`QualifiedRead`, which every read of one table is: `OneTableReads`). Of any
accepted update `OneAskedRow` shows that the three guards make the one row the UPDATE finds the row asked for, and `RowTakesProposed` that the SET
writes the shown values to the declared columns. For a plain one `ShownIsTouched` shows that the row the dialog showed satisfies the
guards - resource and work order because the before-statement pins them, the version because the preview compared it - hence is that row,
and `PlainRowIsShown` that the columns are the dialog's. The
connection's part is `CallStep`: any step of a call closes the pool it leaves.

**PolicyProjection** (`PolicyProjectionProofs`): `[]TypeOK`, `[]OkMeansInForce` and `[]CascadeComplete`, for any roles, skills and
requests and any number of handlers. `PolicyInv` says how far a projection can be trusted: what nobody wrote since it took the mutex is in its view
as it is in the tables it has read (`ViewInv`), what somebody did write has a writer this projection does not answer (`SinceInv`), and the
differences lead from the tuples to the view, since nobody else writes to OpenFGA (`DiffInv`). So when it applies them, an item whose
author it answers was not touched and agrees (`MatchAgrees`), and an item answered before agrees still (`UntouchedAgrees`), though
the four tables were read at four different times and the policy in force may never have existed as a whole. `StepForms` sorts the steps by what
they do to the tables - write some items, fail, read, apply, restart - so that each part of the invariant has one lemma per form. `CascadeInv`
counts how far an uninterrupted deletion has come; `AloneStep` is why only a step of another handler can spoil it.

**ConnectorRegistry** (`ConnectorRegistryProofs`): `[]RegistryTypeOK`, `[]LogExplainsStatus`, `[]NameIsTaken`
and the action property `VersionsAreImmutable`. `IInv` adds `RequestsExist` (a row an admin handler listed is
still there, since rows are never deleted) and `PublishedLeavesPending` (no transition leads back to
pending). Both writing actions are shown to be one step, `Recorded`: a row takes a new value and the log the
event of it. The log stays explained because old events keep their place and their
predecessor (`OldEventsStayExplained`) and the new one follows the last event of its version, which had
reached the status the transition found in its own transaction (`RecordedExplained`): what the handler listed before does not
matter. `NameIsTaken` then follows by cases of `Resolve`: an ever-published version is published, and serves the
name or makes the catalog fail, or is suspended or revoked, and suppresses it.

**ToolCall** (`ToolCallProofs`): `[]TypeOK`, `[]AuditIsHonest`, `[]ReleasedIsAudited` and `[]StaleTurnNeverWrites`, for any number of turns and calls, over any
registry; the registry's lemmas are used as they are. `CallsInv` follows one call through all the places it can be in. An
unsent call is nowhere (`UnsentInv`); a stream carries each call once and to its own desktop (`StreamInv`); a desktop knows what became of
the call it serves (`DeskInv`); whatever was *told* of a call - by the desktop, in the channel, by the loop's verdict, in the log - is
true of it (`Told`), where a negative outcome means that the call is `Closed`: on no stream, with no desktop that could still write, not in the source, not
on its way there. `Closed` is stable because only `Invoke` sends a call and it sends only an unsent one (`Progress`). A late call
is never sent if its skill is gone (the guard asks OpenFGA again), and never passes the desktop's check if its version is revoked, since revoked is
final in the registry (`LateInv`).

**Workbench** (`WorkbenchProofs`): `[]TypeOK`, `[]RegisteredIsInstalled`, `[]ShownIsOfDraft` and the action properties
`SubmittedWasTested` and `SubmittedIsShown`, for any forms, tools and credentials. The argument is what the window knows of
a session it cannot see. `SessionInv`: evidence on the screen, when it is of the form on the screen, is of the
service's draft and was really tested; a frozen draft was tested check by check; the frozen summary is of
that draft. Because the form stays editable while a call is out, this holds only together with `RunInv` (an edit since the
start has dropped the evidence) and `RunSessionInv`: which draft an operation has saved at each
of its steps, and that a submission under way whose session has a frozen draft is of that draft - which a freeze whose
answer is still unread would break, had the window two operations at a time. `PostInv` (a submission the window waits for is
the only one) makes an answer reach the call it answers, and `DiskInv` extends `RegisteredIsInstalled` to what is on its
way: the package is on disk before the POST, and `Installed` never replaces one (`InstalledKeepsDisk`).

**ReferenceExecutor** (`ReferenceExecutorProofs`): `[]TypeOK`, `[]VersionCountsKeys`, `[]AnswersAgree`, `[]ClosedOwnsNothing` and
the action property `ConfirmedIsReplaced`, for any package files, requests, keys and number of starts. `IInv` adds `StartsInv` (the
backend of this start is gone once it was stopped), `EntryInv` (an entry stands for one write of a record), `DialogInv` (an
open dialog shows the record, or one of an earlier version - which is why expecting the version shown suffices) and `AnswerInv` (a
success was given what its key's entry holds). The version counts the keys because the write that moves it inserts its key in the same
transaction, which refuses a key that is there.

**ChatSession** (`ChatSessionProofs`): `[]TypeOK`, `[]FileAnswerFits`, `[]SessionsApart` and `[]SequentialHistory`, for any turns, sessions and number of
model calls. `FileAnswerFits` rests on `BridgeInv`: what a desktop works on is a request of its own turn, what a channel
holds is the answer to the one request its turn is waiting for, and a registration goes away in the step that ends the
wait, so a late answer finds nothing. `SessionsApart` is an argument about `append`, in the lemma
`AppendKeeps`: in place or in a new array, it adds a message of the slice's own session behind everything that slice shows, and
leaves every other slice of the array within it and made of messages. `HeapApart` says that an array only ever holds messages of
the session it was made in, `SlicesInv` that a session's history and its running turns are slices of such arrays - they may
be of one array, which is why the messages *inside* a session can mix - and `NamesInv` that nothing in the arrays is of a
turn to come, so that a turn may still choose its session. `CountInv` bounds what a turn says. `SequentialHistory` adds the order: `SequentialInv` says that in a session that never had two turns at a
time, the running turn's slice is the stored history followed by what the turn has said so far (`RunningInv`), over an array that other
turns of the session may have left longer than the history - a failed turn's messages lie behind it, and `append` writes over
them (`SayingStep`, `SequentialStep`). `Save` then stores exactly the remembered messages and the turn's.

## 7. What is only model-checked

Liveness: `EveryCallSettles`, `EveryCallEnds`, `EveryRunEnds`, `EveryTurnEnds`, `CloseEndsTheCall`. They rest on fairness and so on
ENABLED, which TLAPS cannot reason about. The three violated properties are TLC's by nature. Everything else a run
checks is proved; the type invariants of `Workbench` and `ChatSession` are proved and not checked by a run.

`told` of `ChatSession` is kept as the sequence of messages of the remembered turns, not as the turns: what a flattened
sequence of sequences is would be an induction over data, which is out of the provers' reach as well.

## 8. What is not modelled

- Tools served by the backend, the deterministic demo agent: they change no state.
- A submission's contract validation and attestation, the field-by-field validation of documents, the cryptography of
  device identity, packages and audit chain: pure functions of data, or out of a model checker's reach.
- The SQL parser and the spelling of identifiers, the path jail of `fsguard.ts`: string work.
- Data domains beyond one, the org directory, the demo fixtures: constant data.
- A write to OpenFGA that is carried out after its cancelled request released the mutex, and OpenFGA's cap on the tuples
  of one write: what a remote service does is not in this code.
- The vault's and the device identity's own writes; the reference executor's second branch, which the product never configures.
- Who asks: after the user is switched in the desktop, a session goes on with the prompt of the user who opened it (`llm.go:279`).
- The components with the status `not_modelled` in `PROJECT.json`, each with its reason.

## 9. Plan

Done, in the order of importance: `SqlUpdate` with `IdempotentUpdate`, `PolicyProjection`,
`ConnectorRegistry`, `ToolCall` composed with it; `ChatSession`; `Workbench` composed with the registry; `Startup`,
`CapabilityPackage` and `ReferenceExecutor` composed of them; `SqlPolicy` over `SourceCall`; proofs of every safety property
the runs check and of the refinement of `IdempotentUpdate`.

Next modules:

1. Retry with a new key - `ToolCall`'s calls over `SqlUpdate`'s ledger: a model that retries after `unknown`
   gets a new call id and so a new idempotency key (`localtool.go:100`).
2. `AuditChain` - concurrent appends of a tenant's chain, its entries abstract.
3. What a keyed write in one transaction promises - a key's effect fixed, landed and granted in one step - as an abstract
   specification `ReferenceExecutor` implements. `IdempotentUpdate` fixes an effect before it lands, which the reference store
   never does: its keys have no entry before their write.

Next theorems: the refinement of item 3, with `EntryInv` and `AnswerInv` of `ReferenceExecutorProofs`; that the contract `ToolCall` assumes
of a write (section 3) is what `SqlUpdate` gives: its three outcomes as a mapping of a call's `pc` and `srv`.
