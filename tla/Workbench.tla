----------------------------- MODULE Workbench -----------------------------
(***************************************************************************)
(* The implementer's way of a connector version, from the form of the      *)
(* workbench window to the registry: unlock with a credential, save the    *)
(* draft, test its connection and both operations, freeze it, install the  *)
(* signed package on the device and submit it for approval.                *)
(*                                                                         *)
(* The window (WorkbenchApp.tsx) runs one operation at a time, but the     *)
(* form stays editable and timers fire while the operation waits for the   *)
(* main process (workbench-service.ts): an operation goes on with the form *)
(* and the evidence it was started with.  A call is two steps, the service *)
(* serving it and the window reading the answer; answers arrive in the     *)
(* order in which they were sent.                                          *)
(*                                                                         *)
(* A form is <<package reference, contents, test arguments>>, a payload    *)
(* <<form, tests>>: the digest of the tests covers the form's arguments.   *)
(***************************************************************************)
EXTENDS ConnectorRegistry

CONSTANTS
  Contents,      \* the profiles and SQL templates of a form
  TestArguments, \* the arguments of its tests
  Forms,         \* what the implementer may enter
  Tools,         \* the operations of a connector
  MaxWire,       \* bound on the submissions that are on their way
  Credentials    \* encoded implementation credentials

Checks == Tools \cup {"connection"}

Payloads == Forms \X SUBSET Checks

\* The window's operations.
Runs ==
  [kind : Checks \cup {"save", "freeze", "submit"}, form : Forms, done : SUBSET Checks,
   digest : Payloads \cup {None}, answer : {None, "ok", "failed", "locked"},
   step : {"save", "test", "testing", "freeze", "submit", "posting"}]

ASSUME WorkbenchAssumption ==
  /\ Forms \subseteq Keys \X Contents \X TestArguments
  /\ Payloads \subseteq Digests /\ None \notin Payloads
  /\ None \notin Runs /\ None \notin {"ok", "failed", "locked"}
  /\ MaxWire \in Nat

Ref(p) == p[1][1]

VARIABLES
  form,     \* window: what the fields contain
  view,     \* window: it holds a session
  evidence, \* window: the form that was tested and its tests
  saved,    \* window: the form was saved as it is
  frozen,   \* window: the summary of the frozen payload, with its form
  shown,    \* window: the payload whose raw test result is on the screen
  run,      \* window: the operation that is under way
  service,  \* main process: the active session
  disk,     \* the device's package directory
  wire      \* submissions on their way to the backend

window == <<form, view, evidence, saved, frozen, shown>>
vars == <<registryVars, window, run, service, disk, wire>>

NoEvidence == [key |-> None, done |-> {}]

\* A session; tested, which is not part of the program, is what a tester made of
\* the draft's form has tested since the draft had another form.
Sessions ==
  [credential : Credentials, draft : Payloads \cup {None}, frozen : BOOLEAN,
   tester : Forms \cup {None}, result : Payloads \cup {None}, tested : SUBSET Checks]

Packages == [digest : Payloads, credential : Credentials]

TypeOK ==
  /\ RegistryTypeOK
  /\ form \in Forms /\ view \in BOOLEAN /\ saved \in BOOLEAN
  /\ evidence \in [key : Forms \cup {None}, done : SUBSET Checks]
  /\ frozen \in [form : Forms, digest : Forms \X {Checks}] \cup {None}
  /\ shown \in Payloads \cup {None}
  /\ run \in Runs \cup {None}
  /\ service \in Sessions \cup {None}
  /\ disk \in [Keys -> Packages \cup {None}]
  /\ wire \subseteq [digest : Payloads, late : BOOLEAN]

-----------------------------------------------------------------------------
\* The session.

\* clearSessionState; the fields keep what the implementer entered.
ClearWindow ==
  /\ view' = FALSE /\ evidence' = NoEvidence
  /\ saved' = FALSE /\ frozen' = None /\ shown' = None

NewSession(c) ==
  [credential |-> c, draft |-> None, frozen |-> FALSE, tester |-> None, result |-> None, tested |-> {}]

\* WorkbenchService.unlock, of a credential that is bound to this device and has
\* not expired, or of another one.
Unlock(c) ==
  /\ ~view /\ run = None
  /\ \/ service' = NewSession(c) /\ view' = TRUE
     \/ service' = None /\ view' = FALSE
  /\ UNCHANGED <<registryVars, form, evidence, saved, frozen, shown, run, disk, wire>>

\* The credential expires in the main process.
Expire ==
  /\ service # None
  /\ service' = None
  /\ UNCHANGED <<registryVars, window, run, disk, wire>>

\* The lock button, or the window's own expiry timer: an answer sent before the
\* lock is read before it.
Lock ==
  /\ view /\ (run # None => run.answer = None)
  /\ service' = None
  /\ ClearWindow
  /\ UNCHANGED <<registryVars, form, run, disk, wire>>

\* The window is closed, reloaded or gone, or the application dies; what was
\* posted may still arrive.
WindowCloses ==
  /\ ClearWindow /\ run' = None /\ service' = None
  /\ form' \in Forms
  /\ wire' = {[w EXCEPT !.late = TRUE] : w \in wire}
  /\ UNCHANGED <<registryVars, disk>>

-----------------------------------------------------------------------------
\* The window starts an operation.

\* Every change of a field forgets what was established about the form.
Edit(f) ==
  /\ view /\ f # form
  /\ form' = f
  /\ evidence' = NoEvidence /\ saved' = FALSE /\ frozen' = None
  /\ UNCHANGED <<registryVars, view, shown, run, service, disk, wire>>

\* closeResult: the result goes from the window and from the main process; when
\* the session is gone there, the window locks.
CloseResult(continue) ==
  IF shown # None /\ service = None
    THEN ClearWindow /\ UNCHANGED <<form, run, service>>
    ELSE /\ shown' = None
         /\ service' = IF service = None THEN None ELSE [service EXCEPT !.result = None]
         /\ run' = continue
         /\ UNCHANGED <<form, view, evidence, saved, frozen>>

\* The button, another tool's tab, or the result's timer in the window.
Dismiss ==
  /\ shown # None
  /\ CloseResult(run)
  /\ UNCHANGED <<registryVars, disk, wire>>

Done == IF evidence.key = form THEN evidence.done ELSE {}

\* evidenceComplete.
FreezeReady == Done = Checks

\* Mutant of SubmitReady: any frozen summary will do.
SubmitFrozen == frozen # None /\ saved

\* The frozen draft is the form on the screen, and was saved last.
SubmitReady == frozen # None /\ frozen.form = form /\ saved

NewRun(kind, step, digest) ==
  [kind |-> kind, form |-> form, done |-> Done, digest |-> digest, step |-> step, answer |-> None]

\* Mutant of Start: the raw result stays on the screen.
StartShowing(kind) ==
  /\ view /\ run = None
  /\ run' = NewRun(kind, "save", None)
  /\ UNCHANGED <<registryVars, window, service, disk, wire>>

\* persistDraft, with which saving, testing and freezing begin.
Start(kind) ==
  /\ view /\ run = None
  /\ kind = "freeze" => FreezeReady
  /\ CloseResult(NewRun(kind, "save", None))
  /\ UNCHANGED <<registryVars, disk, wire>>

StartSubmit ==
  /\ view /\ run = None
  /\ SubmitReady
  /\ CloseResult(NewRun("submit", "submit", frozen.digest))
  /\ UNCHANGED <<registryVars, disk, wire>>

-----------------------------------------------------------------------------
\* The service serves a call.

Called(step) == run # None /\ run.step = step /\ run.answer = None

Answer(a) == run' = [run EXCEPT !.answer = a]

\* requireSession, requireSameSession.
NoSession == service = None /\ Answer("locked") /\ UNCHANGED <<service, disk, wire>>

Tested == IF service.draft # None /\ service.draft[1] = run.form THEN service.tested ELSE {}

\* Mutant of SaveDraft: the tester of the draft before is kept.
SaveDraftKeepingTester ==
  /\ Called("save")
  /\ \/ NoSession
     \/ /\ service # None
        /\ service' = [service EXCEPT !.draft = <<run.form, run.done>>, !.frozen = FALSE,
                                      !.result = None, !.tested = Tested]
        /\ Answer("ok")
        /\ UNCHANGED <<disk, wire>>
  /\ UNCHANGED <<registryVars, window>>

\* WorkbenchService.saveDraft.
SaveDraft ==
  /\ Called("save")
  /\ \/ NoSession
     \/ /\ service # None
        /\ service' = [service EXCEPT !.draft = <<run.form, run.done>>, !.frozen = FALSE,
                                      !.tester = None, !.result = None, !.tested = Tested]
        /\ Answer("ok")
        /\ UNCHANGED <<disk, wire>>
  /\ UNCHANGED <<registryVars, window>>

\* testConnection, testOperation up to the tester's call; a draft has one tester.
BeginTest ==
  /\ Called("test")
  /\ \/ NoSession
     \/ /\ service # None
        /\ service' = [service EXCEPT !.tester = IF @ = None THEN service.draft[1] ELSE @]
        /\ run' = [run EXCEPT !.step = "testing"]
        /\ UNCHANGED <<disk, wire>>
  /\ UNCHANGED <<registryVars, window>>

Passed == service.tested \cup (IF service.tester = service.draft[1] THEN {run.kind} ELSE {})

\* Mutant of EndTest: the aborted test of a session that is gone never answers.
EndTestOfSession ==
  /\ Called("testing") /\ service # None
  /\ service' = [service EXCEPT !.tested = Passed]
  /\ Answer("ok")
  /\ UNCHANGED <<registryVars, window, disk, wire>>

\* The test succeeds, in the session that asked for it.
EndTest ==
  /\ Called("testing")
  /\ \/ NoSession
     \/ /\ service # None
        /\ service' = [service EXCEPT
             !.result = IF run.kind \in Tools THEN service.draft ELSE @,
             !.tested = Passed]
        /\ Answer("ok")
        /\ UNCHANGED <<disk, wire>>
  /\ UNCHANGED <<registryVars, window>>

\* validateAndFreeze.
Freeze ==
  /\ Called("freeze")
  /\ \/ NoSession
     \/ /\ service # None
        /\ service' = [service EXCEPT !.frozen = TRUE]
        /\ Answer("ok")
        /\ UNCHANGED <<disk, wire>>
  /\ UNCHANGED <<registryVars, window>>

\* Mutant of Installed: a package of the same version is overwritten.
InstalledOver(p) == [digest |-> p, credential |-> service.credential]

\* loadApproved: the version is on the device, as the package of this digest.
LoadsAs(p) == disk[Ref(p)] # None /\ disk[Ref(p)].digest = p

\* ConnectorPackageStore.install, whose link(2) never replaces a file: a version
\* that is on the device stays as it is, and may be installed again only as
\* what it is.  None is a refusal.
Installed(p) ==
  IF disk[Ref(p)] = None THEN [digest |-> p, credential |-> service.credential]
  ELSE IF LoadsAs(p) THEN disk[Ref(p)]
  ELSE None

\* WorkbenchService.submit up to the POST.  submitInstalledConnector refuses a
\* package that was signed under another credential.
Install ==
  /\ Called("submit")
  /\ \/ NoSession
     \/ /\ service # None
        /\ LET p == service.draft
               package == IF service.frozen THEN Installed(p) ELSE None
           IN  /\ disk' = IF package = None THEN disk ELSE [disk EXCEPT ![Ref(p)] = package]
               /\ IF package # None /\ package.credential = service.credential
                    THEN /\ Cardinality(wire) < MaxWire
                         /\ wire' = wire \cup {[digest |-> p, late |-> FALSE]}
                         /\ run' = [run EXCEPT !.step = "posting"]
                    ELSE Answer("failed") /\ UNCHANGED wire
        /\ UNCHANGED service
  /\ UNCHANGED <<registryVars, window>>

\* A draft the schema refuses, a failing test.
CallFails ==
  /\ Called("save") \/ Called("testing")
  /\ Answer("failed")
  /\ UNCHANGED <<registryVars, window, service, disk, wire>>

\* The service's answer to a submission that was taken, or was not.
Respond(w, taken) ==
  IF w.late THEN UNCHANGED run
  ELSE Answer(IF ~taken THEN "failed" ELSE IF service = None THEN "locked" ELSE "ok")

Submission(p) == [key |-> Ref(p), digest |-> p, tools |-> ToolNames]

\* handleConnectorSubmit takes a submission or refuses it; its response may be
\* lost.
Deliver(w) ==
  /\ wire' = wire \ {w}
  /\ \/ Submit(Submission(w.digest)) /\ \E heard \in BOOLEAN : Respond(w, heard)
     \/ Immutable(Submission(w.digest)) /\ Respond(w, FALSE) /\ UNCHANGED registryVars
  /\ UNCHANGED <<window, service, disk>>

\* The POST is lost, or its attestation is refused.
LosePost(w) ==
  /\ wire' = wire \ {w}
  /\ Respond(w, FALSE)
  /\ UNCHANGED <<registryVars, window, service, disk>>

-----------------------------------------------------------------------------
\* The window reads the answer.

Answered(a) == run # None /\ run.answer = a

\* The draft is saved: the operation is done, or makes its own call.
ReadSaved ==
  /\ Answered("ok") /\ run.step = "save"
  /\ saved' = TRUE
  /\ run' = IF run.kind = "save" THEN None
            ELSE [run EXCEPT !.step = IF run.kind = "freeze" THEN "freeze" ELSE "test", !.answer = None]
  /\ UNCHANGED <<registryVars, form, view, evidence, frozen, shown, service, disk, wire>>

\* Mutant of ReadTested: the evidence goes to the form now on the screen.
ReadTestedHere ==
  /\ Answered("ok") /\ run.step = "testing"
  /\ evidence' = [key |-> form, done |-> Done \cup {run.kind}]
  /\ run' = None
  /\ UNCHANGED <<registryVars, form, view, saved, frozen, shown, service, disk, wire>>

\* The evidence is of the form that was tested; whatever was established of
\* another form is dropped.
ReadTested ==
  /\ Answered("ok") /\ run.step = "testing"
  /\ evidence' = [key |-> run.form,
                  done |-> (IF evidence.key = run.form THEN evidence.done ELSE {}) \cup {run.kind}]
  /\ shown' = IF run.kind \in Tools THEN <<run.form, run.done>> ELSE shown
  /\ run' = None
  /\ UNCHANGED <<registryVars, form, view, saved, frozen, service, disk, wire>>

ReadFrozen ==
  /\ Answered("ok") /\ run.step = "freeze"
  /\ frozen' = [form |-> run.form, digest |-> <<run.form, run.done>>]
  /\ run' = None
  /\ UNCHANGED <<registryVars, form, view, evidence, saved, shown, service, disk, wire>>

ReadSubmitted ==
  /\ Answered("ok") /\ run.step = "posting"
  /\ run' = None
  /\ UNCHANGED <<registryVars, window, service, disk, wire>>

\* An error; one that says the session has expired or is locked locks the window.
ReadError ==
  /\ run' = None
  /\ \/ Answered("failed") /\ UNCHANGED <<window, service>>
     \/ Answered("locked") /\ ClearWindow /\ service' = None /\ UNCHANGED form
  /\ UNCHANGED <<registryVars, disk, wire>>

-----------------------------------------------------------------------------

Init ==
  /\ RegistryInit
  /\ form \in Forms /\ view = FALSE /\ evidence = NoEvidence
  /\ saved = FALSE /\ frozen = None /\ shown = None /\ run = None
  /\ service = None
  /\ disk = [k \in Keys |-> None]
  /\ wire = {}

Serve == SaveDraft \/ BeginTest \/ EndTest \/ Freeze \/ Install

Read == ReadSaved \/ ReadTested \/ ReadFrozen \/ ReadSubmitted \/ ReadError

Next ==
  \/ \E c \in Credentials : Unlock(c)
  \/ Expire \/ Lock \/ WindowCloses
  \/ \E f \in Forms : Edit(f)
  \/ Dismiss
  \/ \E kind \in Checks \cup {"save", "freeze"} : Start(kind)
  \/ StartSubmit
  \/ Serve \/ CallFails
  \/ \E w \in wire : Deliver(w) \/ LosePost(w)
  \/ Read

Spec == Init /\ [][Next]_vars

\* The main process serves every call, the SQL driver and fetch end by their
\* timeouts, and the window reads every answer.
FairSpec ==
  /\ Spec
  /\ WF_vars(Serve) /\ WF_vars(Read)
  /\ WF_vars(\E w \in wire : LosePost(w) \/ Deliver(w))

-----------------------------------------------------------------------------
\* Properties.

Posted(w) == w \in wire' \ wire /\ ~w.late

\* Nothing is submitted for approval unless its connection and all of its
\* operations were tested in the submitting session, by testers made of the very
\* form that is submitted, however the form was edited, locked and unlocked
\* meanwhile.
SubmittedWasTested ==
  [][\A w \in wire' : Posted(w) =>
       service.draft[1] = w.digest[1] /\ service.tested = Checks]_vars

\* What is submitted is the form that was on the screen when the button was
\* pressed, under the digest of the summary that was on the screen.
SubmittedIsShown ==
  [][\A w \in wire' : Posted(w) => w.digest[1] = run.form /\ w.digest = run.digest]_vars

\* A version an administrator can see and publish is installed on the device, in
\* exactly the contents of its digest, and stays so.
RegisteredIsInstalled ==
  \A k \in Keys : versions[k] # None =>
    Ref(versions[k].digest) = k /\ LoadsAs(versions[k].digest)

\* A raw result, on the screen or in the main process, is one of the session's
\* current draft: none stays when the draft is saved anew, the window locks or
\* another session begins.
ShownIsOfDraft ==
  /\ shown # None => view /\ (service # None => shown = service.draft)
  /\ service # None => service.result \in {None, service.draft}

\* The window never stays busy.
EveryRunEnds == run # None ~> run = None

=============================================================================
