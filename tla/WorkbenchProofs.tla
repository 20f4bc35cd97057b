-------------------------- MODULE WorkbenchProofs --------------------------
(***************************************************************************)
(* Theorems of Workbench for every set of forms, tools, credentials and    *)
(* registry constants.                                                     *)
(***************************************************************************)
EXTENDS Workbench, TLAPS

\* The window's state: nothing is left without a session, and the frozen summary
\* is of its form.
WindowInv ==
  /\ ~view => evidence = NoEvidence /\ shown = None
  /\ frozen # None => frozen.digest[1] = frozen.form

\* The operation under way. While it runs no result is on the screen, and an edit
\* after its start has dropped the evidence.
RunInv ==
  run # None =>
    /\ shown = None
    /\ run.answer = "ok" => view
    /\ run.form = form \/ evidence = NoEvidence
    /\ run.step = "save" => run.kind \in Checks \cup {"save", "freeze"}
    /\ run.step \in {"test", "testing"} => run.kind \in Checks
    /\ run.step = "freeze" => run.kind = "freeze"
    /\ run.kind = "freeze" => run.done = Checks

\* The operation's draft has been saved.
DraftSaved ==
  \/ run.step \in {"test", "testing", "freeze"}
  \/ run.step = "save" /\ run.answer = "ok"

\* The operation and the session it was started in.
RunSessionInv ==
  run # None /\ service # None =>
    /\ run.step = "save" /\ run.answer = None /\ run.done # {} =>
         service.draft # None /\ service.draft[1] = run.form /\ run.done \subseteq service.tested
    /\ DraftSaved =>
         service.draft = <<run.form, run.done>> /\ run.done \subseteq service.tested
    /\ run.step = "testing" => service.tester = service.draft[1]
    /\ run.step = "testing" /\ run.answer = "ok" => run.kind \in service.tested
    /\ run.step = "submit" /\ service.frozen =>
         service.draft = run.digest /\ run.digest[1] = run.form

\* The session: a frozen draft was tested, a window's summary is of the frozen
\* draft unless the answer of a later freeze is on its way, and evidence for the
\* form on the screen is of the draft.
SessionInv ==
  service # None =>
    /\ view
    /\ service.tester # None => service.tester = service.draft[1]
    /\ service.frozen => service.draft \in Forms \X {Checks} /\ service.tested = Checks
    /\ service.frozen /\ frozen # None =>
         \/ frozen.digest = service.draft
         \/ run # None /\ run.step = "freeze" /\ run.answer = "ok"
    /\ evidence.key = form /\ evidence.done # {} =>
         /\ service.draft # None /\ service.draft[1] = form
         /\ evidence.done \subseteq service.tested

\* A submission the window waits for is the only one.
PostInv ==
  /\ \A w \in wire : ~w.late => run # None /\ run.step = "posting" /\ run.answer = None
  /\ \A w, x \in wire : ~w.late /\ ~x.late => w = x

\* What is on its way to the registry or in it is installed.
DiskInv == RegisteredIsInstalled /\ \A w \in wire : LoadsAs(w.digest)

IInv ==
  /\ TypeOK /\ WindowInv /\ RunInv /\ RunSessionInv /\ SessionInv
  /\ ShownIsOfDraft /\ PostInv /\ DiskInv

-----------------------------------------------------------------------------
LEMMA PayloadFacts ==
  /\ \A f \in Forms, d \in SUBSET Checks :
       /\ <<f, d>> \in Payloads /\ <<f, d>> # None /\ <<f, d>>[1] = f
  /\ \A p \in Payloads : p \in Digests /\ p # None /\ Ref(p) \in Keys /\ p[1] \in Forms
  /\ Forms \X {Checks} \subseteq Payloads
  /\ None \notin Runs /\ None \notin {"ok", "failed", "locked"}
  BY WorkbenchAssumption DEF Payloads, Ref

LEMMA InitIInv == Init => IInv
<1> SUFFICES ASSUME Init PROVE IInv
  OBVIOUS
<1>1. RegistryTypeOK
  BY RegistryAssumption DEF Init, RegistryInit, RegistryTypeOK
<1>2. TypeOK
  BY <1>1 DEF Init, TypeOK, NoEvidence
<1>3. QED
  BY <1>2 DEF Init, RegistryInit, IInv, WindowInv, RunInv, RunSessionInv, SessionInv, ShownIsOfDraft, PostInv, DiskInv, RegisteredIsInstalled

LEMMA RegistryFrame ==
  ASSUME RegistryTypeOK, UNCHANGED registryVars
  PROVE  RegistryTypeOK'
  BY DEF RegistryTypeOK, registryVars

\* Nothing is installed or registered, and nothing new is on its way.
LEMMA DiskFrame ==
  ASSUME DiskInv, UNCHANGED <<registryVars, disk>>,
         \A w \in wire' : \E x \in wire : x.digest = w.digest
  PROVE  DiskInv'
  BY DEF DiskInv, RegisteredIsInstalled, LoadsAs, registryVars

LEMMA UnlockKeeps == ASSUME IInv, NEW c \in Credentials, Unlock(c) PROVE IInv'
<1>1. NewSession(c) \in Sessions
  BY DEF NewSession, Sessions
<1>2. RegistryTypeOK' /\ DiskInv'
  BY RegistryFrame, DiskFrame DEF IInv, Unlock, TypeOK
<1>3. TypeOK'
  BY <1>1, <1>2 DEF IInv, Unlock, TypeOK
<1>4. WindowInv' /\ RunInv' /\ RunSessionInv' /\ PostInv'
  BY DEF IInv, Unlock, WindowInv, RunInv, RunSessionInv, PostInv
<1>5. SessionInv' /\ ShownIsOfDraft'
  BY DEF IInv, Unlock, WindowInv, NewSession, SessionInv, ShownIsOfDraft, NoEvidence
<1>6. QED
  BY <1>2, <1>3, <1>4, <1>5 DEF IInv

LEMMA ExpireKeeps == ASSUME IInv, Expire PROVE IInv'
<1>1. RegistryTypeOK' /\ DiskInv'
  BY RegistryFrame, DiskFrame DEF IInv, Expire, TypeOK
<1>2. TypeOK'
  BY <1>1 DEF IInv, Expire, TypeOK, window
<1>3. QED
  BY <1>1, <1>2 DEF IInv, Expire, window, WindowInv, RunInv, RunSessionInv, SessionInv, ShownIsOfDraft, PostInv

LEMMA LockKeeps == ASSUME IInv, Lock PROVE IInv'
<1>1. RegistryTypeOK' /\ DiskInv'
  BY RegistryFrame, DiskFrame DEF IInv, Lock, TypeOK
<1>2. TypeOK'
  BY <1>1 DEF IInv, Lock, ClearWindow, TypeOK, NoEvidence
<1>3. QED
  BY <1>1, <1>2, PayloadFacts DEF IInv, Lock, ClearWindow, WindowInv, RunInv, RunSessionInv, SessionInv, ShownIsOfDraft, PostInv

LEMMA WindowClosesKeeps == ASSUME IInv, WindowCloses PROVE IInv'
<1>1. \A w \in wire' : /\ w.late /\ w \in [digest : Payloads, late : BOOLEAN]
                       /\ \E x \in wire : x.digest = w.digest
  BY DEF IInv, TypeOK, WindowCloses
<1>2. RegistryTypeOK' /\ DiskInv'
  BY <1>1, RegistryFrame, DiskFrame DEF IInv, WindowCloses, TypeOK
<1>3. TypeOK'
  BY <1>1, <1>2 DEF IInv, WindowCloses, ClearWindow, TypeOK, NoEvidence
<1>4. QED
  BY <1>1, <1>2, <1>3 DEF IInv, WindowCloses, ClearWindow, WindowInv, RunInv, RunSessionInv, SessionInv, ShownIsOfDraft, PostInv

LEMMA EditKeeps == ASSUME IInv, NEW f \in Forms, Edit(f) PROVE IInv'
<1>1. RegistryTypeOK' /\ DiskInv'
  BY RegistryFrame, DiskFrame DEF IInv, Edit, TypeOK
<1>2. TypeOK'
  BY <1>1 DEF IInv, Edit, TypeOK, NoEvidence
<1>3. WindowInv' /\ RunInv' /\ PostInv' /\ ShownIsOfDraft'
  BY DEF IInv, Edit, WindowInv, RunInv, PostInv, ShownIsOfDraft
<1>4. RunSessionInv' /\ SessionInv'
  BY DEF IInv, Edit, RunSessionInv, DraftSaved, SessionInv, NoEvidence
<1>5. QED
  BY <1>1, <1>2, <1>3, <1>4 DEF IInv

\* The raw result goes from the window and from the session.
LEMMA CloseResultKeeps ==
  ASSUME IInv, NEW continue, CloseResult(continue), UNCHANGED <<registryVars, disk, wire>>,
         run = None \/ continue = run
  PROVE  /\ RegistryTypeOK' /\ WindowInv' /\ ShownIsOfDraft' /\ DiskInv' /\ shown' = None
         /\ form' = form
         /\ \/ service = None /\ service' = None /\ ClearWindow /\ run' = run
            \/ /\ UNCHANGED <<view, evidence, saved, frozen>> /\ run' = continue
               /\ service = None => service' = None
               /\ service # None => /\ service' \in Sessions /\ service' = [service EXCEPT !.result = None]
<1>1. RegistryTypeOK' /\ DiskInv'
  BY RegistryFrame, DiskFrame DEF IInv, TypeOK
<1>2. QED
  BY <1>1 DEF IInv, TypeOK, CloseResult, ClearWindow, WindowInv, ShownIsOfDraft, Sessions, NoEvidence

LEMMA DismissKeeps == ASSUME IInv, Dismiss PROVE IInv'
<1>1. run = None
  BY DEF IInv, Dismiss, RunInv
<1>2. CloseResult(run) /\ UNCHANGED <<registryVars, disk, wire>>
  BY DEF Dismiss
<1>3. RegistryTypeOK' /\ WindowInv' /\ ShownIsOfDraft' /\ DiskInv' /\ shown' = None /\ form' = form
      /\ run' = None
  BY <1>1, <1>2, CloseResultKeeps
<1>4. CASE service = None /\ service' = None /\ ClearWindow
  <2>1. TypeOK'
    BY <1>1, <1>2, <1>3, <1>4 DEF IInv, TypeOK, ClearWindow, NoEvidence
  <2>2. QED
    BY <1>1, <1>2, <1>3, <1>4, <2>1 DEF IInv, RunInv, RunSessionInv, SessionInv, PostInv
<1>5. CASE /\ UNCHANGED <<view, evidence, saved, frozen>>
           /\ service = None => service' = None
           /\ service # None => service' \in Sessions /\ service' = [service EXCEPT !.result = None]
  <2>1. TypeOK'
    BY <1>1, <1>2, <1>3, <1>5 DEF IInv, TypeOK
  <2>2. SessionInv'
    BY <1>1, <1>3, <1>5 DEF IInv, TypeOK, SessionInv, Sessions
  <2>3. QED
    BY <1>1, <1>2, <1>3, <2>1, <2>2 DEF IInv, RunInv, RunSessionInv, PostInv
<1>6. QED
  BY <1>1, <1>2, <1>4, <1>5, CloseResultKeeps

\* An operation starts on the form and the evidence on the screen.
LEMMA BeginRunKeeps ==
  ASSUME IInv, NEW r \in Runs, view, run = None, CloseResult(r), UNCHANGED <<registryVars, disk, wire>>,
         r.form = form, r.done = Done, r.answer = None,
         \/ r.step = "save" /\ r.kind \in Checks \cup {"save", "freeze"}
         \/ r.step = "submit" /\ r.kind = "submit" /\ frozen # None /\ frozen.form = form /\ r.digest = frozen.digest,
         r.kind = "freeze" => r.done = Checks
  PROVE  IInv'
<1>1. RegistryTypeOK' /\ WindowInv' /\ ShownIsOfDraft' /\ DiskInv' /\ shown' = None /\ form' = form
  BY CloseResultKeeps
<1>2. CASE service = None /\ service' = None /\ ClearWindow /\ run' = None
  <2>1. TypeOK'
    BY <1>1, <1>2 DEF IInv, TypeOK, ClearWindow, NoEvidence
  <2>2. QED
    BY <1>1, <1>2, <2>1 DEF IInv, RunInv, RunSessionInv, SessionInv, PostInv
<1>3. CASE /\ UNCHANGED <<view, evidence, saved, frozen>> /\ run' = r
           /\ service = None => service' = None
           /\ service # None => service' \in Sessions /\ service' = [service EXCEPT !.result = None]
  <2>1. TypeOK'
    BY <1>1, <1>3 DEF IInv, TypeOK
  <2>2. /\ service # None => SessionInv
        /\ run = None
    BY DEF IInv
  <2>3. SessionInv'
    BY <1>1, <1>3 DEF IInv, TypeOK, SessionInv, Sessions
  <2>4. RunInv' /\ PostInv'
    BY <1>1, <1>3 DEF IInv, RunInv, PostInv
  <2>5. RunSessionInv'
    BY <1>1, <1>3, PayloadFacts DEF IInv, TypeOK, SessionInv, WindowInv, RunSessionInv, DraftSaved, Sessions, Done
  <2>6. QED
    BY <1>1, <2>1, <2>3, <2>4, <2>5 DEF IInv
<1>4. QED
  BY <1>2, <1>3, CloseResultKeeps

LEMMA StartKeeps ==
  ASSUME IInv, NEW kind \in Checks \cup {"save", "freeze"}, Start(kind)
  PROVE  IInv'
<1>1. Done \in SUBSET Checks
  BY DEF IInv, TypeOK, Done
<1>2. NewRun(kind, "save", None) \in Runs
  BY <1>1 DEF IInv, TypeOK, NewRun, Runs
<1>3. QED
  BY <1>2, BeginRunKeeps DEF Start, NewRun, FreezeReady

LEMMA StartSubmitKeeps == ASSUME IInv, StartSubmit PROVE IInv'
<1>1. Done \in SUBSET Checks /\ frozen # None /\ frozen.form = form /\ frozen.digest \in Payloads
  BY PayloadFacts DEF IInv, TypeOK, Done, StartSubmit, SubmitReady
<1>2. NewRun("submit", "submit", frozen.digest) \in Runs
  BY <1>1 DEF IInv, TypeOK, NewRun, Runs
<1>3. QED
  BY <1>1, <1>2, BeginRunKeeps DEF StartSubmit, NewRun

-----------------------------------------------------------------------------
\* The service.

LEMMA CalledFacts ==
  ASSUME IInv, NEW step, Called(step)
  PROVE  /\ run # None /\ run \in Runs /\ run.step = step /\ run.answer = None /\ run.answer # "ok"
         /\ run.form \in Forms /\ run.done \in SUBSET Checks
         /\ shown = None
         /\ step # "posting" => \A w \in wire : w.late
<1>1. run # None /\ run \in Runs /\ run.step = step /\ run.answer = None
  BY DEF IInv, TypeOK, Called
<1>2. run.form \in Forms /\ run.done \in SUBSET Checks
  BY <1>1 DEF Runs
<1>3. run.answer # "ok"
  BY <1>1, PayloadFacts
<1>4. shown = None
  BY <1>1 DEF IInv, RunInv
<1>5. step # "posting" => \A w \in wire : w.late
  BY <1>1 DEF IInv, TypeOK, PostInv
<1>6. QED
  BY <1>1, <1>2, <1>3, <1>4, <1>5

\* The session is gone.
LEMMA NoSessionKeeps ==
  ASSUME IInv, NEW step, Called(step), step # "posting", NoSession, UNCHANGED <<registryVars, window>>
  PROVE  IInv'
<1>1. RegistryTypeOK' /\ DiskInv'
  BY RegistryFrame, DiskFrame DEF IInv, NoSession, TypeOK
<1>2. /\ run # None /\ run' \in Runs /\ service = None /\ service' = None /\ shown = None
      /\ run'.form = run.form /\ run'.done = run.done /\ run'.step = run.step
      /\ run'.kind = run.kind /\ run'.answer = "locked"
  BY CalledFacts DEF NoSession, Answer, Runs
<1>3. TypeOK'
  BY <1>1, <1>2 DEF IInv, TypeOK, NoSession, window
<1>4. RunInv'
  BY <1>2 DEF IInv, RunInv, window
<1>5. PostInv'
  BY <1>2, CalledFacts DEF IInv, PostInv, NoSession
<1>6. QED
  BY <1>1, <1>2, <1>3, <1>4, <1>5 DEF IInv, window, WindowInv, RunSessionInv, SessionInv, ShownIsOfDraft

LEMMA SaveDraftKeeps == ASSUME IInv, SaveDraft PROVE IInv'
<1>1. CASE NoSession
  BY <1>1, NoSessionKeeps DEF SaveDraft
<1>2. CASE /\ service # None
           /\ service' = [service EXCEPT !.draft = <<run.form, run.done>>, !.frozen = FALSE,
                                         !.tester = None, !.result = None, !.tested = Tested]
           /\ Answer("ok")
           /\ UNCHANGED <<disk, wire>>
  <2>1. /\ run \in Runs /\ run.step = "save" /\ run.answer = None /\ run.answer # "ok" /\ shown = None
        /\ run.form \in Forms /\ run.done \in SUBSET Checks /\ \A w \in wire : w.late
        /\ UNCHANGED <<registryVars, window>> /\ service \in Sessions /\ run # None
    BY <1>2, CalledFacts DEF SaveDraft, IInv, TypeOK, Called
  <2>2. /\ <<run.form, run.done>> \in Payloads /\ <<run.form, run.done>> # None
        /\ <<run.form, run.done>>[1] = run.form
    BY <2>1, PayloadFacts
  <2>3. Tested \in SUBSET Checks
    BY <2>1 DEF Tested, Sessions
  <2>4. /\ service' \in Sessions /\ service'.draft = <<run.form, run.done>> /\ service'.frozen = FALSE
        /\ service'.tester = None /\ service'.result = None /\ service'.tested = Tested
    BY <1>2, <2>1, <2>2, <2>3 DEF Sessions
  <2>5. /\ run' \in Runs /\ run'.form = run.form /\ run'.done = run.done /\ run'.step = "save"
        /\ run'.kind = run.kind /\ run'.answer = "ok" /\ run'.digest = run.digest
    BY <1>2, <2>1 DEF Answer, Runs
  <2>6. RegistryTypeOK' /\ DiskInv'
    BY <1>2, <2>1, RegistryFrame, DiskFrame DEF IInv, TypeOK
  <2>7. TypeOK'
    BY <1>2, <2>1, <2>4, <2>5, <2>6 DEF IInv, TypeOK, window
  <2>8. WindowInv' /\ RunInv' /\ PostInv' /\ ShownIsOfDraft'
    BY <1>2, <2>1, <2>4, <2>5 DEF IInv, WindowInv, RunInv, PostInv, ShownIsOfDraft, SessionInv, window
  <2>9. run.done # {} => Tested = service.tested /\ run.done \subseteq service.tested
    BY <1>2, <2>1 DEF IInv, RunSessionInv, Tested
  <2>10. RunSessionInv'
    BY <2>1, <2>4, <2>5, <2>9 DEF RunSessionInv, DraftSaved
  <2>11. evidence.key = form /\ evidence.done # {} =>
           run.form = form /\ Tested = service.tested /\ evidence.done \subseteq service.tested
    BY <1>2, <2>1 DEF IInv, RunInv, SessionInv, Tested, NoEvidence
  <2>12. SessionInv'
    BY <1>2, <2>1, <2>2, <2>4, <2>11 DEF IInv, SessionInv, window
  <2>13. QED
    BY <2>6, <2>7, <2>8, <2>10, <2>12 DEF IInv
<1>3. QED
  BY <1>1, <1>2 DEF SaveDraft

LEMMA BeginTestKeeps == ASSUME IInv, BeginTest PROVE IInv'
<1>1. CASE NoSession
  BY <1>1, NoSessionKeeps DEF BeginTest
<1>2. CASE /\ service # None
           /\ service' = [service EXCEPT !.tester = IF @ = None THEN service.draft[1] ELSE @]
           /\ run' = [run EXCEPT !.step = "testing"]
           /\ UNCHANGED <<disk, wire>>
  <2>1. /\ run \in Runs /\ run.step = "test" /\ run.answer = None /\ run.answer # "ok" /\ shown = None
        /\ run.form \in Forms /\ run.done \in SUBSET Checks /\ \A w \in wire : w.late
        /\ UNCHANGED <<registryVars, window>> /\ service \in Sessions /\ run # None
    BY <1>2, CalledFacts DEF BeginTest, IInv, TypeOK, Called
  <2>2. service.draft = <<run.form, run.done>> /\ run.done \subseteq service.tested /\ service.draft[1] = run.form
    BY <1>2, <2>1 DEF IInv, RunSessionInv, DraftSaved
  <2>3. /\ service' \in Sessions /\ service'.draft = service.draft /\ service'.frozen = service.frozen
        /\ service'.tester = service.draft[1] /\ service'.result = service.result /\ service'.tested = service.tested
    BY <1>2, <2>1, <2>2 DEF Sessions, IInv, SessionInv
  <2>4. /\ run' \in Runs /\ run'.form = run.form /\ run'.done = run.done /\ run'.step = "testing"
        /\ run'.kind = run.kind /\ run'.answer = None /\ run'.digest = run.digest
    BY <1>2, <2>1 DEF Runs
  <2>5. RegistryTypeOK' /\ DiskInv'
    BY <1>2, <2>1, RegistryFrame, DiskFrame DEF IInv, TypeOK
  <2>6. TypeOK'
    BY <1>2, <2>1, <2>3, <2>4, <2>5 DEF IInv, TypeOK, window
  <2>7. WindowInv' /\ RunInv' /\ PostInv' /\ ShownIsOfDraft'
    BY <1>2, <2>1, <2>3, <2>4 DEF IInv, WindowInv, RunInv, PostInv, ShownIsOfDraft, window
  <2>8. RunSessionInv'
    BY <2>1, <2>2, <2>3, <2>4 DEF RunSessionInv, DraftSaved
  <2>9. SessionInv'
    BY <1>2, <2>1, <2>3, <2>4 DEF IInv, SessionInv, window
  <2>10. QED
    BY <2>5, <2>6, <2>7, <2>8, <2>9 DEF IInv
<1>3. QED
  BY <1>1, <1>2 DEF BeginTest

LEMMA EndTestKeeps == ASSUME IInv, EndTest PROVE IInv'
<1>1. CASE NoSession
  BY <1>1, NoSessionKeeps DEF EndTest
<1>2. CASE /\ service # None
           /\ service' = [service EXCEPT
                !.result = IF run.kind \in Tools THEN service.draft ELSE @, !.tested = Passed]
           /\ Answer("ok")
           /\ UNCHANGED <<disk, wire>>
  <2>1. /\ run \in Runs /\ run.step = "testing" /\ run.answer = None /\ run.answer # "ok" /\ shown = None
        /\ run.form \in Forms /\ run.done \in SUBSET Checks /\ \A w \in wire : w.late
        /\ UNCHANGED <<registryVars, window>> /\ service \in Sessions /\ run # None
    BY <1>2, CalledFacts DEF EndTest, IInv, TypeOK, Called
  <2>2. /\ service.draft = <<run.form, run.done>> /\ run.done \subseteq service.tested /\ service.draft[1] = run.form
        /\ service.tester = service.draft[1] /\ run.kind \in Checks
    BY <1>2, <2>1 DEF IInv, RunSessionInv, RunInv, DraftSaved
  <2>3. Passed = service.tested \cup {run.kind} /\ Passed \in SUBSET Checks
    BY <2>1, <2>2 DEF Passed, Sessions
  <2>4. /\ service' \in Sessions /\ service'.draft = service.draft /\ service'.frozen = service.frozen
        /\ service'.tester = service.tester /\ service'.result \in {service.result, service.draft}
        /\ service'.tested = Passed
    BY <1>2, <2>1, <2>3 DEF Sessions
  <2>5. /\ run' \in Runs /\ run'.form = run.form /\ run'.done = run.done /\ run'.step = "testing"
        /\ run'.kind = run.kind /\ run'.answer = "ok" /\ run'.digest = run.digest
    BY <1>2, <2>1 DEF Answer, Runs
  <2>6. RegistryTypeOK' /\ DiskInv'
    BY <1>2, <2>1, RegistryFrame, DiskFrame DEF IInv, TypeOK
  <2>7. TypeOK'
    BY <1>2, <2>1, <2>4, <2>5, <2>6 DEF IInv, TypeOK, window
  <2>8. WindowInv' /\ RunInv' /\ PostInv' /\ ShownIsOfDraft'
    BY <1>2, <2>1, <2>4, <2>5 DEF IInv, WindowInv, RunInv, PostInv, ShownIsOfDraft, SessionInv, window
  <2>9. RunSessionInv'
    BY <2>1, <2>2, <2>3, <2>4, <2>5 DEF RunSessionInv, DraftSaved
  <2>10. SessionInv'
    BY <1>2, <2>1, <2>3, <2>4, <2>5 DEF IInv, SessionInv, window
  <2>11. QED
    BY <2>6, <2>7, <2>8, <2>9, <2>10 DEF IInv
<1>3. QED
  BY <1>1, <1>2 DEF EndTest

LEMMA FreezeKeeps == ASSUME IInv, Freeze PROVE IInv'
<1>1. CASE NoSession
  BY <1>1, NoSessionKeeps DEF Freeze
<1>2. CASE /\ service # None
           /\ service' = [service EXCEPT !.frozen = TRUE]
           /\ Answer("ok")
           /\ UNCHANGED <<disk, wire>>
  <2>1. /\ run \in Runs /\ run.step = "freeze" /\ run.answer = None /\ run.answer # "ok" /\ shown = None
        /\ run.form \in Forms /\ run.done \in SUBSET Checks /\ \A w \in wire : w.late
        /\ UNCHANGED <<registryVars, window>> /\ service \in Sessions /\ run # None
    BY <1>2, CalledFacts DEF Freeze, IInv, TypeOK, Called
  <2>2. /\ service.draft = <<run.form, run.done>> /\ run.done = Checks /\ service.tested = Checks
        /\ service.draft \in Forms \X {Checks}
    <3>1. run.done = Checks
      BY <2>1 DEF IInv, RunInv
    <3>2. service.draft = <<run.form, run.done>> /\ run.done \subseteq service.tested
      BY <1>2, <2>1 DEF IInv, RunSessionInv, DraftSaved
    <3>3. service.tested \subseteq Checks
      BY <2>1 DEF Sessions
    <3>4. service.tested = Checks
      BY <3>1, <3>2, <3>3
    <3>5. <<run.form, Checks>> \in Forms \X {Checks}
      BY <2>1
    <3>6. QED
      BY <3>1, <3>2, <3>4, <3>5
  <2>3. /\ service' \in Sessions /\ service'.draft = service.draft /\ service'.frozen = TRUE
        /\ service'.tester = service.tester /\ service'.result = service.result
        /\ service'.tested = service.tested
    BY <1>2, <2>1 DEF Sessions
  <2>4. /\ run' \in Runs /\ run'.form = run.form /\ run'.done = run.done /\ run'.step = "freeze"
        /\ run'.kind = run.kind /\ run'.answer = "ok" /\ run'.digest = run.digest /\ run' # None
    BY <1>2, <2>1, PayloadFacts DEF Answer, Runs
  <2>5. RegistryTypeOK' /\ DiskInv'
    BY <1>2, <2>1, RegistryFrame, DiskFrame DEF IInv, TypeOK
  <2>6. TypeOK'
    BY <1>2, <2>1, <2>3, <2>4, <2>5 DEF IInv, TypeOK, window
  <2>7. WindowInv' /\ RunInv' /\ PostInv' /\ ShownIsOfDraft'
    BY <1>2, <2>1, <2>3, <2>4 DEF IInv, WindowInv, RunInv, PostInv, ShownIsOfDraft, SessionInv, window
  <2>8. RunSessionInv'
    BY <2>1, <2>2, <2>3, <2>4 DEF RunSessionInv, DraftSaved
  <2>9. SessionInv'
    BY <1>2, <2>1, <2>2, <2>3, <2>4 DEF IInv, SessionInv, window
  <2>10. QED
    BY <2>5, <2>6, <2>7, <2>8, <2>9 DEF IInv
<1>3. QED
  BY <1>1, <1>2 DEF Freeze

\* A draft that is frozen is a payload.
LEMMA FrozenDraft ==
  ASSUME IInv, service # None, service.frozen
  PROVE  service.draft \in Payloads /\ Ref(service.draft) \in Keys
  BY PayloadFacts DEF IInv, SessionInv

\* Installing a payload disturbs no package that is registered or on its way.
LEMMA InstalledKeepsDisk ==
  ASSUME IInv, service # None, service.frozen, Installed(service.draft) # None,
         disk' = [disk EXCEPT ![Ref(service.draft)] = Installed(service.draft)],
         UNCHANGED <<registryVars, service>>
  PROVE  /\ disk' \in [Keys -> Packages \cup {None}]
         /\ LoadsAs(service.draft)'
         /\ \A p \in Payloads : LoadsAs(p) => LoadsAs(p)'
         /\ RegisteredIsInstalled'
<1> DEFINE p == service.draft
           package == Installed(p)
<1>1. p \in Payloads /\ Ref(p) \in Keys /\ service \in Sessions /\ disk \in [Keys -> Packages \cup {None}]
  BY FrozenDraft DEF IInv, TypeOK
<1>2. package \in Packages /\ package.digest = p /\ (disk[Ref(p)] # None => package = disk[Ref(p)])
  BY <1>1 DEF Installed, LoadsAs, Packages, Sessions
<1>3. disk' \in [Keys -> Packages \cup {None}] /\ disk'[Ref(p)] = package
  BY <1>1, <1>2
<1>4. \A k \in Keys : disk[k] # None => disk'[k] = disk[k]
  BY <1>1, <1>2
<1>5. \A k \in Keys : disk[k] # None => disk'[k] # None /\ disk'[k] = disk[k]
  BY <1>4
<1>6. \A q \in Payloads : LoadsAs(q) => LoadsAs(q)'
  BY <1>5, PayloadFacts DEF LoadsAs, Ref
<1>7. LoadsAs(p)'
  <2>1. disk'[Ref(p)] # None /\ disk'[Ref(p)].digest = p
    BY <1>2, <1>3
  <2>2. p' = p
    OBVIOUS
  <2>3. QED
    BY <2>1, <2>2 DEF LoadsAs, Ref
<1>8. RegisteredIsInstalled'
  <2> SUFFICES ASSUME NEW k \in Keys, versions[k] # None
               PROVE  Ref(versions[k].digest) = k /\ LoadsAs(versions[k].digest)'
    BY DEF RegisteredIsInstalled, registryVars, Ref, LoadsAs
  <2>1. Ref(versions[k].digest) = k /\ LoadsAs(versions[k].digest)
    BY DEF IInv, DiskInv, RegisteredIsInstalled
  <2>2. disk[k] # None /\ disk[k].digest = versions[k].digest
    BY <2>1 DEF LoadsAs
  <2>3. disk'[k] # None /\ disk'[k].digest = versions[k].digest
    BY <1>5, <2>2
  <2>4. QED
    BY <2>1, <2>3 DEF LoadsAs, Ref, registryVars
<1>9. QED
  BY <1>2, <1>3, <1>6, <1>7, <1>8

LEMMA InstallKeeps == ASSUME IInv, Install PROVE IInv'
<1> DEFINE p == service.draft
           package == IF service.frozen THEN Installed(p) ELSE None
<1>1. CASE NoSession
  BY <1>1, NoSessionKeeps DEF Install
<1>2. CASE service # None /\ service' = service
  <2>1. /\ run # None /\ run \in Runs /\ run.step = "submit" /\ run.answer = None /\ run.answer # "ok"
        /\ shown = None /\ \A w \in wire : w.late
        /\ UNCHANGED <<registryVars, window>>
    BY CalledFacts DEF Install
  <2>2. ASSUME run' \in Runs, run'.form = run.form, run'.done = run.done, run'.kind = run.kind,
               run'.answer # "ok", ~DraftSaved', run'.step # "testing", run'.answer # None,
               run'.step = "submit",
               run'.digest = run.digest, wire' = wire, RegistryTypeOK', DiskInv',
               disk' \in [Keys -> Packages \cup {None}]
        PROVE  IInv'
    <3>1. TypeOK'
      BY <1>2, <2>1, <2>2 DEF IInv, TypeOK, window
    <3>2. WindowInv' /\ RunInv' /\ PostInv' /\ ShownIsOfDraft'
      BY <1>2, <2>1, <2>2 DEF IInv, WindowInv, RunInv, PostInv, ShownIsOfDraft, window
    <3>3. RunSessionInv'
      BY <1>2, <2>1, <2>2 DEF IInv, RunSessionInv
    <3>4. SessionInv'
      BY <1>2, <2>1, <2>2 DEF IInv, SessionInv, window
    <3>5. QED
      BY <2>2, <3>1, <3>2, <3>3, <3>4 DEF IInv
  <2>3. ASSUME Answer("failed")
        PROVE  /\ run' \in Runs /\ run'.form = run.form /\ run'.done = run.done /\ run'.kind = run.kind
               /\ run'.answer # "ok" /\ ~DraftSaved' /\ run'.step = "submit" /\ run'.step # "testing"
               /\ run'.answer # None /\ run'.digest = run.digest
    BY <2>1, <2>3, PayloadFacts DEF Answer, Runs, DraftSaved
  <2>4. RegistryTypeOK'
    BY <2>1, RegistryFrame DEF IInv, TypeOK
  <2>5. CASE package = None
    <3>1. disk' = disk /\ wire' = wire /\ Answer("failed")
      BY <1>2, <2>5 DEF Install, NoSession
    <3>2. DiskInv' /\ disk' \in [Keys -> Packages \cup {None}]
      BY <2>1, <3>1, DiskFrame DEF IInv, TypeOK
    <3>3. QED
      BY <2>2, <2>3, <2>4, <3>1, <3>2
  <2>6. CASE package # None
    <3>1. service.frozen /\ package = Installed(p) /\ disk' = [disk EXCEPT ![Ref(p)] = package]
      BY <1>2, <2>6 DEF Install, NoSession
    <3>2. /\ disk' \in [Keys -> Packages \cup {None}] /\ LoadsAs(p)' /\ RegisteredIsInstalled'
          /\ \A q \in Payloads : LoadsAs(q) => LoadsAs(q)'
      BY <1>2, <2>1, <2>6, <3>1, InstalledKeepsDisk
    <3>3. \A w \in wire : LoadsAs(w.digest)'
      BY <3>2 DEF IInv, TypeOK, DiskInv
    <3>4. CASE Answer("failed") /\ UNCHANGED wire
      <4>1. DiskInv'
        BY <3>2, <3>3, <3>4 DEF DiskInv, LoadsAs, Ref
      <4>2. QED
        BY <2>2, <2>3, <2>4, <3>2, <3>4, <4>1
    <3>5. CASE /\ wire' = wire \cup {[digest |-> p, late |-> FALSE]}
               /\ run' = [run EXCEPT !.step = "posting"]
      <4>1. /\ run' # None /\ run' \in Runs /\ run'.form = run.form /\ run'.done = run.done
            /\ run'.kind = run.kind /\ run'.answer = None /\ run'.step = "posting"
        BY <2>1, <3>5, PayloadFacts DEF Runs
      <4>2. p \in Payloads
        BY <1>2, <3>1, FrozenDraft
      <4>3. wire' \subseteq [digest : Payloads, late : BOOLEAN]
        <5>1. [digest |-> p, late |-> FALSE] \in [digest : Payloads, late : BOOLEAN]
          BY <4>2
        <5>2. wire \subseteq [digest : Payloads, late : BOOLEAN]
          BY DEF IInv, TypeOK
        <5>3. QED
          BY <3>5, <5>1, <5>2
      <4>4. TypeOK'
        <5>1. disk' \in [Keys -> Packages \cup {None}]
          BY <3>2
        <5>2. RegistryTypeOK' /\ run' \in Runs /\ service' = service /\ UNCHANGED window
          BY <1>2, <2>1, <2>4, <4>1
        <5>3. QED
          BY <4>3, <5>1, <5>2 DEF IInv, TypeOK, window
      <4>5. DiskInv'
        <5>1. \A w \in wire' : w \in wire \/ w.digest = p'
          BY <1>2, <3>5
        <5>2. QED
          BY <3>2, <3>3, <5>1 DEF DiskInv, LoadsAs, Ref
      <4>6. PostInv'
        BY <2>1, <3>5, <4>1 DEF PostInv
      <4>7. WindowInv' /\ RunInv' /\ ShownIsOfDraft'
        BY <1>2, <2>1, <4>1 DEF IInv, WindowInv, RunInv, ShownIsOfDraft, window
      <4>8. RunSessionInv' /\ SessionInv'
        BY <1>2, <2>1, <4>1 DEF IInv, RunSessionInv, DraftSaved, SessionInv, window
      <4>9. QED
        BY <4>4, <4>5, <4>6, <4>7, <4>8 DEF IInv
    <3>6. QED
      BY <1>2, <2>6, <3>4, <3>5 DEF Install, NoSession
  <2>7. QED
    BY <2>5, <2>6
<1>3. QED
  BY <1>1, <1>2 DEF Install

LEMMA CallFailsKeeps == ASSUME IInv, CallFails PROVE IInv'
<1>1. PICK step \in {"save", "testing"} : Called(step)
  BY DEF CallFails
<1>2. /\ run # None /\ run \in Runs /\ run.step = step /\ run.answer = None /\ run.answer # "ok"
      /\ shown = None /\ \A w \in wire : w.late
      /\ UNCHANGED <<registryVars, window, service, disk, wire>>
  BY <1>1, CalledFacts DEF CallFails
<1>3. /\ run' \in Runs /\ run'.form = run.form /\ run'.done = run.done /\ run'.step = step
      /\ run'.kind = run.kind /\ run'.answer = "failed" /\ run'.answer # None /\ run'.digest = run.digest
  BY <1>2, PayloadFacts DEF CallFails, Answer, Runs
<1>4. RegistryTypeOK' /\ DiskInv'
  BY <1>2, RegistryFrame, DiskFrame DEF IInv, TypeOK
<1>5. TypeOK'
  BY <1>2, <1>3, <1>4 DEF IInv, TypeOK, window
<1>6. WindowInv' /\ RunInv' /\ PostInv' /\ ShownIsOfDraft'
  BY <1>2, <1>3 DEF IInv, WindowInv, RunInv, PostInv, ShownIsOfDraft, window
<1>7. RunSessionInv' /\ SessionInv'
  BY <1>2, <1>3 DEF IInv, RunSessionInv, DraftSaved, SessionInv, window
<1>8. QED
  BY <1>4, <1>5, <1>6, <1>7 DEF IInv

\* A submission leaves the wire, and its answer reaches the service that waits.
LEMMA RespondKeeps ==
  ASSUME IInv, NEW w \in wire, NEW taken \in BOOLEAN, Respond(w, taken), wire' = wire \ {w},
         UNCHANGED <<window, service, disk>>, RegistryTypeOK', DiskInv'
  PROVE  IInv'
<1>1. w \in [digest : Payloads, late : BOOLEAN]
  BY DEF IInv, TypeOK
<1>2. CASE w.late
  <2>1. run' = run
    BY <1>2 DEF Respond
  <2>2. TypeOK'
    BY <2>1 DEF IInv, TypeOK, window
  <2>3. PostInv'
    BY <2>1 DEF IInv, PostInv
  <2>4. QED
    BY <2>1, <2>2, <2>3 DEF IInv, window, WindowInv, RunInv, RunSessionInv, DraftSaved, SessionInv, ShownIsOfDraft
<1>3. CASE ~w.late
  <2>1. run # None /\ run.step = "posting" /\ run.answer = None /\ run \in Runs
    BY <1>3 DEF IInv, TypeOK, PostInv
  <2>2. /\ run' \in Runs /\ run'.form = run.form /\ run'.done = run.done /\ run'.step = "posting"
        /\ run'.kind = run.kind /\ run'.answer # None
        /\ run'.answer = "ok" => service # None
    BY <1>3, <2>1, PayloadFacts DEF Respond, Answer, Runs
  <2>3. shown = None /\ (service # None => view)
    BY <2>1 DEF IInv, RunInv, SessionInv
  <2>4. TypeOK'
    BY <2>2 DEF IInv, TypeOK, window
  <2>5. PostInv'
    BY <1>3 DEF IInv, PostInv
  <2>6. WindowInv' /\ RunInv' /\ ShownIsOfDraft'
    BY <2>1, <2>2, <2>3 DEF IInv, WindowInv, RunInv, ShownIsOfDraft, window
  <2>7. RunSessionInv' /\ SessionInv'
    BY <2>1, <2>2 DEF IInv, RunSessionInv, DraftSaved, SessionInv, window
  <2>8. QED
    BY <2>4, <2>5, <2>6, <2>7 DEF IInv
<1>4. QED
  BY <1>2, <1>3

LEMMA LosePostKeeps == ASSUME IInv, NEW w \in wire, LosePost(w) PROVE IInv'
<1>1. RegistryTypeOK'
  BY RegistryFrame DEF IInv, TypeOK, LosePost
<1>2. DiskInv'
  BY DiskFrame DEF IInv, LosePost
<1>3. QED
  BY <1>1, <1>2, RespondKeeps DEF LosePost

\* The registry takes a payload that is installed.
LEMMA SubmitKeeps ==
  ASSUME IInv, NEW w \in wire, Submit(Submission(w.digest)), wire' = wire \ {w}, disk' = disk
  PROVE  RegistryTypeOK' /\ DiskInv'
<1> DEFINE p == w.digest
           row == [digest |-> p, tools |-> ToolNames, status |-> "pending_admin_approval"]
           e == Event(Ref(p), p, "", "pending_admin_approval")
<1>1. p \in Payloads /\ p \in Digests /\ Ref(p) \in Keys /\ LoadsAs(p)
  BY PayloadFacts DEF IInv, TypeOK, DiskInv
<1>2. /\ versions' = [versions EXCEPT ![Ref(p)] = row] /\ events' = Append(events, e)
      /\ admin' = admin /\ Len(events) < MaxEvents
  BY DEF Submit, Submission
<1>3. row \in VersionRows /\ e \in LifecycleEvents
  BY <1>1 DEF VersionRows, LifecycleEvents, Event, Statuses
<1>4. RegistryTypeOK
  BY DEF IInv, TypeOK
<1>5. versions' \in [Keys -> VersionRows \cup {None}]
  BY <1>1, <1>2, <1>3, <1>4 DEF RegistryTypeOK
<1>6. events' \in Seq(LifecycleEvents) /\ Len(events') <= MaxEvents
  <2>1. events \in Seq(LifecycleEvents) /\ Len(events) \in Nat /\ MaxEvents \in Nat
    <3> HIDE DEF row, e
    <3>1. QED
      BY <1>4, RegistryAssumption DEF RegistryTypeOK
  <2>2. events' \in Seq(LifecycleEvents) /\ Len(events') = Len(events) + 1
    <3> HIDE DEF e
    <3>1. QED
      BY <1>2, <1>3, <2>1
  <2>3. Len(events) < MaxEvents
    BY <1>2
  <2>4. QED
    BY <2>1, <2>2, <2>3
<1>7. RegistryTypeOK'
  BY <1>2, <1>4, <1>5, <1>6 DEF RegistryTypeOK
<1>8. RegisteredIsInstalled'
  <2> SUFFICES ASSUME NEW k \in Keys, versions'[k] # None
               PROVE  /\ Ref(versions'[k].digest) = k
                      /\ disk[Ref(versions'[k].digest)] # None
                      /\ disk[Ref(versions'[k].digest)].digest = versions'[k].digest
    BY DEF RegisteredIsInstalled, Ref, LoadsAs
  <2>1. CASE k = Ref(p)
    BY <1>1, <1>2, <1>4, <2>1 DEF RegistryTypeOK, LoadsAs
  <2>2. CASE k # Ref(p)
    <3>1. versions'[k] = versions[k]
      BY <1>2, <1>4, <2>2 DEF RegistryTypeOK
    <3>2. QED
      BY <3>1 DEF IInv, DiskInv, RegisteredIsInstalled, LoadsAs
  <2>3. QED
    BY <2>1, <2>2
<1>9. QED
  BY <1>7, <1>8 DEF IInv, DiskInv, LoadsAs, Ref

LEMMA DeliverKeeps == ASSUME IInv, NEW w \in wire, Deliver(w) PROVE IInv'
<1>1. CASE Submit(Submission(w.digest)) /\ \E heard \in BOOLEAN : Respond(w, heard)
  <2>1. PICK heard \in BOOLEAN : Respond(w, heard)
    BY <1>1
  <2>2. RegistryTypeOK' /\ DiskInv'
    BY <1>1, SubmitKeeps DEF Deliver
  <2>3. QED
    BY <2>1, <2>2, RespondKeeps DEF Deliver
<1>2. CASE Respond(w, FALSE) /\ UNCHANGED registryVars
  <2>1. RegistryTypeOK'
    BY <1>2, RegistryFrame DEF IInv, TypeOK
  <2>2. DiskInv'
    BY <1>2, DiskFrame DEF IInv, Deliver
  <2>3. QED
    BY <1>2, <2>1, <2>2, RespondKeeps DEF Deliver
<1>3. QED
  BY <1>1, <1>2 DEF Deliver

-----------------------------------------------------------------------------
\* The window reads the answer.

\* What every answer leaves alone.
LEMMA AnsweredFacts ==
  ASSUME IInv, NEW a, Answered(a), UNCHANGED <<registryVars, disk, wire>>
  PROVE  /\ run # None /\ run \in Runs /\ run.answer = a /\ shown = None
         /\ run.form \in Forms /\ run.done \in SUBSET Checks
         /\ (a # None => \A w \in wire' : w.late)
         /\ RegistryTypeOK' /\ DiskInv'
<1>1. run # None /\ run \in Runs /\ run.answer = a
  BY DEF IInv, TypeOK, Answered
<1>2. run.form \in Forms /\ run.done \in SUBSET Checks
  BY <1>1 DEF Runs
<1>3. shown = None
  BY <1>1 DEF IInv, RunInv
<1>4. a # None => \A w \in wire' : w.late
  BY <1>1 DEF IInv, PostInv
<1>5. RegistryTypeOK' /\ DiskInv'
  BY RegistryFrame, DiskFrame DEF IInv, TypeOK
<1>6. QED
  BY <1>1, <1>2, <1>3, <1>4, <1>5

LEMMA ReadSavedKeeps == ASSUME IInv, ReadSaved PROVE IInv'
<1>1. /\ run # None /\ run \in Runs /\ run.answer = "ok" /\ run.step = "save" /\ shown = None
      /\ RegistryTypeOK' /\ DiskInv' /\ \A w \in wire' : w.late
      /\ UNCHANGED <<form, view, evidence, frozen, shown, service, disk, wire>> /\ saved' = TRUE
  BY AnsweredFacts, PayloadFacts DEF ReadSaved
<1>2. view /\ run.kind \in Checks \cup {"save", "freeze"}
  BY <1>1 DEF IInv, RunInv
<1>3. CASE run.kind = "save" /\ run' = None
  <2>1. TypeOK'
    BY <1>1, <1>3 DEF IInv, TypeOK
  <2>2. SessionInv'
    BY <1>1, <1>3 DEF IInv, SessionInv
  <2>3. QED
    BY <1>1, <1>3, <2>1, <2>2 DEF IInv, WindowInv, RunInv, RunSessionInv, PostInv, ShownIsOfDraft
<1>4. CASE /\ run.kind # "save"
           /\ run' = [run EXCEPT !.step = IF run.kind = "freeze" THEN "freeze" ELSE "test", !.answer = None]
  <2>1. /\ run' \in Runs /\ run'.form = run.form /\ run'.done = run.done /\ run'.kind = run.kind
        /\ run'.step = (IF run.kind = "freeze" THEN "freeze" ELSE "test")
        /\ run'.answer = None /\ run'.answer # "ok"
    BY <1>1, <1>4, PayloadFacts DEF Runs
  <2>2. TypeOK'
    BY <1>1, <2>1 DEF IInv, TypeOK
  <2>3. WindowInv' /\ RunInv' /\ PostInv' /\ ShownIsOfDraft'
    BY <1>1, <1>2, <1>4, <2>1 DEF IInv, WindowInv, RunInv, PostInv, ShownIsOfDraft
  <2>4. RunSessionInv'
    BY <1>1, <2>1 DEF IInv, RunSessionInv, DraftSaved
  <2>5. SessionInv'
    BY <1>1, <2>1 DEF IInv, SessionInv
  <2>6. QED
    BY <1>1, <2>2, <2>3, <2>4, <2>5 DEF IInv
<1>5. QED
  BY <1>3, <1>4 DEF ReadSaved

LEMMA ReadTestedKeeps == ASSUME IInv, ReadTested PROVE IInv'
<1> DEFINE kept == IF evidence.key = run.form THEN evidence.done ELSE {}
<1>1. /\ run # None /\ run \in Runs /\ run.answer = "ok" /\ run.step = "testing" /\ shown = None
      /\ run.form \in Forms /\ run.done \in SUBSET Checks
      /\ RegistryTypeOK' /\ DiskInv' /\ \A w \in wire' : w.late
      /\ UNCHANGED <<form, view, saved, frozen, service, disk, wire>> /\ run' = None
  BY AnsweredFacts, PayloadFacts DEF ReadTested
<1>2. view /\ run.kind \in Checks
  BY <1>1 DEF IInv, RunInv
<1>3. /\ evidence' = [key |-> run.form, done |-> kept \cup {run.kind}]
      /\ evidence'.key = run.form /\ evidence'.done = kept \cup {run.kind}
      /\ shown' = (IF run.kind \in Tools THEN <<run.form, run.done>> ELSE None)
  BY <1>1 DEF ReadTested
<1>4. service # None =>
        /\ service.draft = <<run.form, run.done>> /\ <<run.form, run.done>> # None
        /\ service.draft # None /\ service.draft[1] = run.form /\ run.kind \in service.tested
  <2>1. service # None => service.draft = <<run.form, run.done>> /\ run.kind \in service.tested
    BY <1>1 DEF IInv, RunSessionInv, DraftSaved
  <2>2. <<run.form, run.done>> # None /\ <<run.form, run.done>>[1] = run.form
    BY <1>1, PayloadFacts
  <2>3. QED
    BY <2>1, <2>2
<1>5. TypeOK'
  <2>1. kept \in SUBSET Checks /\ <<run.form, run.done>> \in Payloads
    BY <1>1, PayloadFacts DEF IInv, TypeOK
  <2>2. evidence' \in [key : Forms \cup {None}, done : SUBSET Checks] /\ shown' \in Payloads \cup {None}
    BY <1>1, <1>2, <1>3, <2>1
  <2>3. QED
    BY <1>1, <2>2 DEF IInv, TypeOK
<1>6. SessionInv'
  BY <1>1, <1>3, <1>4 DEF IInv, SessionInv
<1>7. WindowInv' /\ ShownIsOfDraft'
  BY <1>1, <1>2, <1>3, <1>4 DEF IInv, WindowInv, ShownIsOfDraft
<1>8. QED
  BY <1>1, <1>5, <1>6, <1>7 DEF IInv, RunInv, RunSessionInv, PostInv

LEMMA ReadFrozenKeeps == ASSUME IInv, ReadFrozen PROVE IInv'
<1>1. /\ run # None /\ run \in Runs /\ run.answer = "ok" /\ run.step = "freeze" /\ shown = None
      /\ run.form \in Forms /\ RegistryTypeOK' /\ DiskInv' /\ \A w \in wire' : w.late
      /\ UNCHANGED <<form, view, evidence, saved, shown, service, disk, wire>> /\ run' = None
      /\ frozen' = [form |-> run.form, digest |-> <<run.form, run.done>>]
  BY AnsweredFacts, PayloadFacts DEF ReadFrozen
<1>2. run.done = Checks
  BY <1>1 DEF IInv, RunInv
<1>3. frozen'.form = run.form /\ frozen'.digest = <<run.form, run.done>> /\ frozen'.digest[1] = run.form
  BY <1>1
<1>4. frozen' \in [form : Forms, digest : Forms \X {Checks}]
  BY <1>1, <1>2
<1>5. TypeOK'
  BY <1>1, <1>4 DEF IInv, TypeOK
<1>6. service # None => service.draft = <<run.form, run.done>>
  BY <1>1 DEF IInv, RunSessionInv, DraftSaved
<1>7. SessionInv'
  BY <1>1, <1>3, <1>6 DEF IInv, SessionInv
<1>8. QED
  BY <1>1, <1>3, <1>5, <1>7 DEF IInv, WindowInv, RunInv, RunSessionInv, PostInv, ShownIsOfDraft

LEMMA ReadSubmittedKeeps == ASSUME IInv, ReadSubmitted PROVE IInv'
<1>1. /\ run # None /\ run.answer = "ok" /\ run.step = "posting"
      /\ RegistryTypeOK' /\ DiskInv' /\ \A w \in wire' : w.late
      /\ UNCHANGED <<form, view, evidence, saved, frozen, shown, service, disk, wire>> /\ run' = None
  BY AnsweredFacts, PayloadFacts DEF ReadSubmitted, window
<1>2. TypeOK'
  BY <1>1 DEF IInv, TypeOK
<1>3. SessionInv'
  BY <1>1 DEF IInv, SessionInv
<1>4. QED
  BY <1>1, <1>2, <1>3 DEF IInv, WindowInv, RunInv, RunSessionInv, PostInv, ShownIsOfDraft

LEMMA ReadErrorKeeps == ASSUME IInv, ReadError PROVE IInv'
<1>1. PICK a \in {"failed", "locked"} : Answered(a)
  BY DEF ReadError
<1>2. /\ run # None /\ run.answer = a /\ shown = None
      /\ RegistryTypeOK' /\ DiskInv' /\ \A w \in wire' : w.late
      /\ UNCHANGED <<disk, wire>> /\ run' = None
  BY <1>1, AnsweredFacts, PayloadFacts DEF ReadError
<1>3. CASE UNCHANGED <<window, service>>
  <2>1. CASE a = "failed"
    <3>1. TypeOK'
      BY <1>2, <1>3 DEF IInv, TypeOK, window
    <3>2. SessionInv'
      BY <1>2, <1>3, <2>1 DEF IInv, SessionInv, window
    <3>3. QED
      BY <1>2, <1>3, <3>1, <3>2 DEF IInv, WindowInv, RunInv, RunSessionInv, PostInv, ShownIsOfDraft, window
  <2>2. CASE a = "locked" /\ service' = None
    <3>1. TypeOK'
      BY <1>2, <1>3, <2>2 DEF IInv, TypeOK, window
    <3>2. QED
      BY <1>2, <1>3, <2>2, <3>1 DEF IInv, WindowInv, RunInv, RunSessionInv, SessionInv, PostInv, ShownIsOfDraft, window
  <2>3. CASE a = "locked" /\ service' # None
    BY <1>2, <2>3 DEF ReadError, Answered
  <2>4. QED
    BY <2>1, <2>2, <2>3
<1>4. CASE ClearWindow /\ service' = None /\ UNCHANGED form
  <2>1. TypeOK'
    BY <1>2, <1>4 DEF IInv, TypeOK, ClearWindow, NoEvidence
  <2>2. QED
    BY <1>2, <1>4, <2>1 DEF IInv, ClearWindow, WindowInv, RunInv, RunSessionInv, SessionInv, PostInv, ShownIsOfDraft
<1>5. QED
  BY <1>3, <1>4 DEF ReadError

-----------------------------------------------------------------------------
\* The theorems.

LEMMA NextKeepsIInv == ASSUME IInv, [Next]_vars PROVE IInv'
<1>1. CASE UNCHANGED vars
  BY <1>1 DEF vars, window, registryVars, IInv, TypeOK, RegistryTypeOK, WindowInv, RunInv, RunSessionInv,
              DraftSaved, SessionInv, ShownIsOfDraft, PostInv, DiskInv, RegisteredIsInstalled, LoadsAs
<1>2. CASE Next
  BY <1>2, UnlockKeeps, ExpireKeeps, LockKeeps, WindowClosesKeeps, EditKeeps, DismissKeeps, StartKeeps,
     StartSubmitKeeps, SaveDraftKeeps, BeginTestKeeps, EndTestKeeps, FreezeKeeps, InstallKeeps,
     CallFailsKeeps, DeliverKeeps, LosePostKeeps, ReadSavedKeeps, ReadTestedKeeps, ReadFrozenKeeps,
     ReadSubmittedKeeps, ReadErrorKeeps
     DEF Next, Serve, Read
<1>3. QED
  BY <1>1, <1>2

LEMMA InvariantHolds == Spec => []IInv
  BY InitIInv, NextKeepsIInv, PTL DEF Spec

\* Every variable of the workbench, of the device's disk and of the registry
\* keeps its type.
THEOREM TypeCorrect == Spec => []TypeOK
<1>1. IInv => TypeOK
  BY DEF IInv
<1>2. QED
  BY <1>1, InvariantHolds, PTL

\* Whatever implementers edit, lock, lose and submit, a version the registry has
\* is installed on the device under its label in the contents of its digest.
THEOREM RegisteredStaysInstalled == Spec => []RegisteredIsInstalled
<1>1. IInv => RegisteredIsInstalled
  BY DEF IInv, DiskInv
<1>2. QED
  BY <1>1, InvariantHolds, PTL

\* No raw test result outlives its draft, on the screen or in the main process.
THEOREM ShownStaysOfDraft == Spec => []ShownIsOfDraft
<1>1. IInv => ShownIsOfDraft
  BY DEF IInv
<1>2. QED
  BY <1>1, InvariantHolds, PTL

\* Only the service posts a submission, of the session's frozen draft.
LEMMA PostedFacts ==
  ASSUME IInv, [Next]_vars, NEW w \in wire', Posted(w)
  PROVE  /\ service # None /\ service.frozen /\ w.digest = service.draft
         /\ run # None /\ run.step = "submit"
<1>1. Install
  <2>1. wire' \subseteq wire \/ Install \/ WindowCloses
    BY DEF Next, vars, Serve, Read, Unlock, Expire, Lock, Edit, Dismiss, Start, StartSubmit, SaveDraft,
           BeginTest, EndTest, Freeze, CallFails, Deliver, LosePost, NoSession, ReadSaved, ReadTested,
           ReadFrozen, ReadSubmitted, ReadError
  <2>2. ~WindowCloses
    BY DEF WindowCloses, Posted, IInv, TypeOK
  <2>3. QED
    BY <2>1, <2>2 DEF Posted
<1>2. wire' # wire
  BY DEF Posted
<1>3. QED
  BY <1>1, <1>2 DEF Install, NoSession, Called, Posted

\* Nothing is posted that was not tested, check by check, in the session that
\* posts it and by testers of its own form.
THEOREM SubmissionsAreTested == Spec => SubmittedWasTested
<1>1. ASSUME IInv, [Next]_vars
      PROVE  [\A w \in wire' : Posted(w) =>
                service.draft[1] = w.digest[1] /\ service.tested = Checks]_vars
  <2>1. ASSUME NEW w \in wire', Posted(w)
        PROVE  service.draft[1] = w.digest[1] /\ service.tested = Checks
    BY <1>1, <2>1, PostedFacts DEF IInv, SessionInv
  <2>2. QED
    BY <2>1
<1>2. QED
  BY <1>1, InvariantHolds, PTL DEF Spec, SubmittedWasTested

\* Nothing is posted but the form and the digest on the screen when the
\* implementer pressed the button.
THEOREM SubmissionsAreShown == Spec => SubmittedIsShown
<1>1. ASSUME IInv, [Next]_vars
      PROVE  [\A w \in wire' : Posted(w) => w.digest[1] = run.form /\ w.digest = run.digest]_vars
  <2>1. ASSUME NEW w \in wire', Posted(w)
        PROVE  w.digest[1] = run.form /\ w.digest = run.digest
    BY <1>1, <2>1, PostedFacts DEF IInv, RunSessionInv
  <2>2. QED
    BY <2>1
<1>2. QED
  BY <1>1, InvariantHolds, PTL DEF Spec, SubmittedIsShown

=============================================================================
