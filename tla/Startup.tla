------------------------------- MODULE Startup -------------------------------
(***************************************************************************)
(* The life of the desktop process: initializeDesktop opens the store and  *)
(* the connector stack and installs the IPC handlers in one step, waits    *)
(* for the backend it spawned and for the main window, and undoes all of   *)
(* it when a step fails; before-quit closes what was opened, once the      *)
(* start has handed it over.                                               *)
(***************************************************************************)
EXTENDS Integers, Sequences

CONSTANTS
  Bundled,     \* AGENTD_BIN is set: the desktop starts the backend itself
  MaxLaunches  \* bound on the starts of the process

ASSUME StartupAssumption == Bundled \in BOOLEAN /\ MaxLaunches \in Nat

\* What is opened, in order; the vault and the package reader hold nothing.
Order == <<"store", "ledger", "runtime", "workbench", "handlers">>
Parts == {Order[i] : i \in DOMAIN Order}

VARIABLES
  darwin,    \* the platform is macOS, which keeps applications without windows
  app,       \* how far the process is
  launch,    \* number of this start
  open,      \* parts that are open
  agentd,    \* starts whose backend process runs
  held,      \* desktopRuntime is set
  closed,    \* close() has run
  stopped,   \* stopAgentd() has run
  quitting,  \* app.quit() was called
  windows    \* windows on the screen

processVars ==
  <<darwin, app, launch, open, agentd, held, closed, stopped, quitting, windows>>

Phases == {"down", "spawning", "loading", "ready", "failed"}

StartupTypeOK ==
  /\ darwin \in BOOLEAN
  /\ app \in Phases
  /\ launch \in 0..MaxLaunches
  /\ open \subseteq Parts
  /\ agentd \subseteq 1..MaxLaunches
  /\ held \in BOOLEAN /\ closed \in BOOLEAN
  /\ stopped \in BOOLEAN /\ quitting \in BOOLEAN
  /\ windows \subseteq {"main", "workbench"}

StartupInit ==
  /\ darwin \in BOOLEAN
  /\ app = "down" /\ launch = 0
  /\ open = {} /\ agentd = {} /\ windows = {}
  /\ held = FALSE /\ closed = FALSE /\ stopped = FALSE /\ quitting = FALSE

Alive == app # "down"

-----------------------------------------------------------------------------
\* Release.

\* stopAgentd kills the child of this start, once.
StopAgentd ==
  /\ stopped' = TRUE
  /\ agentd' = IF stopped THEN agentd ELSE agentd \ {launch}

\* Mutant of CloseAll: the first disposal that throws ends the loop.
CloseUntilError ==
  IF closed THEN UNCHANGED <<open, agentd, closed, stopped>>
  ELSE /\ closed' = TRUE
       /\ StopAgentd
       /\ \E n \in 0..Len(Order) : open' = {Order[i] : i \in 1..n} \cap open

\* close() disposes of everything, once; a disposal that throws does not keep
\* the others from running, and its part stays open.
CloseAll ==
  IF closed THEN UNCHANGED <<open, agentd, closed, stopped>>
  ELSE /\ closed' = TRUE
       /\ StopAgentd
       /\ open' \in {{}} \cup {{p} : p \in open \ {"handlers"}}

\* before-quit closes what desktopRuntime holds, which is nothing before the
\* start has ended.
BeforeQuit ==
  /\ quitting' = TRUE
  /\ held' = FALSE
  /\ IF held THEN CloseAll ELSE UNCHANGED <<open, agentd, closed, stopped>>

\* A step of the start failed: close() and app.quit().
FailStart ==
  /\ app' = "failed"
  /\ quitting' = TRUE
  /\ CloseAll
  /\ UNCHANGED held

-----------------------------------------------------------------------------
\* initializeDesktop.

\* Everything up to the first await. A constructor that fails, the package
\* check among them, leaves the parts before it to close().
Launch(verified) ==
  /\ app = "down" /\ launch < MaxLaunches
  /\ launch' = launch + 1
  /\ held' = FALSE /\ stopped' = FALSE /\ windows' = {}
  /\ \/ /\ verified
        /\ app' = "spawning"
        /\ open' = Parts
        /\ agentd' = agentd \cup (IF Bundled THEN {launch'} ELSE {})
        /\ closed' = FALSE /\ quitting' = FALSE
     \/ /\ app' = "failed"
        /\ open' \in {{}} \cup {{p} : p \in Parts \ {"handlers"}}
        /\ closed' = TRUE /\ quitting' = TRUE
        /\ UNCHANGED agentd
  /\ UNCHANGED darwin

\* The backend process is there, or is somebody else's; the window is made.
Spawned ==
  /\ app = "spawning"
  /\ app' = "loading"
  /\ windows' = windows \cup {"main"}
  /\ UNCHANGED <<darwin, launch, open, agentd, held, closed, stopped, quitting>>

SpawnFails ==
  /\ app = "spawning" /\ Bundled
  /\ FailStart
  /\ UNCHANGED <<darwin, launch, windows>>

Loaded ==
  /\ app = "loading" /\ "main" \in windows
  /\ app' = "ready"
  /\ held' = TRUE
  /\ UNCHANGED <<darwin, launch, open, agentd, closed, stopped, quitting, windows>>

\* The page cannot be loaded, or its window was closed meanwhile. The quit takes
\* the workbench window too.
LoadFails ==
  /\ app = "loading"
  /\ windows' = {}
  /\ FailStart
  /\ UNCHANGED <<darwin, launch>>

-----------------------------------------------------------------------------
\* Windows and the end of the process.

\* window-all-closed, which is not sent once the application quits, stops the backend and, but on macOS, quits.
LastWindowClosed ==
  IF darwin
    THEN /\ IF held THEN StopAgentd ELSE UNCHANGED <<agentd, stopped>>
         /\ UNCHANGED <<open, held, closed, quitting>>
    ELSE BeforeQuit

CloseWindow(w) ==
  /\ w \in windows
  /\ windows' = windows \ {w}
  /\ IF windows' = {} /\ ~quitting THEN LastWindowClosed
       ELSE UNCHANGED <<open, agentd, held, closed, stopped, quitting>>
  /\ UNCHANGED <<darwin, app, launch>>

OpenWorkbench ==
  /\ "main" \in windows /\ "handlers" \in open
  /\ windows' = windows \cup {"workbench"}
  /\ UNCHANGED <<darwin, app, launch, open, agentd, held, closed, stopped, quitting>>

\* macOS shows the application again.
Activate ==
  /\ darwin /\ app = "ready" /\ windows = {}
  /\ windows' = {"main"}
  /\ UNCHANGED <<darwin, app, launch, open, agentd, held, closed, stopped, quitting>>

Quit ==
  /\ Alive /\ ~quitting
  /\ BeforeQuit
  /\ windows' = windows \ {"workbench"}
  /\ UNCHANGED <<darwin, app, launch>>

\* The process ends, on its own or by a crash; a backend it did not stop runs on.
Exit ==
  /\ Alive
  /\ app' = "down"
  /\ open' = {} /\ windows' = {}
  /\ held' = FALSE /\ closed' = FALSE /\ stopped' = FALSE /\ quitting' = FALSE
  /\ UNCHANGED <<darwin, launch, agentd>>

BackendDies ==
  /\ \E n \in agentd : agentd' = agentd \ {n}
  /\ UNCHANGED <<darwin, app, launch, open, held, closed, stopped, quitting, windows>>

Wind ==
  \/ Spawned \/ SpawnFails \/ Loaded \/ LoadFails
  \/ \E w \in {"main", "workbench"} : CloseWindow(w)
  \/ OpenWorkbench \/ Activate \/ Quit \/ BackendDies

-----------------------------------------------------------------------------
\* Once close() has run, for a failed start or for a quit, nothing that works
\* stays behind for the rest of the process: no handler, no backend, and no part
\* but one whose own disposal threw.
ClosedOwnsNothing ==
  Alive /\ closed =>
    /\ launch \notin agentd
    /\ "handlers" \notin open
    /\ \A p, q \in open : p = q

=============================================================================
