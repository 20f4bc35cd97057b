-------------------------- MODULE ConnectorRegistry --------------------------
(***************************************************************************)
(* The connector registry: one row for each submitted connector version,   *)
(* an append-only log of its lifecycle, the admin handlers that publish,   *)
(* suspend and revoke it, and the catalog that turns the published rows    *)
(* into the tools a chat turn may call.                                    *)
(*                                                                         *)
(* Each SQL transaction is one step: the store has one connection. An      *)
(* admin handler is two of them, a List and then a Transition.             *)
(***************************************************************************)
EXTENDS Naturals, Sequences, FiniteSets

CONSTANTS
  Connectors,  \* connector ids
  VersionIds,  \* version labels
  Digests,     \* package digests
  ToolNames,   \* tool names
  BuiltIn,     \* names of the tools that connectors of the backend serve
  Admins,      \* admin requests served at a time
  Submissions, \* the versions that may be submitted
  MaxEvents,   \* bound on the length of the lifecycle log
  None         \* no row, no request, no tool

Keys == Connectors \X VersionIds

SubmissionSpace == [key : Keys, digest : Digests, tools : SUBSET ToolNames]

ASSUME RegistryAssumption ==
  /\ Submissions \subseteq SubmissionSpace
  /\ BuiltIn \subseteq ToolNames
  /\ MaxEvents \in Nat

Statuses == {"pending_admin_approval", "published", "suspended", "revoked"}

\* The columns of a row that the lifecycle and the catalog read.
VersionRows ==
  [digest : Digests, tools : SUBSET ToolNames, status : Statuses]

LifecycleEvents ==
  [key : Keys, digest : Digests, from : Statuses \cup {""}, to : Statuses]

\* What an admin handler keeps of the row it listed.
AdminRequests == [key : Keys, digest : Digests, to : Statuses]

ASSUME NoneAssumption ==
  /\ None \notin VersionRows \cup AdminRequests \cup {"builtin"}
  /\ "builtin" \notin Keys

VARIABLES
  versions,  \* table connector_versions
  events,    \* table connector_lifecycle_events
  admin      \* the request each admin handler serves

registryVars == <<versions, events, admin>>

RegistryTypeOK ==
  /\ versions \in [Keys -> VersionRows \cup {None}]
  /\ events \in Seq(LifecycleEvents) /\ Len(events) <= MaxEvents
  /\ admin \in [Admins -> AdminRequests \cup {None}]

-----------------------------------------------------------------------------

\* A pending version can be published or revoked, a published one suspended, a
\* suspended one published again; a revoked one stays revoked.
LegalTransition(from, to) ==
  <<from, to>> \in
    ({"pending_admin_approval", "suspended"} \X {"published", "revoked"})
      \cup ({"published"} \X {"suspended", "revoked"})

\* Mutant of Event: the two statuses change places.
EventSwapped(k, d, from, to) == [key |-> k, digest |-> d, from |-> to, to |-> from]

Event(k, d, from, to) == [key |-> k, digest |-> d, from |-> from, to |-> to]

\* Mutant of Immutable: the version label is not compared.
SameDigest(s) ==
  \E k \in Keys : versions[k] # None /\ k[1] = s.key[1] /\ versions[k].digest = s.digest

\* The primary key and the unique digest of a connector.
Immutable(s) ==
  \E k \in Keys : /\ versions[k] # None
                  /\ k[1] = s.key[1]
                  /\ k[2] = s.key[2] \/ versions[k].digest = s.digest

\* Store.Submit, of a submission that handleConnectorSubmit has attested.
Submit(s) ==
  /\ Len(events) < MaxEvents
  /\ ~Immutable(s)
  /\ versions' = [versions EXCEPT ![s.key] =
       [digest |-> s.digest, tools |-> s.tools, status |-> "pending_admin_approval"]]
  /\ events' = Append(events, Event(s.key, s.digest, "", "pending_admin_approval"))
  /\ UNCHANGED admin

\* handleConnectorTransition finds the row and, when the request names a digest,
\* compares it.
ListVersion(a, k, to) ==
  /\ admin[a] = None
  /\ to \in {"published", "suspended", "revoked"}
  /\ versions[k] # None
  /\ admin' = [admin EXCEPT ![a] = [key |-> k, digest |-> versions[k].digest, to |-> to]]
  /\ UNCHANGED <<versions, events>>

EndRequest(a) == admin' = [admin EXCEPT ![a] = None]

\* Mutant of Transition: the status is taken for the one an earlier check saw.
TransitionUnchecked(a) ==
  /\ admin[a] # None
  /\ LET r == admin[a]
         k == r.key
         from == versions[k].status
     IN  IF versions[k].digest = r.digest
           THEN /\ Len(events) < MaxEvents
                /\ versions' = [versions EXCEPT ![k].status = r.to]
                /\ events' = Append(events, Event(k, r.digest, from, r.to))
           ELSE UNCHANGED <<versions, events>>
  /\ EndRequest(a)

\* Store.Transition, and the answer; an illegal one has no effect.
Transition(a) ==
  /\ admin[a] # None
  /\ LET r == admin[a]
         k == r.key
         from == versions[k].status
     IN  IF versions[k].digest = r.digest /\ LegalTransition(from, r.to)
           THEN /\ Len(events) < MaxEvents
                /\ versions' = [versions EXCEPT ![k].status = r.to]
                /\ events' = Append(events, Event(k, r.digest, from, r.to))
           ELSE UNCHANGED <<versions, events>>
  /\ EndRequest(a)

\* The store fails, the client leaves or the server dies between the two
\* transactions.
AbandonTransition(a) ==
  /\ admin[a] # None
  /\ EndRequest(a)
  /\ UNCHANGED <<versions, events>>

RegistryInit ==
  /\ versions = [k \in Keys |-> None]
  /\ events = <<>>
  /\ admin = [a \in Admins |-> None]

RegistryNext ==
  \/ \E s \in Submissions : Submit(s)
  \/ \E a \in Admins, k \in Keys, to \in Statuses : ListVersion(a, k, to)
  \/ \E a \in Admins : Transition(a) \/ AbandonTransition(a)

RegistrySpec == RegistryInit /\ [][RegistryNext]_registryVars

-----------------------------------------------------------------------------
\* The catalog of a chat turn.

WithStatus(statuses) == {k \in Keys : versions[k] # None /\ versions[k].status \in statuses}

ToolsOf(ks) == UNION {versions[k].tools : k \in ks}

Published == WithStatus({"published"})

\* publishedTools fails when two published versions carry one name.
Unambiguous ==
  \A k, l \in Published : k # l => versions[k].tools \cap versions[l].tools = {}

\* Mutant of Suppressed: a revoked version no longer hides the built-in tool.
SuppressedWhileSuspended == ToolsOf(WithStatus({"suspended"})) \ ToolsOf(Published)

\* Names that SnapshotOverlay takes away from the catalogs below.
Suppressed == ToolsOf(WithStatus({"suspended", "revoked"})) \ ToolsOf(Published)

\* What a name resolves to: the version that serves it, the backend's own tool,
\* or None. Nothing resolves when the catalog is ambiguous.
Resolve(name) ==
  IF ~Unambiguous THEN None
  ELSE IF name \in ToolsOf(Published)
         THEN CHOOSE k \in Published : name \in versions[k].tools
  ELSE IF name \in BuiltIn \ Suppressed THEN "builtin"
  ELSE None

-----------------------------------------------------------------------------
\* Properties.

\* Event j is the one before event i in the life of their version.
Precedes(j, i) ==
  /\ j < i /\ events[j].key = events[i].key
  /\ \A l \in 1..Len(events) : j < l /\ l < i => events[l].key # events[i].key

\* An event is its version's submission, or follows the one before by a legal
\* transition.
EventExplained(i) ==
  /\ versions[events[i].key] # None
  /\ events[i].digest = versions[events[i].key].digest
  /\ \/ /\ \A j \in 1..(i - 1) : events[j].key # events[i].key
        /\ events[i].from = "" /\ events[i].to = "pending_admin_approval"
     \/ \E j \in 1..(i - 1) : /\ Precedes(j, i)
                              /\ events[i].from = events[j].to
                              /\ LegalTransition(events[i].from, events[i].to)

\* The last event of a version reached the status of its row.
RowExplained(k) ==
  versions[k] # None =>
    \E i \in 1..Len(events) :
      /\ events[i].key = k /\ events[i].to = versions[k].status
      /\ \A l \in (i + 1)..Len(events) : events[l].key # k

\* The lifecycle log explains every row: a version's events start with its
\* submission, each leaves the status the one before had reached, by a legal
\* transition, all of one digest, and the last one reached the status of the row.
LogExplainsStatus ==
  /\ \A i \in 1..Len(events) : EventExplained(i)
  /\ \A k \in Keys : RowExplained(k)

\* Once a published connector version has served a tool's name, the backend's
\* own tool never answers under it again, whatever is suspended or revoked later.
NameIsTaken ==
  \A i \in 1..Len(events) :
    events[i].to = "published" =>
      \A name \in versions[events[i].key].tools : Resolve(name) # "builtin"

\* No step changes what an administrator approved: a version's digest and tools
\* stay under its label, and a revoked version stays as it was revoked.
VersionsAreImmutable ==
  [][\A k \in Keys : versions[k] # None =>
       /\ versions'[k] # None
       /\ versions'[k].digest = versions[k].digest
       /\ versions'[k].tools = versions[k].tools
       /\ versions[k].status = "revoked" => versions'[k] = versions[k]]_registryVars

=============================================================================
