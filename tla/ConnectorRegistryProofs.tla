---------------------- MODULE ConnectorRegistryProofs ----------------------
(***************************************************************************)
(* Theorems of ConnectorRegistry for every set of connectors, submissions, *)
(* tools and administrators, and every bound on the log.                   *)
(***************************************************************************)
EXTENDS ConnectorRegistry, TLAPS

\* The row an administrator listed is still there: rows are never deleted.
RequestsExist == \A a \in Admins : admin[a] # None => versions[admin[a].key] # None

\* A version that was ever published is not pending.
PublishedLeavesPending ==
  \A i \in 1..Len(events) :
    events[i].to = "published" =>
      /\ versions[events[i].key] # None
      /\ versions[events[i].key].status # "pending_admin_approval"

IInv ==
  RegistryTypeOK /\ RequestsExist /\ PublishedLeavesPending /\ LogExplainsStatus

-----------------------------------------------------------------------------
\* What the two writing steps do, in one form.

\* Version k takes row r, and the log one more event, e.
Recorded(k, r, e) ==
  /\ versions' = [versions EXCEPT ![k] = r]
  /\ events' = Append(events, e)
  /\ Len(events) < MaxEvents
  /\ k \in Keys /\ r \in VersionRows
  /\ e \in LifecycleEvents
  /\ e.key = k /\ e.digest = r.digest /\ e.to = r.status

\* A submission finds its version label free.
LEMMA SubmitRecords ==
  ASSUME RegistryTypeOK, NEW s \in Submissions, Submit(s)
  PROVE  /\ versions[s.key] = None
         /\ \E r, e : /\ Recorded(s.key, r, e) /\ r.status = "pending_admin_approval"
                      /\ e.from = ""
         /\ UNCHANGED admin
<1>1. s \in SubmissionSpace /\ s.key \in Keys /\ s.tools \in SUBSET ToolNames /\ s.digest \in Digests
  BY RegistryAssumption DEF SubmissionSpace
<1>2. versions[s.key] = None
  BY <1>1 DEF Submit, Immutable
<1> DEFINE r == [digest |-> s.digest, tools |-> s.tools, status |-> "pending_admin_approval"]
           e == Event(s.key, s.digest, "", "pending_admin_approval")
<1>3. r \in VersionRows /\ e \in LifecycleEvents
  BY <1>1 DEF VersionRows, LifecycleEvents, Event, Statuses
<1>4. Recorded(s.key, r, e) /\ r.status = "pending_admin_approval" /\ e.from = ""
  BY <1>1, <1>3 DEF Recorded, Submit, Event
<1>5. QED
  BY <1>2, <1>4 DEF Submit

\* A transition leaves everything alone, or moves its version legally and keeps
\* the version's digest and tools.
LEMMA TransitionRecords ==
  ASSUME RegistryTypeOK, RequestsExist, NEW a \in Admins, Transition(a)
  PROVE  /\ admin' = [admin EXCEPT ![a] = None]
         /\ \/ UNCHANGED <<versions, events>>
            \/ \E k \in Keys : \E r, e :
                 /\ versions[k] # None /\ Recorded(k, r, e)
                 /\ r.digest = versions[k].digest /\ r.tools = versions[k].tools
                 /\ e.from = versions[k].status
                 /\ LegalTransition(e.from, e.to)
<1>1. admin[a] # None /\ admin[a] \in AdminRequests /\ admin[a].key \in Keys
  BY DEF Transition, RegistryTypeOK, AdminRequests
<1> DEFINE q == admin[a]
           k == q.key
           r == [versions[k] EXCEPT !.status = q.to]
           e == Event(k, q.digest, versions[k].status, q.to)
<1>2. versions[k] # None /\ versions[k] \in VersionRows
  BY <1>1 DEF RequestsExist, RegistryTypeOK
<1>3. CASE versions[k].digest = q.digest /\ LegalTransition(versions[k].status, q.to)
  <2>1. r \in VersionRows /\ e \in LifecycleEvents
    BY <1>1, <1>2 DEF VersionRows, LifecycleEvents, AdminRequests, Event
  <2>2. /\ r.status = q.to /\ r.digest = versions[k].digest /\ r.tools = versions[k].tools
        /\ e.from = versions[k].status /\ e.to = q.to
    BY <1>1, <1>2 DEF VersionRows, Event
  <2>3. Recorded(k, r, e)
    BY <1>1, <1>2, <1>3, <2>1, <2>2 DEF Recorded, Transition, Event
  <2>4. QED
    <3>1. admin' = [admin EXCEPT ![a] = None]
      BY DEF Transition, EndRequest
    <3> HIDE DEF r, e
    <3>2. QED
      BY <1>1, <1>2, <1>3, <2>2, <2>3, <3>1
<1>4. CASE ~(versions[k].digest = q.digest /\ LegalTransition(versions[k].status, q.to))
  BY <1>4 DEF Transition, EndRequest
<1>5. QED
  BY <1>3, <1>4

\* The tables after a write: the types survive, and what the log held before
\* stays where it was.
Grown(k, r, e) ==
  /\ versions' \in [Keys -> VersionRows \cup {None}]
  /\ versions'[k] = r /\ r # None
  /\ \A j \in Keys \ {k} : versions'[j] = versions[j]
  /\ events' \in Seq(LifecycleEvents) /\ Len(events') <= MaxEvents
  /\ Len(events) \in Nat /\ Len(events') = Len(events) + 1
  /\ events'[Len(events')] = e
  /\ \A i \in 1..Len(events) : events'[i] = events[i] /\ events[i].key \in Keys
  /\ e.key = k /\ k \in Keys /\ e.digest = r.digest /\ e.to = r.status

LEMMA RecordedTypes ==
  ASSUME RegistryTypeOK, NEW k, NEW r, NEW e, Recorded(k, r, e)
  PROVE  Grown(k, r, e)
<1>1. versions' \in [Keys -> VersionRows \cup {None}] /\ versions'[k] = r /\ r # None
      /\ \A j \in Keys \ {k} : versions'[j] = versions[j]
  BY NoneAssumption DEF RegistryTypeOK, Recorded
<1>2. /\ events \in Seq(LifecycleEvents) /\ e \in LifecycleEvents
      /\ events' = Append(events, e) /\ Len(events) < MaxEvents
  BY DEF RegistryTypeOK, Recorded
<1>3. /\ events' \in Seq(LifecycleEvents) /\ Len(events') <= MaxEvents
      /\ Len(events) \in Nat /\ Len(events') = Len(events) + 1
      /\ events'[Len(events')] = e
      /\ \A i \in 1..Len(events) : events'[i] = events[i] /\ events[i] \in LifecycleEvents
  BY <1>2, RegistryAssumption
<1>4. e.key = k /\ k \in Keys /\ e.digest = r.digest /\ e.to = r.status
  BY DEF Recorded
<1>5. \A i \in 1..Len(events) : events[i].key \in Keys
  BY <1>3 DEF LifecycleEvents
<1>6. QED
  BY <1>1, <1>3, <1>4, <1>5 DEF Grown

-----------------------------------------------------------------------------
\* What a step does to the rows, whatever the log says of them.

\* A version is what it was, and a revoked one as it was revoked.
RowsKept ==
  \A k \in Keys : versions[k] # None =>
    /\ versions'[k] # None
    /\ versions'[k].digest = versions[k].digest
    /\ versions'[k].tools = versions[k].tools
    /\ versions[k].status = "revoked" => versions'[k] = versions[k]

LEMMA StepKeepsRows ==
  ASSUME RegistryTypeOK, RequestsExist, RegistryNext
  PROVE  RegistryTypeOK' /\ RequestsExist' /\ RowsKept
<1>1. ASSUME RowsKept, \A a \in Admins : admin'[a] # None => admin'[a].key \in Keys /\ versions[admin'[a].key] # None
      PROVE  RequestsExist'
  BY <1>1 DEF RequestsExist, RowsKept
<1>2. \A a \in Admins : admin[a] # None => admin[a].key \in Keys /\ versions[admin[a].key] # None
  BY DEF RegistryTypeOK, RequestsExist, AdminRequests
<1>3. ASSUME NEW s \in Submissions, Submit(s) PROVE RegistryTypeOK' /\ RequestsExist' /\ RowsKept
  <2>1. versions[s.key] = None /\ UNCHANGED admin
    BY <1>3, SubmitRecords
  <2>2. PICK r, e : Recorded(s.key, r, e)
    BY <1>3, SubmitRecords
  <2>3. RegistryTypeOK' /\ RowsKept
    BY <2>1, <2>2, RecordedTypes DEF Grown, RegistryTypeOK, RowsKept
  <2>4. QED
    BY <1>1, <1>2, <2>1, <2>3
<1>4. ASSUME NEW a \in Admins, Transition(a) PROVE RegistryTypeOK' /\ RequestsExist' /\ RowsKept
  <2>1. admin' = [admin EXCEPT ![a] = None]
    BY <1>4, TransitionRecords
  <2>2. CASE UNCHANGED <<versions, events>>
    BY <1>1, <1>2, <2>1, <2>2 DEF RegistryTypeOK, RowsKept
  <2>3. ASSUME NEW k \in Keys, NEW r, NEW e,
               Recorded(k, r, e), r.digest = versions[k].digest, r.tools = versions[k].tools,
               e.from = versions[k].status, LegalTransition(e.from, e.to)
        PROVE  RegistryTypeOK' /\ RowsKept
    <3>1. versions[k].status # "revoked"
      BY <2>3 DEF LegalTransition
    <3>2. QED
      BY <2>1, <2>3, <3>1, RecordedTypes DEF Grown, RegistryTypeOK, RowsKept
  <2>4. QED
    BY <1>1, <1>2, <1>4, <2>1, <2>2, <2>3, TransitionRecords DEF RegistryTypeOK
<1>5. ASSUME NEW a \in Admins, NEW k \in Keys, NEW to \in Statuses, ListVersion(a, k, to)
      PROVE  RegistryTypeOK' /\ RequestsExist' /\ RowsKept
  <2>1. versions[k] \in VersionRows /\ versions[k].digest \in Digests /\ versions[k] # None
    BY <1>5 DEF RegistryTypeOK, ListVersion, VersionRows
  <2>2. [key |-> k, digest |-> versions[k].digest, to |-> to] \in AdminRequests
    BY <2>1 DEF AdminRequests
  <2>3. RegistryTypeOK' /\ RowsKept
    BY <1>5, <2>2 DEF ListVersion, RegistryTypeOK, RowsKept
  <2>4. QED
    BY <1>1, <1>2, <1>5, <2>1, <2>3 DEF ListVersion, RegistryTypeOK
<1>6. ASSUME NEW a \in Admins, AbandonTransition(a) PROVE RegistryTypeOK' /\ RequestsExist' /\ RowsKept
  BY <1>1, <1>2, <1>6 DEF AbandonTransition, EndRequest, RegistryTypeOK, RowsKept
<1>7. QED
  BY <1>3, <1>4, <1>5, <1>6 DEF RegistryNext

-----------------------------------------------------------------------------
\* The log goes on explaining the rows.

\* The events before the new one are explained as they were.
LEMMA OldEventsStayExplained ==
  ASSUME RegistryTypeOK, LogExplainsStatus, NEW k, NEW r, NEW e, Recorded(k, r, e),
         versions[k] # None => r.digest = versions[k].digest,
         NEW i \in 1..Len(events)
  PROVE  EventExplained(i)'
<1>1. /\ \A l \in 1..Len(events) : events'[l] = events[l] /\ events[l].key \in Keys
      /\ Len(events) \in Nat /\ Len(events') = Len(events) + 1
  BY RecordedTypes DEF Grown
<1>2. events'[i] = events[i] /\ events[i].key \in Keys /\ versions[events[i].key] # None
      /\ events[i].digest = versions[events[i].key].digest
  BY <1>1 DEF LogExplainsStatus, EventExplained
<1>3. versions'[events[i].key] # None /\ events[i].digest = versions'[events[i].key].digest
  BY <1>2, RecordedTypes DEF Grown
<1>4. CASE /\ \A j \in 1..(i - 1) : events[j].key # events[i].key
           /\ events[i].from = "" /\ events[i].to = "pending_admin_approval"
  <2>1. \A j \in 1..(i - 1) : events'[j] = events[j]
    BY <1>1
  <2>2. QED
    BY <1>2, <1>3, <1>4, <2>1 DEF EventExplained
<1>5. CASE \E j \in 1..(i - 1) : /\ Precedes(j, i) /\ events[i].from = events[j].to
                                 /\ LegalTransition(events[i].from, events[i].to)
  <2>1. PICK j \in 1..(i - 1) : /\ Precedes(j, i) /\ events[i].from = events[j].to
                                /\ LegalTransition(events[i].from, events[i].to)
    BY <1>5
  <2>2. events'[j] = events[j] /\ Precedes(j, i)'
    BY <1>1, <2>1 DEF Precedes
  <2>3. QED
    BY <1>2, <1>3, <2>1, <2>2 DEF EventExplained
<1>6. QED
  BY <1>4, <1>5 DEF LogExplainsStatus, EventExplained

\* Every row has the event that reached its status, none of its own after it.
LEMMA RowsStayExplained ==
  ASSUME RegistryTypeOK, LogExplainsStatus, NEW k, NEW r, NEW e, Recorded(k, r, e),
         NEW l \in Keys
  PROVE  RowExplained(l)'
<1> SUFFICES ASSUME versions'[l] # None
             PROVE  \E i \in 1..Len(events') :
                      /\ events'[i].key = l /\ events'[i].to = versions'[l].status
                      /\ \A m \in (i + 1)..Len(events') : events'[m].key # l
  BY DEF RowExplained
<1>1. /\ \A m \in 1..Len(events) : events'[m] = events[m]
      /\ Len(events) \in Nat /\ Len(events') = Len(events) + 1 /\ events'[Len(events')] = e
      /\ e.key = k /\ e.to = r.status
      /\ versions'[k] = r /\ \A j \in Keys \ {k} : versions'[j] = versions[j]
  BY RecordedTypes DEF Grown
<1>2. CASE l = k
  <2>1. Len(events') \in 1..Len(events') /\ (Len(events') + 1)..Len(events') = {}
    BY <1>1
  <2>2. QED
    BY <1>1, <1>2, <2>1
<1>3. CASE l # k
  <2>1. PICK i \in 1..Len(events) :
          /\ events[i].key = l /\ events[i].to = versions[l].status
          /\ \A m \in (i + 1)..Len(events) : events[m].key # l
    BY <1>1, <1>3 DEF LogExplainsStatus, RowExplained
  <2>2. i \in 1..Len(events') /\ events'[i] = events[i]
    BY <1>1, <2>1
  <2>3. \A m \in (i + 1)..Len(events') : events'[m].key # l
    BY <1>1, <1>3, <2>1
  <2>4. QED
    BY <1>1, <1>3, <2>1, <2>2, <2>3
<1>4. QED
  BY <1>2, <1>3

\* A submission's event, and a transition's.
First(k, e) ==
  versions[k] = None /\ e.from = "" /\ e.to = "pending_admin_approval"

Follows(k, e) ==
  /\ versions[k] # None /\ e.digest = versions[k].digest
  /\ e.from = versions[k].status /\ LegalTransition(e.from, e.to)

\* The log explains both.
LEMMA RecordedExplained ==
  ASSUME RegistryTypeOK, LogExplainsStatus, NEW k, NEW r, NEW e, Recorded(k, r, e),
         First(k, e) \/ Follows(k, e)
  PROVE  LogExplainsStatus'
<1> SUFFICES ASSUME NEW n, n = Len(events') PROVE LogExplainsStatus'
  OBVIOUS
<1>0. /\ \A m \in 1..Len(events) : events'[m] = events[m] /\ events[m].key \in Keys
      /\ Len(events) \in Nat /\ Len(events') = Len(events) + 1 /\ events'[Len(events')] = e
      /\ e.key = k /\ k \in Keys /\ e.to = r.status /\ e.digest = r.digest
      /\ versions'[k] = r /\ r # None
  BY RecordedTypes DEF Grown
<1>1. /\ \A m \in 1..Len(events) : events'[m] = events[m] /\ events[m].key \in Keys
      /\ Len(events) \in Nat /\ n = Len(events) + 1 /\ events'[n] = e
      /\ e.key = k /\ k \in Keys /\ e.to = r.status /\ e.digest = r.digest
      /\ versions'[k] = r /\ r # None /\ 1..(n - 1) = 1..Len(events)
  BY <1>0
<1>2. ASSUME First(k, e)
      PROVE  \A j \in 1..(n - 1) : events'[j].key # events'[n].key
  <2>1. \A j \in 1..Len(events) : events[j].key # k
    BY <1>2 DEF LogExplainsStatus, EventExplained, First
  <2>2. QED
    BY <1>1, <2>1
<1>3. ASSUME Follows(k, e)
      PROVE  \E j \in 1..(n - 1) : /\ Precedes(j, n)' /\ events'[n].from = events'[j].to
                                   /\ LegalTransition(events'[n].from, events'[n].to)
  <2>1. PICK j \in 1..Len(events) :
          /\ events[j].key = k /\ events[j].to = versions[k].status
          /\ \A m \in (j + 1)..Len(events) : events[m].key # k
    BY <1>1, <1>3 DEF LogExplainsStatus, RowExplained, Follows
  <2>2. j \in 1..(n - 1) /\ events'[j] = events[j]
    BY <1>1, <2>1
  <2>3. Precedes(j, n)'
    BY <1>1, <2>1, <2>2 DEF Precedes
  <2>4. QED
    BY <1>1, <1>3, <2>1, <2>2, <2>3 DEF Follows
<1>4. versions[k] # None => r.digest = versions[k].digest
  BY <1>1 DEF First, Follows
<1>5. ASSUME NEW i \in 1..n PROVE EventExplained(i)'
  <2>1. CASE i = n
    <3>1. versions'[events'[n].key] # None /\ events'[n].digest = versions'[events'[n].key].digest
      BY <1>1
    <3>2. CASE First(k, e)
      BY <1>1, <1>2, <2>1, <3>1, <3>2 DEF First, EventExplained
    <3>3. CASE Follows(k, e)
      BY <1>3, <2>1, <3>1, <3>3 DEF EventExplained
    <3>4. QED
      BY <3>2, <3>3
  <2>2. CASE i # n
    <3>1. i \in 1..Len(events)
      BY <1>1, <2>2
    <3>2. QED
      BY <1>4, <3>1, OldEventsStayExplained
  <2>3. QED
    BY <2>1, <2>2
<1>6. QED
  BY <1>5, RowsStayExplained DEF LogExplainsStatus

\* Neither is disturbed by a step that leaves the rows and the log alone.
LEMMA UntouchedLog ==
  ASSUME UNCHANGED <<versions, events>>, PublishedLeavesPending, LogExplainsStatus
  PROVE  PublishedLeavesPending' /\ LogExplainsStatus'
<1>1. versions' = versions /\ events' = events
  OBVIOUS
<1>2. \A i, j : Precedes(i, j)' <=> Precedes(i, j)
  BY <1>1 DEF Precedes
<1>3. PublishedLeavesPending'
  BY <1>1 DEF PublishedLeavesPending
<1>4. \A i : EventExplained(i)' <=> EventExplained(i)
  BY <1>1, <1>2 DEF EventExplained
<1>5. \A k \in Keys : RowExplained(k)' <=> RowExplained(k)
  BY <1>1 DEF RowExplained
<1>6. LogExplainsStatus'
  BY <1>1, <1>4, <1>5 DEF LogExplainsStatus
<1>7. QED
  BY <1>3, <1>6

-----------------------------------------------------------------------------
\* The invariant is inductive.

LEMMA InitIInv == RegistryInit => IInv
<1> SUFFICES ASSUME RegistryInit PROVE IInv
  OBVIOUS
<1>1. RegistryTypeOK
  BY RegistryAssumption DEF RegistryInit, RegistryTypeOK
<1>2. 1..Len(events) = {}
  BY DEF RegistryInit
<1>3. RequestsExist /\ PublishedLeavesPending
  BY <1>2 DEF RegistryInit, RequestsExist, PublishedLeavesPending
<1>4. LogExplainsStatus
  BY <1>2 DEF RegistryInit, LogExplainsStatus, RowExplained
<1>5. QED
  BY <1>1, <1>3, <1>4 DEF IInv

\* Whatever is recorded as published is not pending afterwards.
LEMMA RecordedLeavesPending ==
  ASSUME RegistryTypeOK, PublishedLeavesPending, NEW k, NEW r, NEW e, Recorded(k, r, e),
         versions[k] # None => r.status # "pending_admin_approval"
  PROVE  PublishedLeavesPending'
<1>1. /\ \A m \in 1..Len(events) : events'[m] = events[m] /\ events[m].key \in Keys
      /\ Len(events) \in Nat /\ Len(events') = Len(events) + 1 /\ events'[Len(events')] = e
      /\ e.key = k /\ e.to = r.status
      /\ versions'[k] = r /\ r # None /\ \A j \in Keys \ {k} : versions'[j] = versions[j]
  BY RecordedTypes DEF Grown
<1>2. ASSUME NEW i \in 1..Len(events'), events'[i].to = "published"
      PROVE  /\ versions'[events'[i].key] # None
             /\ versions'[events'[i].key].status # "pending_admin_approval"
  <2>1. CASE i = Len(events')
    BY <1>1, <1>2, <2>1
  <2>2. CASE i # Len(events')
    <3>1. i \in 1..Len(events)
      BY <1>1, <2>2
    <3>2. QED
      BY <1>1, <1>2, <3>1 DEF PublishedLeavesPending
  <2>3. QED
    BY <2>1, <2>2
<1>3. QED
  BY <1>2 DEF PublishedLeavesPending

LEMMA SubmitKeeps ==
  ASSUME IInv, NEW s \in Submissions, Submit(s)
  PROVE  IInv'
<1>1. RegistryTypeOK /\ UNCHANGED admin /\ versions[s.key] = None
  BY SubmitRecords DEF IInv
<1>2. PICK r, e : Recorded(s.key, r, e) /\ r.status = "pending_admin_approval" /\ e.from = ""
  BY SubmitRecords DEF IInv
<1>3. RegistryTypeOK' /\ RequestsExist'
  BY StepKeepsRows DEF IInv, RegistryNext
<1>4. First(s.key, e)
  <2>1. Grown(s.key, r, e)
    BY <1>1, <1>2, RecordedTypes
  <2>2. e.to = r.status
    BY <2>1 DEF Grown
  <2>3. QED
    BY <1>1, <1>2, <2>2 DEF First
<1>5. PublishedLeavesPending' /\ LogExplainsStatus'
  BY <1>1, <1>2, <1>4, RecordedLeavesPending, RecordedExplained DEF IInv
<1>6. QED
  BY <1>3, <1>5 DEF IInv

LEMMA TransitionKeeps ==
  ASSUME IInv, NEW a \in Admins, Transition(a)
  PROVE  IInv'
<1>1. RegistryTypeOK /\ RequestsExist
  BY DEF IInv
<1>2. RegistryTypeOK' /\ RequestsExist'
  BY <1>1, StepKeepsRows DEF RegistryNext
<1>3. CASE UNCHANGED <<versions, events>>
  BY <1>2, <1>3, UntouchedLog DEF IInv
<1>4. ASSUME NEW k \in Keys, NEW r, NEW e,
             versions[k] # None, Recorded(k, r, e), r.digest = versions[k].digest,
             e.from = versions[k].status, LegalTransition(e.from, e.to)
      PROVE  IInv'
  <2>1. e.to = r.status /\ e.digest = r.digest
    BY <1>1, <1>4, RecordedTypes DEF Grown
  <2>2. PublishedLeavesPending'
    <3>1. r.status # "pending_admin_approval"
      BY <1>4, <2>1 DEF LegalTransition
    <3>2. QED
      BY <1>4, <3>1, RecordedLeavesPending DEF IInv
  <2>3. LogExplainsStatus'
    <3>1. Follows(k, e)
      BY <1>4, <2>1 DEF Follows
    <3>2. QED
      BY <1>4, <3>1, RecordedExplained DEF IInv
  <2>4. QED
    BY <1>2, <2>2, <2>3 DEF IInv
<1>5. QED
  BY <1>3, <1>4, TransitionRecords DEF IInv

LEMMA ListVersionKeeps ==
  ASSUME IInv, NEW a \in Admins, NEW k \in Keys, NEW to \in Statuses, ListVersion(a, k, to)
  PROVE  IInv'
  BY StepKeepsRows, UntouchedLog DEF ListVersion, IInv, RegistryNext

LEMMA AbandonTransitionKeeps ==
  ASSUME IInv, NEW a \in Admins, AbandonTransition(a)
  PROVE  IInv'
  BY StepKeepsRows, UntouchedLog DEF AbandonTransition, IInv, RegistryNext

LEMMA NextKeepsIInv == IInv /\ [RegistryNext]_registryVars => IInv'
<1> SUFFICES ASSUME IInv, [RegistryNext]_registryVars PROVE IInv'
  OBVIOUS
<1>1. CASE UNCHANGED registryVars
  BY <1>1, UntouchedLog DEF registryVars, IInv, RegistryTypeOK, RequestsExist
<1>2. CASE RegistryNext
  BY <1>2, SubmitKeeps, ListVersionKeeps, TransitionKeeps, AbandonTransitionKeeps
  DEF RegistryNext
<1>3. QED
  BY <1>1, <1>2

LEMMA InvariantHolds == RegistrySpec => []IInv
<1>1. QED
  BY InitIInv, NextKeepsIInv, PTL DEF RegistrySpec

-----------------------------------------------------------------------------
\* Theorems.

\* The rows, the log and the handlers' requests keep their types, and the log
\* its bound (Store.Submit, Store.Transition, handleConnectorTransition).
THEOREM TypeCorrect == RegistrySpec => []RegistryTypeOK
<1>1. IInv => RegistryTypeOK
  BY DEF IInv
<1>2. QED
  BY <1>1, InvariantHolds, PTL

\* The append-only log is the history of every row: no transition of Store.
\* Transition is missing, illegal or out of order, whoever listed what before.
THEOREM LogIsHistory == RegistrySpec => []LogExplainsStatus
<1>1. IInv => LogExplainsStatus
  BY DEF IInv
<1>2. QED
  BY <1>1, InvariantHolds, PTL

LEMMA PublishedTakesName == IInv => NameIsTaken
<1> SUFFICES ASSUME IInv, NEW i \in 1..Len(events), events[i].to = "published",
                    NEW name \in versions[events[i].key].tools
             PROVE  Resolve(name) # "builtin"
  BY DEF NameIsTaken
<1> DEFINE k == events[i].key
<1>1. k \in Keys /\ versions[k] # None /\ versions[k] \in VersionRows
      /\ versions[k].status \in {"published", "suspended", "revoked"}
  <2>1. events[i] \in LifecycleEvents /\ k \in Keys
    <3>1. events \in Seq(LifecycleEvents)
      BY DEF IInv, RegistryTypeOK
    <3>2. events[i] \in LifecycleEvents
      BY <3>1
    <3>3. QED
      BY <3>2 DEF LifecycleEvents
  <2>2. versions[k] # None /\ versions[k].status # "pending_admin_approval"
    BY DEF IInv, PublishedLeavesPending
  <2>3. versions[k] \in VersionRows /\ versions[k].status \in Statuses
    BY <2>1, <2>2 DEF IInv, RegistryTypeOK, VersionRows
  <2>4. QED
    BY <2>1, <2>2, <2>3 DEF Statuses
<1>2. CASE ~Unambiguous
  BY <1>2, NoneAssumption DEF Resolve
<1>3. CASE Unambiguous /\ name \in ToolsOf(Published)
  <2>1. \E l \in Published : name \in versions[l].tools
    BY <1>3 DEF ToolsOf
  <2>2. (CHOOSE l \in Published : name \in versions[l].tools) \in Published
    BY <2>1
  <2>3. QED
    BY <1>3, <2>2, NoneAssumption DEF Resolve, Published, WithStatus
<1>4. CASE Unambiguous /\ name \notin ToolsOf(Published)
  <2>1. versions[k].status # "published"
    BY <1>1, <1>4 DEF ToolsOf, Published, WithStatus
  <2>2. name \in Suppressed
    BY <1>1, <1>4, <2>1 DEF Suppressed, ToolsOf, WithStatus
  <2>3. QED
    BY <1>4, <2>2, NoneAssumption DEF Resolve
<1>5. QED
  BY <1>2, <1>3, <1>4

\* A tool name that a connector version was published with never falls back to
\* the backend's own tool (publishedCatalog.SnapshotOverlay).
THEOREM NamesStayTaken == RegistrySpec => []NameIsTaken
  BY PublishedTakesName, InvariantHolds, PTL

\* Nothing that happens to the registry changes what a version is, nor brings
\* back a revoked one.
THEOREM VersionsStay == RegistrySpec => VersionsAreImmutable
<1>1. IInv /\ [RegistryNext]_registryVars => [RowsKept]_registryVars
  BY StepKeepsRows DEF IInv
<1>2. QED
  BY <1>1, InvariantHolds, PTL DEF RegistrySpec, VersionsAreImmutable, RowsKept

=============================================================================
