--------------------------- MODULE PolicyProjection ---------------------------
(***************************************************************************)
(* The tenant's authorization policy: tables of roles, position rules,     *)
(* skills and data-domain grants that administrators edit, and OpenFGA,    *)
(* which answers every permission check, kept in step by a projection of   *)
(* the whole policy after each edit.                                       *)
(*                                                                         *)
(* A handler runs one admin request at a time: its SQL statements, then    *)
(* Projector.Reproject under a mutex.  Handlers interleave between any two *)
(* statements.  The policy survives a crash, OpenFGA starts empty.         *)
(***************************************************************************)
EXTENDS Naturals, FiniteSets

CONSTANTS
  Handlers,   \* admin requests served at a time
  Roles,      \* role ids
  Malformed,  \* role ids that OpenFGA refuses in an object name
  Skills,     \* skill ids
  Bodies,     \* the rest of a skill: playbook and allowed tools
  Requests,   \* the admin requests that may arrive
  MaxRequests, \* bound on the number of requests
  None        \* no skill row, no handler

SkillRows == [roles : SUBSET Roles, body : Bodies]

RequestSpace ==
       [op : {"createRole", "updateRole", "deleteRole", "addGrant", "removeGrant"},
        role : Roles]
  \cup [op : {"replaceRules"}, rules : SUBSET Roles]
  \cup [op : {"createSkill", "updateSkill"}, skill : Skills, row : SkillRows]
  \cup [op : {"deleteSkill"}, skill : Skills]

ASSUME PolicyAssumption ==
  /\ Malformed \subseteq Roles
  /\ Requests \subseteq RequestSpace
  /\ MaxRequests \in Nat
  /\ None \notin Handlers \cup SkillRows \cup Requests \cup {"failed"}
  /\ "failed" \notin Handlers
  /\ IsFiniteSet(Roles) /\ IsFiniteSet(Skills)

VARIABLES
  roles,     \* table roles
  rules,     \* table role_rules: the roles some user's position is mapped to
  skills,    \* table skills
  grants,    \* table domain_grants: the roles that may view the data domain
  tuples,    \* what OpenFGA holds
  pc,        \* where each handler stands
  req,       \* the request each handler serves
  left,      \* how many requests may still arrive
  rows,      \* the skill rows a role deletion listed and has not visited
  holder,    \* the handler that holds the projector's mutex, or None
  view,      \* what the projection has read of the policy
  diff,      \* the differences it is about to write
  author,    \* history: who wrote an item last and was not answered yet
  since,     \* history: items written since the projection took the mutex
  buried,    \* history: roles deleted, and not named by a request since
  clash      \* history: a statement ran inside another request's role deletion

policy == <<roles, rules, skills, grants>>
history == <<author, since, buried, clash>>
vars == <<policy, tuples, pc, req, left, rows, holder, view, diff, history>>

Projecting == {"readRules", "readSkills", "readRoles", "readGrants", "readTuples", "apply"}
Cascading  == {"strip", "dropGrants", "dropRules", "dropRole"}

\* The items of the policy that an administrator can tell apart.
Items == ({"role", "assignee", "viewer"} \X Roles) \cup ({"skill"} \X Skills)

-----------------------------------------------------------------------------
\* The projection of a policy into relationship tuples.

\* skill.Tuples: a skill exposes its tools and is usable by its roles.
SkillTuples(sk) ==
  UNION {{<<"exposed_by", s, sk[s].body>>} \cup {<<"usable_by", s, r>> : r \in sk[s].roles}
         : s \in {t \in Skills : sk[t] # None}}

\* SnapshotToTuples: the rules make users assignees of a role, which becomes
\* an object of the tenant whether or not the roles table knows it.
OrgTuples(ru) ==
  {<<"assignee", r, None>> : r \in ru} \cup {<<"role", r, None>> : r \in ru}

\* config.Tuples.
ConfigTuples(ro, gr) ==
  {<<"role", r, None>> : r \in ro} \cup {<<"viewer", r, None>> : r \in gr}

Desired(v) ==
  OrgTuples(v.rules) \cup SkillTuples(v.skills) \cup ConfigTuples(v.roles, v.grants)

Policy == [rules |-> rules, skills |-> skills, roles |-> roles, grants |-> grants]

\* OpenFGA refuses a write that names a malformed object, as a whole.
Acceptable(ts) == \A t \in ts : t[2] \notin Malformed /\ t[3] \notin Malformed

\* Mutant of Reconcile: what is no longer desired is not deleted.
ReconcileWritesOnly(current, desired) ==
  [writes |-> desired \ current, deletes |-> {}]

\* Reconcile: the writes and the deletes that lead from current to desired.
Reconcile(current, desired) ==
  [writes |-> desired \ current, deletes |-> current \ desired]

EmptyView == [rules |-> {}, skills |-> [s \in Skills |-> None], roles |-> {}, grants |-> {}]
NoDiff == [writes |-> {}, deletes |-> {}]

Tuples ==
       ({"assignee", "role", "viewer"} \X Roles \X {None})
  \cup ({"exposed_by"} \X Skills \X Bodies)
  \cup ({"usable_by"} \X Skills \X Roles)

SkillTables == [Skills -> SkillRows \cup {None}]

Views == [rules : SUBSET Roles, skills : SkillTables, roles : SUBSET Roles, grants : SUBSET Roles]

TypeOK ==
  /\ roles \subseteq Roles /\ rules \subseteq Roles /\ grants \subseteq Roles
  /\ skills \in SkillTables /\ rows \in [Handlers -> SkillTables]
  /\ tuples \subseteq Tuples
  /\ pc \in [Handlers -> {"idle", "lock", "down"} \cup Projecting \cup Cascading]
  /\ req \in [Handlers -> Requests \cup {None}]
  /\ left \in 0..MaxRequests
  /\ view \in Views
  /\ diff.writes \subseteq Tuples /\ diff.deletes \subseteq Tuples
  /\ author \in [Items -> Handlers \cup {None, "failed"}]
  /\ since \subseteq Items /\ buried \subseteq Roles /\ clash \in BOOLEAN
  \* One projection at a time, and the mutex is held by the one that runs.
  /\ \A h \in Handlers : pc[h] \in Projecting <=> holder = h
  /\ holder \in Handlers \cup {None}

-----------------------------------------------------------------------------
\* Statements of a handler.

Goto(h, where) == pc' = [pc EXCEPT ![h] = where]

\* The request is answered.
Answer(h) ==
  /\ Goto(h, "idle")
  /\ req' = [req EXCEPT ![h] = None]

\* A handler answers an error: its request wrote what it wrote.
Failed(h) ==
  [i \in Items |-> IF author[i] = h THEN "failed" ELSE author[i]]

\* A statement of h that writes the given items of the policy.
Wrote(h, items) ==
  /\ author' = [i \in Items |-> IF i \in items THEN h ELSE author[i]]
  /\ since' = IF holder = None THEN since ELSE since \cup items
  /\ clash' = (clash \/ \E g \in Handlers \ {h} : pc[g] \in Cascading)

SkillItems(ss) == {<<"skill", s>> : s \in ss}

Idle(h, q) ==
  /\ pc[h] = "idle"
  /\ left > 0 /\ left' = left - 1
  /\ req' = [req EXCEPT ![h] = q]

\* A request whose only effect on the policy is one statement, which answers
\* an error without any effect when its guard fails.
CreateRole(h, q) ==
  /\ Idle(h, q) /\ q.op = "createRole"
  /\ q.role \notin roles \cup Malformed
  /\ roles' = roles \cup {q.role}
  /\ Wrote(h, {<<"role", q.role>>})
  /\ buried' = buried \ {q.role}
  /\ Goto(h, "lock")
  /\ UNCHANGED <<rules, skills, grants, tuples, rows, holder, view, diff>>

\* UpdateRole changes the label only, and projects again all the same.
UpdateRole(h, q) ==
  /\ Idle(h, q) /\ q.op = "updateRole"
  /\ q.role \in roles
  /\ Goto(h, "lock")
  /\ UNCHANGED <<policy, tuples, rows, holder, view, diff, history>>

ReplaceRules(h, q) ==
  /\ Idle(h, q) /\ q.op = "replaceRules"
  /\ rules' = q.rules
  /\ Wrote(h, {"assignee", "role"} \X (rules \cup q.rules))
  /\ buried' = buried \ q.rules
  /\ Goto(h, "lock")
  /\ UNCHANGED <<roles, skills, grants, tuples, rows, holder, view, diff>>

PutSkill(h, q) ==
  /\ Idle(h, q)
  /\ \/ q.op = "createSkill" /\ skills[q.skill] = None
     \/ q.op = "updateSkill" /\ skills[q.skill] # None
  /\ skills' = [skills EXCEPT ![q.skill] = q.row]
  /\ Wrote(h, SkillItems({q.skill}))
  /\ buried' = buried \ q.row.roles
  /\ Goto(h, "lock")
  /\ UNCHANGED <<roles, rules, grants, tuples, rows, holder, view, diff>>

DeleteSkill(h, q) ==
  /\ Idle(h, q) /\ q.op = "deleteSkill"
  /\ skills' = [skills EXCEPT ![q.skill] = None]
  /\ Wrote(h, SkillItems({q.skill}))
  /\ Goto(h, "lock")
  /\ UNCHANGED <<roles, rules, grants, tuples, rows, holder, view, diff, buried>>

AddGrant(h, q) ==
  /\ Idle(h, q) /\ q.op = "addGrant"
  /\ grants' = grants \cup {q.role}
  /\ Wrote(h, {<<"viewer", q.role>>})
  /\ buried' = buried \ {q.role}
  /\ Goto(h, "lock")
  /\ UNCHANGED <<roles, rules, skills, tuples, rows, holder, view, diff>>

RemoveGrant(h, q) ==
  /\ Idle(h, q) /\ q.op = "removeGrant"
  /\ grants' = grants \ {q.role}
  /\ Wrote(h, {<<"viewer", q.role>>})
  /\ Goto(h, "lock")
  /\ UNCHANGED <<roles, rules, skills, tuples, rows, holder, view, diff, buried>>

\* handleRoleDelete: RemoveRoleFromAll lists the skills once ...
DeleteRole(h, q) ==
  /\ Idle(h, q) /\ q.op = "deleteRole"
  /\ rows' = [rows EXCEPT ![h] =
       [s \in Skills |-> IF skills[s] # None /\ q.role \in skills[s].roles
                           THEN skills[s] ELSE None]]
  /\ clash' = (clash \/ \E g \in Handlers \ {h} : pc[g] \in Cascading)
  /\ Goto(h, "strip")
  /\ UNCHANGED <<policy, tuples, holder, view, diff, author, since, buried>>

\* ... and writes each listed row back without the role, whatever the table
\* holds by then; a row that is gone is an error.
StripSkill(h, s) ==
  /\ pc[h] = "strip"
  /\ rows[h][s] # None
  /\ rows' = [rows EXCEPT ![h][s] = None]
  /\ IF skills[s] = None
       THEN /\ Answer(h)
            /\ author' = Failed(h)
            /\ UNCHANGED <<skills, since, clash>>
       ELSE /\ skills' = [skills EXCEPT ![s] =
                 [roles |-> rows[h][s].roles \ {req[h].role}, body |-> rows[h][s].body]]
            /\ Wrote(h, SkillItems({s}))
            /\ UNCHANGED <<pc, req>>
  /\ UNCHANGED <<left, roles, rules, grants, tuples, holder, view, diff, buried>>

Stripped(h) ==
  /\ pc[h] = "strip"
  /\ \A s \in Skills : rows[h][s] = None
  /\ Goto(h, "dropGrants")
  /\ UNCHANGED <<left, policy, tuples, req, rows, holder, view, diff, history>>

\* config.DeleteRole: three statements, no transaction.
DropGrants(h) ==
  /\ pc[h] = "dropGrants"
  /\ grants' = grants \ {req[h].role}
  /\ Wrote(h, {<<"viewer", req[h].role>>})
  /\ Goto(h, "dropRules")
  /\ UNCHANGED <<left, roles, rules, skills, tuples, req, rows, holder, view, diff, buried>>

\* Mutant of DropRules: the position rules keep naming the role.
DropRulesForgotten(h) ==
  /\ pc[h] = "dropRules"
  /\ Goto(h, "dropRole")
  /\ UNCHANGED <<left, policy, tuples, req, rows, holder, view, diff, history>>

DropRules(h) ==
  /\ pc[h] = "dropRules"
  /\ rules' = rules \ {req[h].role}
  /\ Wrote(h, {"assignee", "role"} \X {req[h].role})
  /\ Goto(h, "dropRole")
  /\ UNCHANGED <<left, roles, skills, grants, tuples, req, rows, holder, view, diff, buried>>

DropRole(h) ==
  /\ pc[h] = "dropRole"
  /\ roles' = roles \ {req[h].role}
  /\ Wrote(h, {<<"role", req[h].role>>})
  /\ buried' = buried \cup {req[h].role}
  /\ Goto(h, "lock")
  /\ UNCHANGED <<left, rules, skills, grants, tuples, req, rows, holder, view, diff>>

-----------------------------------------------------------------------------
\* Projector.Reproject, which reads the policy table by table.

Lock(h) ==
  /\ pc[h] = "lock"
  /\ holder = None
  /\ holder' = h
  /\ view' = EmptyView
  /\ since' = {}
  /\ Goto(h, "readRules")
  /\ UNCHANGED <<left, policy, tuples, req, rows, diff, author, buried, clash>>

Read(h, from, to, v) ==
  /\ pc[h] = from
  /\ view' = v
  /\ Goto(h, to)
  /\ UNCHANGED <<left, policy, tuples, req, rows, holder, diff, history>>

ReadPolicy(h) ==
  \/ Read(h, "readRules", "readSkills", [view EXCEPT !.rules = rules])
  \/ Read(h, "readSkills", "readRoles", [view EXCEPT !.skills = skills])
  \/ Read(h, "readRoles", "readGrants", [view EXCEPT !.roles = roles])
  \/ Read(h, "readGrants", "readTuples", [view EXCEPT !.grants = grants])

ReadTuples(h) ==
  /\ pc[h] = "readTuples"
  /\ diff' = Reconcile(tuples, Desired(view))
  /\ Goto(h, "apply")
  /\ UNCHANGED <<left, policy, tuples, req, rows, holder, view, history>>

Release ==
  /\ holder' = None
  /\ view' = EmptyView /\ diff' = NoDiff
  /\ since' = {}

\* ApplyDiff: one OpenFGA Write, all or nothing.
Applied == (tuples \ diff.deletes) \cup diff.writes

\* The answer "ok" covers what this request wrote, and whatever an earlier,
\* failed request wrote before this projection took the mutex.
Apply(h) ==
  /\ pc[h] = "apply"
  /\ Acceptable(diff.writes)
  /\ tuples' = Applied
  /\ author' = [i \in Items |->
       IF author[i] = h \/ (author[i] = "failed" /\ i \notin since)
         THEN None ELSE author[i]]
  /\ Release
  /\ Answer(h)
  /\ UNCHANGED <<left, policy, rows, buried, clash>>

\* Mutant of Abort: the mutex is not released.
AbortHoldingLock(h) ==
  /\ pc[h] \notin {"idle", "down"}
  /\ Answer(h)
  /\ author' = Failed(h)
  /\ rows' = [rows EXCEPT ![h] = [s \in Skills |-> None]]
  /\ UNCHANGED <<left, policy, tuples, holder, view, diff, since, buried, clash>>

\* Any statement or OpenFGA call fails, or the client leaves and cancels the
\* request's context: an error answer and no further step. A write that is on
\* its way to OpenFGA may have been carried out.
Abort(h) ==
  /\ pc[h] \notin {"idle", "down"}
  /\ \/ pc[h] = "apply" /\ Acceptable(diff.writes) /\ tuples' = Applied
     \/ UNCHANGED tuples
  /\ Answer(h)
  /\ author' = Failed(h)
  /\ rows' = [rows EXCEPT ![h] = [s \in Skills |-> None]]
  /\ IF holder = h THEN Release ELSE UNCHANGED <<holder, view, diff, since>>
  /\ UNCHANGED <<left, policy, buried, clash>>

-----------------------------------------------------------------------------
\* The server dies; Assemble creates a new OpenFGA store and projects into it
\* before it serves, and does not start when that fails.

Crash ==
  /\ \E h \in Handlers : pc[h] # "down"
  /\ pc' = [h \in Handlers |-> "down"]
  /\ req' = [h \in Handlers |-> None]
  /\ rows' = [h \in Handlers |-> [s \in Skills |-> None]]
  /\ tuples' = {}
  /\ holder' = None /\ view' = EmptyView /\ diff' = NoDiff
  /\ author' = [i \in Items |-> "failed"]
  /\ since' = {}
  /\ UNCHANGED <<left, policy, buried, clash>>

Boot ==
  /\ \A h \in Handlers : pc[h] = "down"
  /\ Acceptable(Desired(Policy))
  /\ tuples' = Desired(Policy)
  /\ pc' = [h \in Handlers |-> "idle"]
  /\ author' = [i \in Items |-> None]
  /\ UNCHANGED <<left, policy, req, rows, holder, view, diff, since, buried, clash>>

Serve(h, q) ==
  \/ CreateRole(h, q) \/ UpdateRole(h, q) \/ ReplaceRules(h, q)
  \/ PutSkill(h, q) \/ DeleteSkill(h, q)
  \/ AddGrant(h, q) \/ RemoveGrant(h, q) \/ DeleteRole(h, q)

Continue(h) ==
  \/ \E s \in Skills : StripSkill(h, s)
  \/ Stripped(h) \/ DropGrants(h) \/ DropRules(h) \/ DropRole(h)
  \/ Lock(h) \/ ReadPolicy(h) \/ ReadTuples(h) \/ Apply(h)

\* A seeded policy that names known roles only, projected.
Init ==
  /\ roles = Roles \ Malformed
  /\ rules \in SUBSET roles
  /\ skills \in {[s \in Skills |-> [roles |-> rs, body |-> b]] :
                   rs \in SUBSET roles, b \in Bodies}
  /\ grants \in SUBSET roles
  /\ tuples = Desired(Policy)
  /\ pc = [h \in Handlers |-> "idle"]
  /\ req = [h \in Handlers |-> None]
  /\ left = MaxRequests
  /\ rows = [h \in Handlers |-> [s \in Skills |-> None]]
  /\ holder = None /\ view = EmptyView /\ diff = NoDiff
  /\ author = [i \in Items |-> None]
  /\ since = {} /\ buried = {} /\ clash = FALSE

Next ==
  \/ \E h \in Handlers, q \in Requests : Serve(h, q)
  \/ \E h \in Handlers : Continue(h) \/ Abort(h)
  \/ Crash
  \/ Boot

Spec == Init /\ [][Next]_vars

-----------------------------------------------------------------------------
\* Properties.

SkillTuplesOf(s, ts) == {t \in ts : t[1] \in {"exposed_by", "usable_by"} /\ t[2] = s}

Agrees(i) ==
  CASE i[1] = "role"     -> <<"role", i[2], None>> \in tuples <=> i[2] \in roles \cup rules
    [] i[1] = "assignee" -> <<"assignee", i[2], None>> \in tuples <=> i[2] \in rules
    [] i[1] = "viewer"   -> <<"viewer", i[2], None>> \in tuples <=> i[2] \in grants
    [] i[1] = "skill"    -> SkillTuplesOf(i[2], tuples) =
                              SkillTuplesOf(i[2], SkillTuples(skills))

\* "ok" means in force: an item whose last writer was answered "ok", or that
\* nobody touched, is granted by OpenFGA exactly when the tables say so, however
\* the projections of other edits interleave, fail or die. A failed edit is
\* covered by the next one that succeeds.
OkMeansInForce == \A i \in Items : author[i] = None => Agrees(i)

Traces(r) ==
  \/ r \in rules \cup grants
  \/ \E s \in Skills : skills[s] # None /\ r \in skills[s].roles

\* Once the last statement of a role's deletion has run, no rule, grant or skill
\* names the role, until a request does.
DeletedRoleLeavesNoTrace == \A r \in buried : ~Traces(r)

\* The same, of deletions in which no other request's statement fell.
CascadeComplete == ~clash => DeletedRoleLeavesNoTrace

=============================================================================
