----------------------- MODULE PolicyProjectionProofs -----------------------
(***************************************************************************)
(* Theorems of PolicyProjection for every set of roles, skills, handlers   *)
(* and requests.                                                           *)
(***************************************************************************)
EXTENDS PolicyProjection, TLAPS

-----------------------------------------------------------------------------
\* The inductive invariant.

\* A handler in a cascade deletes a role.
RequestInv ==
  \A h \in Handlers :
    pc[h] \in Cascading => req[h] \in Requests /\ req[h].op = "deleteRole" /\ req[h].role \in Roles

\* The projection is at one of the places.
At(places) == holder # None /\ pc[holder] \in places

AfterGrants == {"readTuples", "apply"}
AfterRoles == {"readGrants"} \cup AfterGrants
AfterSkills == {"readRoles"} \cup AfterRoles
AfterRules == {"readSkills"} \cup AfterSkills

\* What was not written since the projection began is in its view as it is in
\* the tables it has read.
ViewInv ==
  /\ At(AfterRules) => \A r \in Roles :
       <<"assignee", r>> \notin since \/ <<"role", r>> \notin since => (r \in view.rules <=> r \in rules)
  /\ At(AfterSkills) => \A s \in Skills :
       <<"skill", s>> \notin since => view.skills[s] = skills[s]
  /\ At(AfterRoles) => \A r \in Roles :
       <<"role", r>> \notin since => (r \in view.roles <=> r \in roles)
  /\ At(AfterGrants) => \A r \in Roles :
       <<"viewer", r>> \notin since => (r \in view.grants <=> r \in grants)

\* The differences lead to the view: nobody else writes to OpenFGA.
DiffInv == At({"apply"}) => Applied = Desired(view)

\* An item written during a projection has a writer who is not answered by it.
SinceInv ==
  /\ \A i \in since : author[i] \notin {None, holder}
  /\ holder = None => since = {}

\* How far a role's deletion that nothing interrupted has come.
CascadeAt(h) ==
  /\ pc[h] = "strip" =>
       \A s \in Skills :
         /\ rows[h][s] # None => rows[h][s] = skills[s]
         /\ skills[s] # None /\ req[h].role \in skills[s].roles => rows[h][s] # None
  /\ pc[h] \in {"dropGrants", "dropRules", "dropRole"} =>
       \A s \in Skills : skills[s] # None => req[h].role \notin skills[s].roles
  /\ pc[h] \in {"dropRules", "dropRole"} => req[h].role \notin grants
  /\ pc[h] = "dropRole" => req[h].role \notin rules

CascadeInv ==
  ~clash => DeletedRoleLeavesNoTrace /\ \A h \in Handlers : CascadeAt(h)

PolicyInv ==
  /\ TypeOK /\ RequestInv
  /\ SinceInv /\ ViewInv /\ DiffInv /\ OkMeansInForce
  /\ CascadeInv

-----------------------------------------------------------------------------
\* Tuples.

LEMMA InSkillTuples ==
  ASSUME NEW sk, NEW x
  PROVE  x \in SkillTuples(sk) <=>
           \E t \in Skills : /\ sk[t] # None
                             /\ \/ x = <<"exposed_by", t, sk[t].body>>
                                \/ \E r \in sk[t].roles : x = <<"usable_by", t, r>>
  BY DEF SkillTuples

\* The tuples of a skill depend on its row only.
LEMMA SkillTuplesLocal ==
  ASSUME NEW sk, NEW sl, NEW s \in Skills, sk[s] = sl[s]
  PROVE  SkillTuplesOf(s, SkillTuples(sk)) \subseteq SkillTuplesOf(s, SkillTuples(sl))
<1> SUFFICES ASSUME NEW x \in SkillTuples(sk), x[1] \in {"exposed_by", "usable_by"}, x[2] = s
             PROVE  x \in SkillTuples(sl)
  BY DEF SkillTuplesOf
<1>1. PICK t \in Skills : /\ sk[t] # None
                          /\ \/ x = <<"exposed_by", t, sk[t].body>>
                             \/ \E r \in sk[t].roles : x = <<"usable_by", t, r>>
  BY InSkillTuples
<1>2. t = s
  BY <1>1
<1>3. QED
  BY <1>1, <1>2, InSkillTuples

LEMMA SameSkillTuples ==
  ASSUME NEW sk, NEW sl, NEW s \in Skills, sk[s] = sl[s]
  PROVE  SkillTuplesOf(s, SkillTuples(sk)) = SkillTuplesOf(s, SkillTuples(sl))
<1>1. SkillTuplesOf(s, SkillTuples(sk)) \subseteq SkillTuplesOf(s, SkillTuples(sl))
  BY SkillTuplesLocal
<1>2. SkillTuplesOf(s, SkillTuples(sl)) \subseteq SkillTuplesOf(s, SkillTuples(sk))
  BY SkillTuplesLocal
<1>3. QED
  BY <1>1, <1>2

LEMMA DesiredTypes ==
  ASSUME NEW v \in Views
  PROVE  Desired(v) \subseteq Tuples
<1>1. v.rules \subseteq Roles /\ v.roles \subseteq Roles /\ v.grants \subseteq Roles /\ v.skills \in SkillTables
  BY DEF Views
<1>2. OrgTuples(v.rules) \cup ConfigTuples(v.roles, v.grants) \subseteq Tuples
  BY <1>1 DEF OrgTuples, ConfigTuples, Tuples
<1>3. SkillTuples(v.skills) \subseteq Tuples
  <2> SUFFICES ASSUME NEW x \in SkillTuples(v.skills) PROVE x \in Tuples
    OBVIOUS
  <2>1. PICK t \in Skills : /\ v.skills[t] # None
                            /\ \/ x = <<"exposed_by", t, v.skills[t].body>>
                               \/ \E r \in v.skills[t].roles : x = <<"usable_by", t, r>>
    BY InSkillTuples
  <2>2. v.skills[t].body \in Bodies /\ v.skills[t].roles \subseteq Roles
    BY <1>1, <2>1 DEF SkillTables, SkillRows
  <2>3. QED
    BY <2>1, <2>2 DEF Tuples
<1>4. QED
  BY <1>2, <1>3 DEF Desired

\* What the desired tuples say of each kind of item.
LEMMA DesiredSays ==
  ASSUME NEW v
  PROVE  /\ \A r : <<"role", r, None>> \in Desired(v) <=> r \in v.roles \cup v.rules
         /\ \A r : <<"assignee", r, None>> \in Desired(v) <=> r \in v.rules
         /\ \A r : <<"viewer", r, None>> \in Desired(v) <=> r \in v.grants
         /\ \A s : SkillTuplesOf(s, Desired(v)) = SkillTuplesOf(s, SkillTuples(v.skills))
<1>1. \A x \in SkillTuples(v.skills) : x[1] \in {"exposed_by", "usable_by"}
  BY InSkillTuples
<1>2. \A x \in OrgTuples(v.rules) \cup ConfigTuples(v.roles, v.grants) : x[1] \in {"role", "assignee", "viewer"}
  BY DEF OrgTuples, ConfigTuples
<1>3. /\ \A r : <<"role", r, None>> \in Desired(v) <=> r \in v.roles \cup v.rules
      /\ \A r : <<"assignee", r, None>> \in Desired(v) <=> r \in v.rules
      /\ \A r : <<"viewer", r, None>> \in Desired(v) <=> r \in v.grants
  BY <1>1 DEF Desired, OrgTuples, ConfigTuples
<1>4. \A s : SkillTuplesOf(s, Desired(v)) = SkillTuplesOf(s, SkillTuples(v.skills))
  BY <1>2 DEF Desired, SkillTuplesOf
<1>5. QED
  BY <1>3, <1>4

-----------------------------------------------------------------------------
\* Items.

LEMMA ItemKinds ==
  ASSUME NEW i \in Items
  PROVE  \/ i[1] \in {"role", "assignee", "viewer"} /\ i[2] \in Roles /\ i = <<i[1], i[2]>>
         \/ i[1] = "skill" /\ i[2] \in Skills /\ i = <<i[1], i[2]>>
  BY DEF Items

\* View v has item i as the tables will have it.
Matches(v, i) ==
  /\ i[1] \in {"role", "assignee"} => (i[2] \in v.rules <=> i[2] \in rules')
  /\ i[1] = "role" => (i[2] \in v.roles <=> i[2] \in roles')
  /\ i[1] = "viewer" => (i[2] \in v.grants <=> i[2] \in grants')
  /\ i[1] = "skill" => v.skills[i[2]] = skills'[i[2]]

LEMMA MatchAgrees ==
  ASSUME NEW v, tuples' = Desired(v), NEW i \in Items, Matches(v, i)
  PROVE  Agrees(i)'
<1>1. CASE i[1] \in {"role", "assignee", "viewer"}
  BY <1>1, DesiredSays, ItemKinds DEF Matches, Agrees
<1>2. CASE i[1] = "skill"
  <2> DEFINE s == i[2]
             next == skills'
  <2>1. s \in Skills /\ v.skills[s] = next[s]
    BY <1>2, ItemKinds DEF Matches
  <2>2. SkillTuplesOf(s, SkillTuples(v.skills)) = SkillTuplesOf(s, SkillTuples(next))
    <3> HIDE DEF next
    <3>1. QED
      BY <2>1, SameSkillTuples
  <2>3. SkillTuplesOf(s, Desired(v)) = SkillTuplesOf(s, SkillTuples(v.skills))
    BY DesiredSays
  <2>4. SkillTuplesOf(s, tuples)' = SkillTuplesOf(s, SkillTuples(skills))'
    BY <2>2, <2>3 DEF SkillTuplesOf, SkillTuples
  <2>5. QED
    BY <1>2, <2>4 DEF Agrees
<1>3. QED
  BY <1>1, <1>2, ItemKinds

\* The tables say of item i what they said.
Untouched(i) ==
  /\ i[1] \in {"role", "assignee"} => (i[2] \in rules' <=> i[2] \in rules)
  /\ i[1] = "role" => (i[2] \in roles' <=> i[2] \in roles)
  /\ i[1] = "viewer" => (i[2] \in grants' <=> i[2] \in grants)
  /\ i[1] = "skill" => skills'[i[2]] = skills[i[2]]

LEMMA UntouchedAgrees ==
  ASSUME UNCHANGED tuples, NEW i \in Items, Untouched(i), Agrees(i)
  PROVE  Agrees(i)'
<1>1. CASE i[1] \in {"role", "assignee", "viewer"}
  BY <1>1, ItemKinds DEF Untouched, Agrees
<1>2. CASE i[1] = "skill"
  <2> DEFINE s == i[2]
             before == skills
             next == skills'
  <2>1. s \in Skills /\ before[s] = next[s]
    BY <1>2, ItemKinds DEF Untouched
  <2>2. SkillTuplesOf(s, SkillTuples(before)) = SkillTuplesOf(s, SkillTuples(next))
    <3> HIDE DEF next, before
    <3>1. QED
      BY <2>1, SameSkillTuples
  <2>3. SkillTuplesOf(s, tuples) = SkillTuplesOf(s, SkillTuples(before))
    BY <1>2 DEF Agrees
  <2>4. SkillTuplesOf(s, tuples)' = SkillTuplesOf(s, SkillTuples(skills))'
    BY <2>2, <2>3 DEF SkillTuplesOf, SkillTuples
  <2>5. QED
    BY <1>2, <2>4 DEF Agrees
<1>3. QED
  BY <1>1, <1>2, ItemKinds

-----------------------------------------------------------------------------
\* The statements of a handler, in one form.

\* A step of h that writes these items, and nothing that the projection has.
Writes(h, items) ==
  /\ pc[h] \notin Projecting /\ pc' \in [Handlers -> {"lock"} \cup Cascading \cup {"idle", "down"} \cup Projecting]
  /\ pc'[h] \in {"lock"} \cup Cascading
  /\ \A g \in Handlers \ {h} : pc'[g] = pc[g]
  /\ UNCHANGED <<tuples, holder, view, diff>>
  /\ author' \in [Items -> Handlers \cup {None, "failed"}]
  /\ \A i \in Items : author'[i] = IF i \in items THEN h ELSE author[i]
  /\ since' = IF holder = None THEN since ELSE since \cup items
  /\ items \subseteq Items
  /\ \A i \in Items \ items : Untouched(i)
  /\ roles' \cup rules' \cup grants' \cup buried' \subseteq Roles /\ skills' \in SkillTables
  /\ req' \in [Handlers -> Requests \cup {None}] /\ left' \in 0..MaxRequests
  /\ \A g \in Handlers \ {h} : req'[g] = req[g]
  /\ rows' \in [Handlers -> SkillTables] /\ clash' \in BOOLEAN

LEMMA RequestParts ==
  ASSUME NEW q \in Requests
  PROVE  /\ q.op \in {"createRole", "updateRole", "deleteRole", "addGrant", "removeGrant"} => q.role \in Roles
         /\ q.op = "replaceRules" => q.rules \subseteq Roles
         /\ q.op \in {"createSkill", "updateSkill", "deleteSkill"} => q.skill \in Skills
         /\ q.op \in {"createSkill", "updateSkill"} =>
              q.row \in SkillRows /\ q.row.roles \subseteq Roles
  BY PolicyAssumption DEF RequestSpace, SkillRows

\* What is common to the statements that a request begins with.
LEMMA BeginTypes ==
  ASSUME TypeOK, NEW h \in Handlers, NEW q \in Requests, Idle(h, q),
         NEW where \in {"lock", "strip"}, Goto(h, where)
  PROVE  /\ pc[h] \notin Projecting
         /\ pc' \in [Handlers -> {"lock"} \cup Cascading \cup {"idle", "down"} \cup Projecting]
         /\ pc'[h] = where /\ \A g \in Handlers \ {h} : pc'[g] = pc[g]
         /\ req' \in [Handlers -> Requests \cup {None}] /\ req'[h] = q /\ left' \in 0..MaxRequests
         /\ \A g \in Handlers \ {h} : req'[g] = req[g]
  BY PolicyAssumption DEF TypeOK, Idle, Goto, Projecting, Cascading

LEMMA WroteItems ==
  ASSUME TypeOK, NEW h \in Handlers, NEW items \in SUBSET Items, Wrote(h, items)
  PROVE  /\ author' \in [Items -> Handlers \cup {None, "failed"}]
         /\ \A i \in Items : author'[i] = IF i \in items THEN h ELSE author[i]
         /\ since' = IF holder = None THEN since ELSE since \cup items
         /\ clash' \in BOOLEAN
  BY DEF TypeOK, Wrote

LEMMA ServeWrites ==
  ASSUME TypeOK, NEW h \in Handlers, NEW q \in Requests, Serve(h, q)
  PROVE  \E items : Writes(h, items)
<1>0. /\ roles \subseteq Roles /\ rules \subseteq Roles /\ grants \subseteq Roles /\ buried \subseteq Roles
      /\ skills \in SkillTables /\ rows \in [Handlers -> SkillTables] /\ clash \in BOOLEAN
      /\ author \in [Items -> Handlers \cup {None, "failed"}] /\ since \subseteq Items
  BY DEF TypeOK
<1>1. CASE CreateRole(h, q)
  <2> DEFINE items == {<<"role", q.role>>}
  <2>1. Idle(h, q) /\ Goto(h, "lock") /\ Wrote(h, items) /\ q.role \in Roles
        /\ UNCHANGED <<rules, skills, grants, tuples, rows, holder, view, diff>>
        /\ roles' = roles \cup {q.role} /\ buried' \subseteq buried
    BY <1>1, RequestParts DEF CreateRole
  <2>2. items \subseteq Items
    BY <2>1 DEF Items
  <2>3. \A i \in Items \ items : Untouched(i)
    BY <2>1, ItemKinds DEF Untouched
  <2> HIDE DEF items
  <2>4. Writes(h, items)
    BY <1>0, <2>1, <2>2, <2>3, BeginTypes, WroteItems DEF Writes
  <2>5. QED
    BY <2>4
<1>2. CASE UpdateRole(h, q) \/ DeleteRole(h, q)
  <2>1. Idle(h, q) /\ (Goto(h, "lock") \/ Goto(h, "strip"))
        /\ UNCHANGED <<policy, tuples, holder, view, diff, author, since, buried>>
    BY <1>2 DEF UpdateRole, DeleteRole, history
  <2>2. rows' \in [Handlers -> SkillTables] /\ clash' \in BOOLEAN
    <3>1. CASE UpdateRole(h, q)
      BY <1>0, <3>1 DEF UpdateRole, history
    <3>2. CASE DeleteRole(h, q)
      <4>1. [s \in Skills |-> IF skills[s] # None /\ q.role \in skills[s].roles THEN skills[s] ELSE None]
              \in SkillTables
        BY <1>0 DEF SkillTables
      <4>2. QED
        BY <1>0, <3>2, <4>1 DEF DeleteRole
    <3>3. QED
      BY <1>2, <3>1, <3>2
  <2>3. \A i \in Items : Untouched(i)
    BY <2>1 DEF Untouched, policy
  <2>4. Writes(h, {})
    BY <1>0, <2>1, <2>2, <2>3, BeginTypes DEF Writes, policy, Cascading
  <2>5. QED
    BY <2>4
<1>3. CASE ReplaceRules(h, q)
  <2> DEFINE items == {"assignee", "role"} \X (rules \cup q.rules)
  <2>1. Idle(h, q) /\ Goto(h, "lock") /\ Wrote(h, items) /\ q.rules \subseteq Roles
        /\ UNCHANGED <<roles, skills, grants, tuples, rows, holder, view, diff>>
        /\ rules' = q.rules /\ buried' \subseteq buried
    BY <1>3, RequestParts DEF ReplaceRules, Idle
  <2>2. items \subseteq Items
    BY <1>0, <2>1 DEF Items
  <2>3. ASSUME NEW i \in Items \ items PROVE Untouched(i)
    BY <2>1, ItemKinds DEF Untouched
  <2> HIDE DEF items
  <2>4. Writes(h, items)
    BY <1>0, <2>1, <2>2, <2>3, BeginTypes, WroteItems DEF Writes
  <2>5. QED
    BY <2>4
<1>4. CASE PutSkill(h, q) \/ DeleteSkill(h, q)
  <2> DEFINE items == SkillItems({q.skill})
  <2>1. Idle(h, q) /\ Goto(h, "lock") /\ Wrote(h, items) /\ q.skill \in Skills
        /\ UNCHANGED <<roles, rules, grants, tuples, rows, holder, view, diff>>
        /\ buried' \subseteq buried
        /\ \E row \in SkillRows \cup {None} : skills' = [skills EXCEPT ![q.skill] = row]
    BY <1>4, RequestParts DEF PutSkill, DeleteSkill, Idle
  <2>2. items \subseteq Items
    BY <2>1 DEF Items, SkillItems
  <2>3. ASSUME NEW i \in Items \ items PROVE Untouched(i)
    BY <1>0, <2>1, ItemKinds DEF Untouched, SkillItems, SkillTables
  <2>4. skills' \in SkillTables
    BY <1>0, <2>1 DEF SkillTables
  <2> HIDE DEF items
  <2>5. Writes(h, items)
    BY <1>0, <2>1, <2>2, <2>3, <2>4, BeginTypes, WroteItems DEF Writes
  <2>6. QED
    BY <2>5
<1>5. CASE AddGrant(h, q) \/ RemoveGrant(h, q)
  <2> DEFINE items == {<<"viewer", q.role>>}
  <2>1. Idle(h, q) /\ Goto(h, "lock") /\ Wrote(h, items) /\ q.role \in Roles
        /\ UNCHANGED <<roles, rules, skills, tuples, rows, holder, view, diff>>
        /\ buried' \subseteq buried /\ (grants' = grants \cup {q.role} \/ grants' = grants \ {q.role})
    BY <1>5, RequestParts DEF AddGrant, RemoveGrant, Idle
  <2>2. items \subseteq Items
    BY <2>1 DEF Items
  <2>3. ASSUME NEW i \in Items \ items PROVE Untouched(i)
    BY <2>1, ItemKinds DEF Untouched
  <2> HIDE DEF items
  <2>4. Writes(h, items)
    BY <1>0, <2>1, <2>2, <2>3, BeginTypes, WroteItems DEF Writes
  <2>5. QED
    BY <2>4
<1>6. QED
  BY <1>1, <1>2, <1>3, <1>4, <1>5 DEF Serve

\* What is common to the statements of a cascade.
LEMMA CascadeTypes ==
  ASSUME TypeOK, NEW h \in Handlers, pc[h] \in Cascading,
         NEW where \in {"lock"} \cup Cascading, Goto(h, where)
  PROVE  /\ pc[h] \notin Projecting
         /\ pc' \in [Handlers -> {"lock"} \cup Cascading \cup {"idle", "down"} \cup Projecting]
         /\ pc'[h] = where /\ \A g \in Handlers \ {h} : pc'[g] = pc[g]
  BY DEF TypeOK, Goto, Projecting, Cascading

\* A cascade either goes on or, at a skill that is gone, ends with an error.
LEMMA CascadeWrites ==
  ASSUME TypeOK, RequestInv, NEW h \in Handlers,
         \/ \E s \in Skills : StripSkill(h, s) /\ skills[s] # None
         \/ Stripped(h) \/ DropGrants(h) \/ DropRules(h) \/ DropRole(h)
  PROVE  \E items : Writes(h, items)
<1>0. /\ roles \subseteq Roles /\ rules \subseteq Roles /\ grants \subseteq Roles /\ buried \subseteq Roles
      /\ skills \in SkillTables /\ rows \in [Handlers -> SkillTables] /\ clash \in BOOLEAN
      /\ author \in [Items -> Handlers \cup {None, "failed"}] /\ since \subseteq Items
      /\ req \in [Handlers -> Requests \cup {None}] /\ left \in 0..MaxRequests
      /\ pc \in [Handlers -> {"lock"} \cup Cascading \cup {"idle", "down"} \cup Projecting]
  BY DEF TypeOK
<1>1. pc[h] \in Cascading /\ req[h].role \in Roles
  BY DEF StripSkill, Stripped, DropGrants, DropRules, DropRole, Cascading, RequestInv
<1>2. ASSUME NEW s \in Skills, StripSkill(h, s), skills[s] # None PROVE \E items : Writes(h, items)
  <2> DEFINE items == SkillItems({s})
             row == [roles |-> rows[h][s].roles \ {req[h].role}, body |-> rows[h][s].body]
  <2>1. /\ Wrote(h, items) /\ UNCHANGED <<pc, req, left, roles, rules, grants, tuples, holder, view, diff, buried>>
        /\ rows' = [rows EXCEPT ![h][s] = None] /\ skills' = [skills EXCEPT ![s] = row]
        /\ pc[h] = "strip" /\ rows[h][s] # None
    BY <1>2 DEF StripSkill
  <2>2. rows[h][s] \in SkillRows /\ row \in SkillRows
    BY <1>0, <2>1 DEF SkillTables, SkillRows
  <2>3. items \subseteq Items
    BY DEF Items, SkillItems
  <2>4. ASSUME NEW i \in Items \ items PROVE Untouched(i)
    BY <1>0, <2>1, ItemKinds DEF Untouched, SkillItems, SkillTables
  <2>5. skills' \in SkillTables /\ rows' \in [Handlers -> SkillTables]
    BY <1>0, <2>1, <2>2 DEF SkillTables
  <2> HIDE DEF items, row
  <2>6. pc[h] \notin Projecting /\ pc'[h] \in {"lock"} \cup Cascading
    BY <2>1 DEF Projecting, Cascading
  <2>7. Writes(h, items)
    BY <1>0, <2>1, <2>3, <2>4, <2>5, <2>6, WroteItems DEF Writes
  <2>8. QED
    BY <2>7
<1>3. CASE Stripped(h)
  <2>1. Goto(h, "dropGrants")
        /\ UNCHANGED <<left, policy, tuples, req, rows, holder, view, diff, history>>
    BY <1>3 DEF Stripped
  <2>2. \A i \in Items : Untouched(i)
    BY <2>1 DEF Untouched, policy
  <2>3. "dropGrants" \in Cascading
    BY DEF Cascading
  <2>4. Writes(h, {})
    BY <1>0, <1>1, <2>1, <2>2, <2>3, CascadeTypes DEF Writes, policy, history
  <2>5. QED
    BY <2>4
<1>4. CASE DropGrants(h)
  <2> DEFINE items == {<<"viewer", req[h].role>>}
  <2>1. Goto(h, "dropRules") /\ Wrote(h, items) /\ grants' = grants \ {req[h].role}
        /\ UNCHANGED <<left, roles, rules, skills, tuples, req, rows, holder, view, diff, buried>>
    BY <1>4 DEF DropGrants
  <2>2. items \subseteq Items
    BY <1>1 DEF Items
  <2>3. ASSUME NEW i \in Items \ items PROVE Untouched(i)
    BY <2>1, ItemKinds DEF Untouched
  <2>4. "dropRules" \in Cascading
    BY DEF Cascading
  <2> HIDE DEF items
  <2>5. Writes(h, items)
    BY <1>0, <1>1, <2>1, <2>2, <2>3, <2>4, CascadeTypes, WroteItems DEF Writes
  <2>6. QED
    BY <2>5
<1>5. CASE DropRules(h)
  <2> DEFINE items == {"assignee", "role"} \X {req[h].role}
  <2>1. Goto(h, "dropRole") /\ Wrote(h, items) /\ rules' = rules \ {req[h].role}
        /\ UNCHANGED <<left, roles, skills, grants, tuples, req, rows, holder, view, diff, buried>>
    BY <1>5 DEF DropRules
  <2>2. items \subseteq Items
    BY <1>1 DEF Items
  <2>3. ASSUME NEW i \in Items \ items PROVE Untouched(i)
    BY <2>1, ItemKinds DEF Untouched
  <2>4. "dropRole" \in Cascading
    BY DEF Cascading
  <2> HIDE DEF items
  <2>5. Writes(h, items)
    BY <1>0, <1>1, <2>1, <2>2, <2>3, <2>4, CascadeTypes, WroteItems DEF Writes
  <2>6. QED
    BY <2>5
<1>6. CASE DropRole(h)
  <2> DEFINE items == {<<"role", req[h].role>>}
  <2>1. Goto(h, "lock") /\ Wrote(h, items) /\ roles' = roles \ {req[h].role}
        /\ UNCHANGED <<left, rules, skills, grants, tuples, req, rows, holder, view, diff>>
        /\ buried' = buried \cup {req[h].role}
    BY <1>6 DEF DropRole
  <2>2. items \subseteq Items
    BY <1>1 DEF Items
  <2>3. ASSUME NEW i \in Items \ items PROVE Untouched(i)
    BY <2>1, ItemKinds DEF Untouched
  <2> HIDE DEF items
  <2>4. Writes(h, items)
    BY <1>0, <1>1, <2>1, <2>2, <2>3, CascadeTypes, WroteItems DEF Writes
  <2>5. QED
    BY <2>4
<1>7. QED
  BY <1>2, <1>3, <1>4, <1>5, <1>6

\* A request that ends with an error, which may have reached OpenFGA.
Fails(h) ==
  /\ pc[h] \notin {"idle", "down"}
  /\ Answer(h) /\ author' = Failed(h)
  /\ rows' \in [Handlers -> SkillTables]
  /\ UNCHANGED <<left, policy, buried, clash>>
  /\ IF holder = h THEN Release ELSE UNCHANGED <<holder, view, diff, since>>
  /\ UNCHANGED tuples \/ (pc[h] = "apply" /\ tuples' = Applied)

LEMMA FailingSteps ==
  ASSUME TypeOK, NEW h \in Handlers,
         Abort(h) \/ \E s \in Skills : StripSkill(h, s) /\ skills[s] = None
  PROVE  Fails(h)
<1>0. rows \in [Handlers -> SkillTables]
  BY DEF TypeOK
<1>1. CASE Abort(h)
  <2>1. [s \in Skills |-> None] \in SkillTables
    BY DEF SkillTables
  <2>2. rows' = [rows EXCEPT ![h] = [s \in Skills |-> None]]
    BY <1>1 DEF Abort
  <2>3. rows' \in [Handlers -> SkillTables]
    BY <1>0, <2>1, <2>2
  <2>4. QED
    BY <1>1, <2>3 DEF Abort, Fails
<1>2. ASSUME NEW s \in Skills, StripSkill(h, s), skills[s] = None PROVE Fails(h)
  <2>1. rows' \in [Handlers -> SkillTables]
    BY <1>0, <1>2 DEF StripSkill, SkillTables
  <2>2. holder # h
    BY <1>2 DEF StripSkill, TypeOK, Projecting
  <2>3. QED
    BY <1>2, <2>1, <2>2 DEF StripSkill, Fails, policy
<1>3. QED
  BY <1>1, <1>2

-----------------------------------------------------------------------------
\* Every step keeps the types.

LEMMA WritesTypes ==
  ASSUME TypeOK, NEW h \in Handlers, NEW items, Writes(h, items)
  PROVE  TypeOK'
<1>1. /\ roles' \subseteq Roles /\ rules' \subseteq Roles /\ grants' \subseteq Roles /\ buried' \subseteq Roles
      /\ skills' \in SkillTables /\ rows' \in [Handlers -> SkillTables]
      /\ req' \in [Handlers -> Requests \cup {None}] /\ left' \in 0..MaxRequests /\ clash' \in BOOLEAN
      /\ author' \in [Items -> Handlers \cup {None, "failed"}]
  BY DEF Writes
<1>2. since' \subseteq Items
  BY DEF Writes, TypeOK
<1>3. /\ tuples' \subseteq Tuples
      /\ view' \in Views
      /\ diff'.writes \subseteq Tuples /\ diff'.deletes \subseteq Tuples
      /\ holder' \in Handlers \cup {None}
  BY DEF Writes, TypeOK
<1>4. pc' \in [Handlers -> {"idle", "lock", "down"} \cup Projecting \cup Cascading]
  BY DEF Writes
<1>5. \A g \in Handlers : pc'[g] \in Projecting <=> holder' = g
  BY DEF Writes, TypeOK, Projecting, Cascading
<1>6. QED
  BY <1>1, <1>2, <1>3, <1>4, <1>5 DEF TypeOK, SkillTables

LEMMA EmptyTypes ==
  /\ EmptyView \in Views
  /\ NoDiff.writes = {} /\ NoDiff.deletes = {}
  BY DEF EmptyView, NoDiff, SkillTables, Views

LEMMA AppliedTypes ==
  ASSUME TypeOK
  PROVE  Applied \subseteq Tuples
  BY DEF TypeOK, Applied

LEMMA ReleaseTypes ==
  ASSUME Release
  PROVE  /\ view' \in Views
         /\ diff'.writes \subseteq Tuples /\ diff'.deletes \subseteq Tuples
         /\ holder' = None /\ since' = {}
  BY EmptyTypes DEF Release

LEMMA FailsTypes ==
  ASSUME TypeOK, NEW h \in Handlers, Fails(h)
  PROVE  TypeOK'
<1>1. /\ roles' \subseteq Roles /\ rules' \subseteq Roles /\ grants' \subseteq Roles /\ buried' \subseteq Roles
      /\ skills' \in SkillTables /\ rows' \in [Handlers -> SkillTables]
      /\ left' \in 0..MaxRequests /\ clash' \in BOOLEAN
  BY DEF Fails, TypeOK, policy
<1>2. req' \in [Handlers -> Requests \cup {None}]
      /\ pc' \in [Handlers -> {"idle", "lock", "down"} \cup Projecting \cup Cascading]
      /\ pc' = [pc EXCEPT ![h] = "idle"]
  BY DEF Fails, TypeOK, Answer, Goto
<1>3. author' \in [Items -> Handlers \cup {None, "failed"}]
  BY DEF Fails, Failed, TypeOK
<1>4. tuples' \subseteq Tuples
  BY AppliedTypes DEF Fails, TypeOK
<1>5. /\ view' \in Views
      /\ diff'.writes \subseteq Tuples /\ diff'.deletes \subseteq Tuples
      /\ since' \subseteq Items
      /\ holder' \in Handlers \cup {None} /\ holder' = IF holder = h THEN None ELSE holder
  <2>1. CASE holder = h
    BY <2>1, ReleaseTypes DEF Fails
  <2>2. CASE holder # h
    BY <2>2 DEF Fails, TypeOK
  <2>3. QED
    BY <2>1, <2>2
<1>6. \A g \in Handlers : pc'[g] \in Projecting <=> holder' = g
  BY <1>2, <1>5, PolicyAssumption DEF TypeOK, Projecting
<1>7. QED
  BY <1>1, <1>2, <1>3, <1>4, <1>5, <1>6 DEF TypeOK, SkillTables

\* The steps of the projector between taking the mutex and the write.
LEMMA ReadingTypes ==
  ASSUME TypeOK, NEW h \in Handlers, Lock(h) \/ ReadPolicy(h) \/ ReadTuples(h)
  PROVE  TypeOK'
<1>1. /\ roles' \subseteq Roles /\ rules' \subseteq Roles /\ grants' \subseteq Roles /\ buried' \subseteq Roles
      /\ skills' \in SkillTables /\ rows' \in [Handlers -> SkillTables]
      /\ req' \in [Handlers -> Requests \cup {None}] /\ left' \in 0..MaxRequests /\ clash' \in BOOLEAN
      /\ author' \in [Items -> Handlers \cup {None, "failed"}] /\ tuples' \subseteq Tuples
      /\ since' \subseteq Items
  BY DEF Lock, ReadPolicy, Read, ReadTuples, TypeOK, policy, history
<1>2. /\ pc' \in [Handlers -> {"idle", "lock", "down"} \cup Projecting \cup Cascading]
      /\ pc'[h] \in Projecting /\ \A g \in Handlers \ {h} : pc'[g] = pc[g]
  BY DEF Lock, ReadPolicy, Read, ReadTuples, TypeOK, Goto, Projecting
<1>3. holder' = h /\ holder \in {None, h}
  BY DEF Lock, ReadPolicy, Read, ReadTuples, TypeOK, Projecting
<1>4. \A g \in Handlers : pc'[g] \in Projecting <=> holder' = g
  BY <1>2, <1>3, PolicyAssumption DEF TypeOK
<1>5. view' \in Views
  <2>1. CASE Lock(h)
    BY <2>1, EmptyTypes DEF Lock
  <2>2. CASE ReadPolicy(h)
    BY <2>2 DEF ReadPolicy, Read, TypeOK, Views
  <2>3. CASE ReadTuples(h)
    BY <2>3 DEF ReadTuples, TypeOK
  <2>4. QED
    BY <2>1, <2>2, <2>3
<1>6. diff'.writes \subseteq Tuples /\ diff'.deletes \subseteq Tuples
  <2>1. CASE ReadTuples(h)
    BY <2>1, DesiredTypes DEF ReadTuples, Reconcile, TypeOK, Views
  <2>2. CASE Lock(h) \/ ReadPolicy(h)
    BY <2>2 DEF Lock, ReadPolicy, Read, TypeOK
  <2>3. QED
    BY <2>1, <2>2
<1>7. QED
  BY <1>1, <1>2, <1>3, <1>4, <1>5, <1>6 DEF TypeOK, SkillTables

LEMMA ApplyTypes ==
  ASSUME TypeOK, NEW h \in Handlers, Apply(h)
  PROVE  TypeOK'
<1>1. /\ roles' \subseteq Roles /\ rules' \subseteq Roles /\ grants' \subseteq Roles /\ buried' \subseteq Roles
      /\ skills' \in SkillTables /\ rows' \in [Handlers -> SkillTables]
      /\ left' \in 0..MaxRequests /\ clash' \in BOOLEAN
  BY DEF Apply, TypeOK, policy
<1>2. /\ req' \in [Handlers -> Requests \cup {None}]
      /\ pc' \in [Handlers -> {"idle", "lock", "down"} \cup Projecting \cup Cascading]
      /\ pc' = [pc EXCEPT ![h] = "idle"]
  BY DEF Apply, TypeOK, Answer, Goto
<1>3. author' \in [Items -> Handlers \cup {None, "failed"}]
  BY DEF Apply, TypeOK
<1>4. tuples' \subseteq Tuples
  BY AppliedTypes DEF Apply
<1>5. holder = h
  BY DEF Apply, TypeOK, Projecting
<1>6. \A g \in Handlers : pc'[g] \in Projecting <=> holder' = g
  BY <1>2, <1>5, ReleaseTypes, PolicyAssumption DEF Apply, TypeOK, Projecting
<1>7. QED
  BY <1>1, <1>2, <1>3, <1>4, <1>6, ReleaseTypes DEF TypeOK, SkillTables, Apply

LEMMA RestartTypes ==
  ASSUME TypeOK, Crash \/ Boot
  PROVE  TypeOK'
<1>1. CASE Crash
  <2>1. [s \in Skills |-> None] \in SkillTables
    BY DEF SkillTables
  <2>2. \A g \in Handlers : pc'[g] \notin Projecting /\ holder' # g
    BY <1>1, PolicyAssumption DEF Crash, Projecting
  <2>3. /\ rows' \in [Handlers -> SkillTables] /\ req' \in [Handlers -> Requests \cup {None}]
        /\ pc' \in [Handlers -> {"idle", "lock", "down"} \cup Projecting \cup Cascading]
        /\ author' \in [Items -> Handlers \cup {None, "failed"}]
    BY <1>1, <2>1 DEF Crash
  <2>4. QED
    BY <1>1, <2>2, <2>3, EmptyTypes DEF Crash, TypeOK, policy, SkillTables
<1>2. CASE Boot
  <2>1. Policy \in Views
    BY DEF TypeOK, Policy, Views
  <2>2. tuples' \subseteq Tuples
    BY <1>2, <2>1, DesiredTypes DEF Boot
  <2>3. \A g \in Handlers : pc'[g] \notin Projecting /\ holder' # g
    BY <1>2 DEF Boot, Projecting, TypeOK
  <2>4. /\ pc' \in [Handlers -> {"idle", "lock", "down"} \cup Projecting \cup Cascading]
        /\ author' \in [Items -> Handlers \cup {None, "failed"}]
    BY <1>2 DEF Boot
  <2>5. QED
    BY <1>2, <2>2, <2>3, <2>4 DEF Boot, TypeOK, policy, SkillTables
<1>3. QED
  BY <1>1, <1>2

-----------------------------------------------------------------------------
\* Every step keeps the deletion requests of the cascades.

LEMMA RequestsKept ==
  ASSUME TypeOK, RequestInv,
         UNCHANGED <<pc, req>>
           \/ \E h \in Handlers : /\ \A g \in Handlers \ {h} : pc'[g] = pc[g] /\ req'[g] = req[g]
                                  /\ \/ pc'[h] \notin Cascading
                                     \/ pc[h] \in Cascading /\ UNCHANGED req
  PROVE  RequestInv'
  BY DEF RequestInv, Cascading

LEMMA StepKeepsRequests ==
  ASSUME TypeOK, RequestInv, [Next]_vars
  PROVE  RequestInv'
<1>0. /\ pc \in [Handlers -> {"idle", "lock", "down"} \cup Projecting \cup Cascading]
      /\ req \in [Handlers -> Requests \cup {None}]
  BY DEF TypeOK
<1>1. ASSUME NEW h \in Handlers, NEW q \in Requests, Serve(h, q), ~DeleteRole(h, q) PROVE RequestInv'
  BY <1>0, <1>1, RequestsKept
     DEF Serve, CreateRole, UpdateRole, ReplaceRules, PutSkill, DeleteSkill, AddGrant, RemoveGrant,
         Idle, Goto, Cascading
<1>2. ASSUME NEW h \in Handlers, NEW q \in Requests, DeleteRole(h, q) PROVE RequestInv'
  <2>1. /\ req' = [req EXCEPT ![h] = q] /\ pc' = [pc EXCEPT ![h] = "strip"]
        /\ q.op = "deleteRole" /\ q.role \in Roles
    BY <1>2, RequestParts DEF DeleteRole, Idle, Goto
  <2>2. QED
    BY <1>0, <2>1 DEF RequestInv
<1>3. ASSUME NEW h \in Handlers, Stripped(h) \/ DropGrants(h) \/ DropRules(h) \/ DropRole(h) PROVE RequestInv'
  BY <1>0, <1>3, RequestsKept DEF Stripped, DropGrants, DropRules, DropRole, Goto, Cascading
<1>4. ASSUME NEW h \in Handlers, NEW s \in Skills, StripSkill(h, s) PROVE RequestInv'
  BY <1>0, <1>4, RequestsKept DEF StripSkill, Answer, Goto, Cascading
<1>5. ASSUME NEW h \in Handlers, Lock(h) \/ ReadPolicy(h) \/ ReadTuples(h) PROVE RequestInv'
  BY <1>0, <1>5, RequestsKept DEF Lock, ReadPolicy, Read, ReadTuples, Goto, Cascading
<1>6. ASSUME NEW h \in Handlers, Apply(h) \/ Abort(h) PROVE RequestInv'
  BY <1>0, <1>6, RequestsKept DEF Apply, Abort, Answer, Goto, Cascading
<1>7. CASE Crash \/ Boot
  BY <1>7 DEF Crash, Boot, RequestInv, Cascading
<1>8. CASE UNCHANGED vars
  BY <1>8, RequestsKept DEF vars
<1>9. QED
  BY <1>1, <1>2, <1>3, <1>4, <1>5, <1>6, <1>7, <1>8 DEF Next, Continue

\* The steps of the system, as the forms that the other lemmas speak of.
LEMMA StepForms ==
  ASSUME TypeOK, RequestInv, [Next]_vars
  PROVE  \/ \E h \in Handlers : \E items : Writes(h, items)
         \/ \E h \in Handlers : Fails(h)
         \/ \E h \in Handlers : Lock(h) \/ ReadPolicy(h) \/ ReadTuples(h)
         \/ \E h \in Handlers : Apply(h)
         \/ Crash \/ Boot \/ UNCHANGED vars
<1>1. ASSUME NEW h \in Handlers, NEW s \in Skills, StripSkill(h, s)
      PROVE  Fails(h) \/ \E items : Writes(h, items)
  BY <1>1, FailingSteps, CascadeWrites
<1>2. ASSUME NEW h \in Handlers, Stripped(h) \/ DropGrants(h) \/ DropRules(h) \/ DropRole(h)
      PROVE  \E items : Writes(h, items)
  BY <1>2, CascadeWrites
<1>3. QED
  BY <1>1, <1>2, ServeWrites, FailingSteps DEF Next, Continue

LEMMA StepKeepsTypes ==
  ASSUME TypeOK, RequestInv, [Next]_vars
  PROVE  TypeOK'
<1>1. CASE UNCHANGED vars
  BY <1>1 DEF vars, policy, history, TypeOK, SkillTables
<1>2. QED
  BY <1>1, StepForms, WritesTypes, FailsTypes, ReadingTypes, ApplyTypes, RestartTypes

-----------------------------------------------------------------------------
\* Every step keeps what is known of the projection that runs, and the answers.

\* What the projection knows, without the answers.
ProjectionInv == SinceInv /\ ViewInv /\ DiffInv

\* A step after which no projection runs.
LEMMA NothingRuns ==
  ASSUME holder' = None, since' = {}
  PROVE  ProjectionInv'
  BY DEF ProjectionInv, SinceInv, ViewInv, DiffInv, At

LEMMA WritesProjection ==
  ASSUME TypeOK, ProjectionInv, NEW h \in Handlers, NEW items, Writes(h, items)
  PROVE  ProjectionInv'
<1>0. h # holder /\ h # None /\ since \subseteq Items
  BY PolicyAssumption DEF Writes, TypeOK
<1>1. CASE holder = None
  BY <1>1, NothingRuns DEF Writes, ProjectionInv, SinceInv
<1>2. CASE holder # None
  <2>1. /\ holder' = holder /\ pc'[holder] = pc[holder] /\ view' = view /\ UNCHANGED <<tuples, diff>>
        /\ since' = since \cup items
    BY <1>0, <1>2 DEF Writes, TypeOK
  <2>2. SinceInv'
    BY <1>0, <1>2, <2>1 DEF SinceInv, ProjectionInv, Writes
  <2>3. \A i \in Items : i \notin since' => i \notin since /\ Untouched(i)
    BY <2>1 DEF Writes
  <2>4. /\ \A r \in Roles : <<"assignee", r>> \in Items /\ <<"role", r>> \in Items /\ <<"viewer", r>> \in Items
        /\ \A s \in Skills : <<"skill", s>> \in Items
    BY DEF Items
  <2>5. /\ \A r \in Roles :
             /\ <<"assignee", r>> \notin since' \/ <<"role", r>> \notin since' =>
                  (r \in rules' <=> r \in rules)
             /\ <<"role", r>> \notin since' => (r \in roles' <=> r \in roles)
             /\ <<"viewer", r>> \notin since' => (r \in grants' <=> r \in grants)
        /\ \A s \in Skills : <<"skill", s>> \notin since' => skills'[s] = skills[s]
    BY <2>3, <2>4 DEF Untouched
  <2>6. ViewInv'
    BY <2>1, <2>5 DEF ProjectionInv, ViewInv, At
  <2>7. DiffInv'
    BY <2>1 DEF ProjectionInv, DiffInv, At, Applied, Desired
  <2>8. QED
    BY <2>2, <2>6, <2>7 DEF ProjectionInv
<1>3. QED
  BY <1>1, <1>2

LEMMA FailsProjection ==
  ASSUME TypeOK, ProjectionInv, NEW h \in Handlers, Fails(h)
  PROVE  ProjectionInv'
<1>1. CASE holder = h
  BY <1>1, ReleaseTypes, NothingRuns DEF Fails
<1>2. CASE holder = None
  BY <1>2, NothingRuns, PolicyAssumption DEF Fails, ProjectionInv, SinceInv
<1>3. CASE holder \notin {h, None}
  <2>1. holder' = holder /\ pc'[holder] = pc[holder] /\ UNCHANGED <<view, diff, since, policy>>
    BY <1>3 DEF Fails, Answer, Goto, TypeOK
  <2>2. UNCHANGED tuples
    BY <1>3 DEF Fails, TypeOK, Projecting
  <2>3. SinceInv'
    BY <1>3, <2>1, PolicyAssumption DEF SinceInv, ProjectionInv, Fails, Failed, TypeOK
  <2>4. ViewInv'
    BY <2>1 DEF ViewInv, ProjectionInv, At, policy
  <2>5. DiffInv'
    BY <2>1, <2>2 DEF ProjectionInv, DiffInv, At, Applied
  <2>6. QED
    BY <2>3, <2>4, <2>5 DEF ProjectionInv
<1>4. QED
  BY <1>1, <1>2, <1>3

LEMMA ReadingProjection ==
  ASSUME TypeOK, ProjectionInv, NEW h \in Handlers, Lock(h) \/ ReadPolicy(h) \/ ReadTuples(h)
  PROVE  ProjectionInv'
<1>0. /\ view.rules \subseteq Roles /\ view.roles \subseteq Roles /\ view.grants \subseteq Roles
      /\ view \in Views
      /\ h # None /\ pc \in [Handlers -> {"idle", "lock", "down"} \cup Projecting \cup Cascading]
  BY PolicyAssumption DEF TypeOK, Views
<1>1. CASE Lock(h)
  <2>1. holder' = h /\ pc'[h] = "readRules" /\ since' = {}
    BY <1>0, <1>1 DEF Lock, Goto
  <2>2. QED
    BY <1>0, <2>1
       DEF ProjectionInv, SinceInv, ViewInv, DiffInv, At, AfterRules, AfterSkills, AfterRoles, AfterGrants
<1>2. CASE ReadPolicy(h)
  <2>1. holder = h /\ holder' = h /\ UNCHANGED <<since, author, rules, skills, roles, grants>>
    BY <1>2 DEF ReadPolicy, Read, TypeOK, Projecting, policy, history
  <2>2. SinceInv'
    BY <2>1 DEF SinceInv, ProjectionInv
  <2>3. ViewInv'
    <3>1. CASE Read(h, "readRules", "readSkills", [view EXCEPT !.rules = rules])
      <4>1. pc'[h] = "readSkills" /\ view'.rules = rules
        BY <1>0, <3>1 DEF Read, Goto, Views
      <4>2. QED
        BY <2>1, <4>1 DEF ViewInv, At, AfterRules, AfterSkills, AfterRoles, AfterGrants
    <3>2. CASE Read(h, "readSkills", "readRoles", [view EXCEPT !.skills = skills])
      <4>1. pc[h] = "readSkills" /\ pc'[h] = "readRoles" /\ view'.skills = skills /\ view'.rules = view.rules
        BY <1>0, <3>2 DEF Read, Goto, Views
      <4>2. QED
        BY <1>0, <2>1, <4>1 DEF ProjectionInv, ViewInv, At, AfterRules, AfterSkills, AfterRoles, AfterGrants
    <3>3. CASE Read(h, "readRoles", "readGrants", [view EXCEPT !.roles = roles])
      <4>1. pc[h] = "readRoles" /\ pc'[h] = "readGrants" /\ view'.roles = roles
            /\ view'.rules = view.rules /\ view'.skills = view.skills
        BY <1>0, <3>3 DEF Read, Goto, Views
      <4>2. QED
        BY <1>0, <2>1, <4>1 DEF ProjectionInv, ViewInv, At, AfterRules, AfterSkills, AfterRoles, AfterGrants
    <3>4. CASE Read(h, "readGrants", "readTuples", [view EXCEPT !.grants = grants])
      <4>1. pc[h] = "readGrants" /\ pc'[h] = "readTuples" /\ view'.grants = grants
            /\ view'.rules = view.rules /\ view'.skills = view.skills /\ view'.roles = view.roles
        BY <1>0, <3>4 DEF Read, Goto, Views
      <4>2. QED
        BY <1>0, <2>1, <4>1 DEF ProjectionInv, ViewInv, At, AfterRules, AfterSkills, AfterRoles, AfterGrants
    <3>5. QED
      BY <1>2, <3>1, <3>2, <3>3, <3>4 DEF ReadPolicy
  <2>4. DiffInv'
    <3>1. pc'[h] # "apply"
      BY <1>0, <1>2 DEF ReadPolicy, Read, Goto
    <3>2. QED
      BY <2>1, <3>1 DEF DiffInv, At
  <2>5. QED
    BY <2>2, <2>3, <2>4 DEF ProjectionInv
<1>3. CASE ReadTuples(h)
  <2>1. /\ holder = h /\ holder' = h /\ pc[h] = "readTuples" /\ pc'[h] = "apply"
        /\ UNCHANGED <<since, author, rules, skills, roles, grants, view, tuples>>
        /\ diff' = Reconcile(tuples, Desired(view))
    BY <1>0, <1>3 DEF ReadTuples, Goto, TypeOK, Projecting, policy, history
  <2>2. SinceInv'
    BY <2>1 DEF SinceInv, ProjectionInv
  <2>3. ViewInv'
    BY <1>0, <2>1 DEF ProjectionInv, ViewInv, At, AfterRules, AfterSkills, AfterRoles, AfterGrants
  <2>4. DiffInv'
    <3>1. Applied' = Desired(view)
      BY <2>1 DEF Applied, Reconcile
    <3>2. Desired(view)' = Desired(view)
      BY <2>1 DEF Desired
    <3>3. QED
      BY <3>1, <3>2 DEF DiffInv
  <2>5. QED
    BY <2>2, <2>3, <2>4 DEF ProjectionInv
<1>4. QED
  BY <1>1, <1>2, <1>3

LEMMA StepKeepsProjection ==
  ASSUME TypeOK, RequestInv, ProjectionInv, [Next]_vars
  PROVE  ProjectionInv'
<1>1. ASSUME NEW h \in Handlers, Apply(h) PROVE ProjectionInv'
  BY <1>1, NothingRuns, ReleaseTypes DEF Apply
<1>2. CASE Crash
  BY <1>2, NothingRuns DEF Crash
<1>3. CASE Boot
  <2>1. holder = None
    BY <1>3 DEF Boot, TypeOK, Projecting
  <2>2. QED
    BY <1>3, <2>1, NothingRuns DEF Boot, ProjectionInv, SinceInv
<1>4. CASE UNCHANGED vars
  BY <1>4 DEF vars, policy, history, ProjectionInv, SinceInv, ViewInv, DiffInv, At, Applied
<1>5. QED
  BY <1>1, <1>2, <1>3, <1>4, StepForms, WritesProjection, FailsProjection, ReadingProjection

\* A projection that is about to write knows what nobody wrote since.
LEMMA AboutToApply ==
  ASSUME TypeOK, ProjectionInv, NEW h \in Handlers, pc[h] = "apply",
         UNCHANGED policy, NEW i \in Items, i \notin since
  PROVE  Applied = Desired(view) /\ Matches(view, i)
<1>1. holder = h /\ h # None
  BY PolicyAssumption DEF TypeOK, Projecting
<1>2. /\ \A r \in Roles : <<"assignee", r>> \notin since \/ <<"role", r>> \notin since =>
           (r \in view.rules <=> r \in rules)
      /\ \A s \in Skills : <<"skill", s>> \notin since => view.skills[s] = skills[s]
      /\ \A r \in Roles : <<"role", r>> \notin since => (r \in view.roles <=> r \in roles)
      /\ \A r \in Roles : <<"viewer", r>> \notin since => (r \in view.grants <=> r \in grants)
  BY <1>1 DEF ProjectionInv, ViewInv, At, AfterRules, AfterSkills, AfterRoles, AfterGrants
<1>3. Matches(view, i)
  BY <1>2, ItemKinds DEF Matches, policy
<1>4. QED
  BY <1>1, <1>3 DEF ProjectionInv, DiffInv, At

LEMMA StepKeepsAnswers ==
  ASSUME TypeOK, RequestInv, ProjectionInv, OkMeansInForce, [Next]_vars
  PROVE  OkMeansInForce'
<1> SUFFICES ASSUME NEW i \in Items, author'[i] = None
             PROVE  Agrees(i)'
  BY DEF OkMeansInForce, Items
<1>0. UNCHANGED policy => Untouched(i)
  BY DEF policy, Untouched
<1>1. ASSUME NEW h \in Handlers, NEW items, Writes(h, items) PROVE Agrees(i)'
  <2>1. i \notin items /\ author[i] = None
    BY <1>1, PolicyAssumption DEF Writes
  <2>2. QED
    BY <1>1, <2>1, UntouchedAgrees DEF Writes, OkMeansInForce
<1>2. ASSUME NEW h \in Handlers, pc[h] = "apply", UNCHANGED policy, tuples' = Applied, i \notin since
      PROVE  Agrees(i)'
  <2> DEFINE v == view
  <2>1. tuples' = Desired(v) /\ Matches(v, i)
    BY <1>2, AboutToApply
  <2> HIDE DEF v
  <2>2. QED
    BY <2>1, MatchAgrees
<1>3. ASSUME NEW h \in Handlers, Fails(h) PROVE Agrees(i)'
  <2>1. author[i] = None /\ UNCHANGED policy
    BY <1>3, PolicyAssumption DEF Fails, Failed
  <2>2. CASE UNCHANGED tuples
    BY <1>0, <2>1, <2>2, UntouchedAgrees DEF OkMeansInForce
  <2>3. CASE pc[h] = "apply" /\ tuples' = Applied
    BY <1>2, <2>1, <2>3 DEF ProjectionInv, SinceInv
  <2>4. QED
    BY <1>3, <2>2, <2>3 DEF Fails
<1>4. ASSUME NEW h \in Handlers, Apply(h) PROVE Agrees(i)'
  <2>1. holder = h
    BY <1>4 DEF Apply, TypeOK, Projecting
  <2>2. author[i] \in {None, h} \/ i \notin since
    BY <1>4 DEF Apply
  <2>3. i \notin since
    BY <2>1, <2>2 DEF ProjectionInv, SinceInv
  <2>4. QED
    BY <1>2, <1>4, <2>3 DEF Apply
<1>5. ASSUME NEW h \in Handlers, Lock(h) \/ ReadPolicy(h) \/ ReadTuples(h) PROVE Agrees(i)'
  <2>1. UNCHANGED <<tuples, policy, author>>
    BY <1>5 DEF Lock, ReadPolicy, Read, ReadTuples, history
  <2>2. QED
    BY <1>0, <2>1, UntouchedAgrees DEF OkMeansInForce
<1>6. CASE Crash
  BY <1>6, PolicyAssumption DEF Crash
<1>7. CASE Boot
  <2> DEFINE v == Policy
  <2>1. tuples' = Desired(v) /\ Matches(v, i)
    BY <1>7 DEF Boot, Matches, Policy, policy
  <2> HIDE DEF v
  <2>2. QED
    BY <2>1, MatchAgrees
<1>8. CASE UNCHANGED vars
  <2>1. UNCHANGED <<tuples, policy, author>>
    BY <1>8 DEF vars, history
  <2>2. QED
    BY <1>0, <2>1, UntouchedAgrees DEF OkMeansInForce
<1>9. QED
  BY <1>1, <1>3, <1>4, <1>5, <1>6, <1>7, <1>8, StepForms

-----------------------------------------------------------------------------
\* Every step keeps what is known of the deletions of roles.

\* A step that leaves the policy and the cascades that go on alone.
LEMMA QuietStep ==
  ASSUME CascadeInv, UNCHANGED <<policy, buried, clash>>,
         \A g \in Handlers :
           pc'[g] \notin Cascading \/ (pc'[g] = pc[g] /\ req'[g] = req[g] /\ rows'[g] = rows[g])
  PROVE  CascadeInv'
<1>1. DeletedRoleLeavesNoTrace => DeletedRoleLeavesNoTrace'
  BY DEF DeletedRoleLeavesNoTrace, Traces, policy
<1>2. ASSUME NEW g \in Handlers, CascadeAt(g) PROVE CascadeAt(g)'
  BY <1>2 DEF CascadeAt, policy, Cascading
<1>3. QED
  BY <1>1, <1>2 DEF CascadeInv

\* A statement that nobody's deletion is cut by.
LEMMA AloneStep ==
  ASSUME CascadeInv, NEW h \in Handlers,
         clash' = (clash \/ \E g \in Handlers \ {h} : pc[g] \in Cascading),
         \A g \in Handlers \ {h} : pc'[g] = pc[g],
         CascadeInv /\ ~clash => DeletedRoleLeavesNoTrace' /\ CascadeAt(h)'
  PROVE  CascadeInv'
<1>1. ASSUME ~clash', NEW g \in Handlers \ {h} PROVE CascadeAt(g)'
  <2>1. pc'[g] \notin Cascading
    BY <1>1
  <2>2. QED
    BY <2>1 DEF CascadeAt, Cascading
<1>2. QED
  BY <1>1 DEF CascadeInv

LEMMA ServeCascade ==
  ASSUME TypeOK, CascadeInv, NEW h \in Handlers, NEW q \in Requests, Serve(h, q)
  PROVE  CascadeInv'
<1>0. /\ skills \in SkillTables /\ rows \in [Handlers -> SkillTables]
      /\ pc \in [Handlers -> {"idle", "lock", "down"} \cup Projecting \cup Cascading]
      /\ req \in [Handlers -> Requests \cup {None}]
  BY DEF TypeOK
<1>1. CASE UpdateRole(h, q)
  <2>1. UNCHANGED <<policy, buried, clash, rows>> /\ pc' = [pc EXCEPT ![h] = "lock"]
        /\ req' = [req EXCEPT ![h] = q]
    BY <1>1 DEF UpdateRole, Goto, Idle, history
  <2>2. QED
    BY <1>0, <2>1, QuietStep DEF Cascading
<1>2. CASE DeleteRole(h, q)
  <2>1. /\ req'[h] = q /\ UNCHANGED <<rules, skills, grants, buried>>
        /\ rows'[h] = [s \in Skills |-> IF skills[s] # None /\ q.role \in skills[s].roles
                                          THEN skills[s] ELSE None]
        /\ pc'[h] = "strip" /\ \A g \in Handlers \ {h} : pc'[g] = pc[g]
        /\ clash' = (clash \/ \E g \in Handlers \ {h} : pc[g] \in Cascading)
    BY <1>0, <1>2 DEF DeleteRole, Goto, Idle, policy
  <2>2. CascadeAt(h)'
    BY <2>1 DEF CascadeAt
  <2>3. DeletedRoleLeavesNoTrace => DeletedRoleLeavesNoTrace'
    BY <2>1 DEF DeletedRoleLeavesNoTrace, Traces
  <2>4. QED
    BY <2>1, <2>2, <2>3, AloneStep DEF CascadeInv
<1>3. ASSUME pc' = [pc EXCEPT ![h] = "lock"],
             clash' = (clash \/ \E g \in Handlers \ {h} : pc[g] \in Cascading),
             DeletedRoleLeavesNoTrace => DeletedRoleLeavesNoTrace'
      PROVE  CascadeInv'
  <2>1. pc'[h] = "lock" /\ \A g \in Handlers \ {h} : pc'[g] = pc[g]
    BY <1>0, <1>3
  <2>2. CascadeAt(h)'
    BY <2>1 DEF CascadeAt
  <2>3. QED
    BY <1>3, <2>1, <2>2, AloneStep DEF CascadeInv
<1>4. CASE CreateRole(h, q)
  BY <1>3, <1>4 DEF CreateRole, Goto, Wrote, DeletedRoleLeavesNoTrace, Traces
<1>5. CASE ReplaceRules(h, q)
  <2>1. /\ pc' = [pc EXCEPT ![h] = "lock"] /\ UNCHANGED <<skills, grants>>
        /\ clash' = (clash \/ \E g \in Handlers \ {h} : pc[g] \in Cascading)
        /\ rules' = q.rules /\ buried' = buried \ q.rules
    BY <1>5 DEF ReplaceRules, Goto, Wrote
  <2>2. DeletedRoleLeavesNoTrace => DeletedRoleLeavesNoTrace'
    BY <2>1 DEF DeletedRoleLeavesNoTrace, Traces
  <2>3. QED
    BY <1>3, <2>1, <2>2
<1>6. CASE PutSkill(h, q)
  <2>1. /\ pc' = [pc EXCEPT ![h] = "lock"] /\ UNCHANGED <<rules, grants>>
        /\ clash' = (clash \/ \E g \in Handlers \ {h} : pc[g] \in Cascading)
        /\ skills' = [skills EXCEPT ![q.skill] = q.row] /\ buried' = buried \ q.row.roles
    BY <1>6 DEF PutSkill, Goto, Wrote
  <2>2. \A s \in Skills : skills'[s] = skills[s] \/ skills'[s] = q.row
    BY <1>0, <2>1 DEF SkillTables
  <2>3. DeletedRoleLeavesNoTrace => DeletedRoleLeavesNoTrace'
    BY <2>1, <2>2 DEF DeletedRoleLeavesNoTrace, Traces
  <2>4. QED
    BY <1>3, <2>1, <2>3
<1>7. CASE DeleteSkill(h, q)
  <2>1. /\ pc' = [pc EXCEPT ![h] = "lock"] /\ UNCHANGED <<rules, grants, buried>>
        /\ clash' = (clash \/ \E g \in Handlers \ {h} : pc[g] \in Cascading)
        /\ skills' = [skills EXCEPT ![q.skill] = None]
    BY <1>7 DEF DeleteSkill, Goto, Wrote
  <2>2. \A s \in Skills : skills'[s] = skills[s] \/ skills'[s] = None
    BY <1>0, <2>1 DEF SkillTables
  <2>3. DeletedRoleLeavesNoTrace => DeletedRoleLeavesNoTrace'
    BY <2>1, <2>2 DEF DeletedRoleLeavesNoTrace, Traces
  <2>4. QED
    BY <1>3, <2>1, <2>3
<1>8. CASE AddGrant(h, q) \/ RemoveGrant(h, q)
  <2>1. /\ pc' = [pc EXCEPT ![h] = "lock"] /\ UNCHANGED <<rules, skills>>
        /\ clash' = (clash \/ \E g \in Handlers \ {h} : pc[g] \in Cascading)
        /\ \/ grants' = grants \cup {q.role} /\ buried' = buried \ {q.role}
           \/ grants' = grants \ {q.role} /\ buried' = buried
    BY <1>8 DEF AddGrant, RemoveGrant, Goto, Wrote
  <2>2. DeletedRoleLeavesNoTrace => DeletedRoleLeavesNoTrace'
    BY <2>1 DEF DeletedRoleLeavesNoTrace, Traces
  <2>3. QED
    BY <1>3, <2>1, <2>2
<1>9. QED
  BY <1>1, <1>2, <1>4, <1>5, <1>6, <1>7, <1>8 DEF Serve

LEMMA StripCascade ==
  ASSUME TypeOK, CascadeInv, NEW h \in Handlers, NEW s \in Skills, StripSkill(h, s)
  PROVE  CascadeInv'
<1>0. /\ skills \in SkillTables /\ rows \in [Handlers -> SkillTables]
      /\ pc \in [Handlers -> {"idle", "lock", "down"} \cup Projecting \cup Cascading]
      /\ req \in [Handlers -> Requests \cup {None}]
  BY DEF TypeOK
<1>1. CASE skills[s] = None
  <2>1. /\ UNCHANGED <<policy, buried, clash>> /\ pc' = [pc EXCEPT ![h] = "idle"]
        /\ req' = [req EXCEPT ![h] = None] /\ rows' = [rows EXCEPT ![h][s] = None]
    BY <1>1 DEF StripSkill, Answer, Goto, policy
  <2>2. \A g \in Handlers :
          pc'[g] \notin Cascading \/ (pc'[g] = pc[g] /\ req'[g] = req[g] /\ rows'[g] = rows[g])
    BY <1>0, <2>1 DEF Cascading
  <2>3. QED
    BY <2>1, <2>2, QuietStep
<1>2. CASE skills[s] # None
  <2> DEFINE r == req[h].role
  <2>1. /\ pc[h] = "strip" /\ rows[h][s] # None
        /\ skills' = [skills EXCEPT ![s] = [roles |-> rows[h][s].roles \ {r}, body |-> rows[h][s].body]]
        /\ UNCHANGED <<pc, req, rules, grants, buried>>
        /\ rows' = [rows EXCEPT ![h][s] = None]
        /\ clash' = (clash \/ \E g \in Handlers \ {h} : pc[g] \in Cascading)
    BY <1>2 DEF StripSkill, Wrote
  <2>2. /\ skills'[s].roles = rows[h][s].roles \ {r}
        /\ \A t \in Skills \ {s} : skills'[t] = skills[t] /\ rows'[h][t] = rows[h][t]
        /\ rows'[h][s] = None
    BY <1>0, <2>1 DEF SkillTables
  <2>3. ASSUME ~clash PROVE DeletedRoleLeavesNoTrace' /\ CascadeAt(h)'
    <3>1. rows[h][s] = skills[s] /\ CascadeAt(h) /\ DeletedRoleLeavesNoTrace
      BY <2>1, <2>3 DEF CascadeInv, CascadeAt
    <3>2. DeletedRoleLeavesNoTrace'
      BY <1>2, <2>1, <2>2, <3>1 DEF DeletedRoleLeavesNoTrace, Traces
    <3>3. CascadeAt(h)'
      BY <2>1, <2>2, <3>1 DEF CascadeAt
    <3>4. QED
      BY <3>2, <3>3
  <2>4. QED
    BY <2>1, <2>3, AloneStep
<1>3. QED
  BY <1>1, <1>2

LEMMA DropCascade ==
  ASSUME TypeOK, CascadeInv, NEW h \in Handlers,
         Stripped(h) \/ DropGrants(h) \/ DropRules(h) \/ DropRole(h)
  PROVE  CascadeInv'
<1>0. pc \in [Handlers -> {"idle", "lock", "down"} \cup Projecting \cup Cascading]
  BY DEF TypeOK
<1>1. CASE Stripped(h)
  <2>1. /\ pc[h] = "strip" /\ \A s \in Skills : rows[h][s] = None
        /\ pc' = [pc EXCEPT ![h] = "dropGrants"]
        /\ UNCHANGED <<rules, skills, grants, req, rows, buried, clash>>
    BY <1>1 DEF Stripped, Goto, policy, history
  <2>2. ASSUME ~clash' PROVE DeletedRoleLeavesNoTrace' /\ \A g \in Handlers : CascadeAt(g)'
    <3>1. DeletedRoleLeavesNoTrace /\ \A g \in Handlers : CascadeAt(g)
      BY <2>1, <2>2 DEF CascadeInv
    <3>2. DeletedRoleLeavesNoTrace'
      BY <2>1, <3>1 DEF DeletedRoleLeavesNoTrace, Traces
    <3>3. ASSUME NEW g \in Handlers PROVE CascadeAt(g)'
      <4>1. CASE g = h
        BY <1>0, <2>1, <3>1, <4>1 DEF CascadeAt
      <4>2. CASE g # h
        <5>1. pc'[g] = pc[g]
          BY <1>0, <2>1, <4>2
        <5>2. QED
          BY <2>1, <3>1, <5>1 DEF CascadeAt
      <4>3. QED
        BY <4>1, <4>2
    <3>4. QED
      BY <3>2, <3>3
  <2>3. QED
    BY <2>2 DEF CascadeInv
<1>2. CASE DropGrants(h)
  <2>1. /\ pc[h] = "dropGrants" /\ pc'[h] = "dropRules" /\ \A g \in Handlers \ {h} : pc'[g] = pc[g]
        /\ grants' = grants \ {req[h].role} /\ UNCHANGED <<rules, skills, req, buried>>
        /\ clash' = (clash \/ \E g \in Handlers \ {h} : pc[g] \in Cascading)
    BY <1>0, <1>2 DEF DropGrants, Goto, Wrote
  <2>2. ASSUME ~clash PROVE DeletedRoleLeavesNoTrace' /\ CascadeAt(h)'
    BY <2>1, <2>2 DEF CascadeInv, CascadeAt, DeletedRoleLeavesNoTrace, Traces
  <2>3. QED
    BY <2>1, <2>2, AloneStep
<1>3. CASE DropRules(h)
  <2>1. /\ pc[h] = "dropRules" /\ pc'[h] = "dropRole" /\ \A g \in Handlers \ {h} : pc'[g] = pc[g]
        /\ rules' = rules \ {req[h].role} /\ UNCHANGED <<grants, skills, req, buried>>
        /\ clash' = (clash \/ \E g \in Handlers \ {h} : pc[g] \in Cascading)
    BY <1>0, <1>3 DEF DropRules, Goto, Wrote
  <2>2. ASSUME ~clash PROVE DeletedRoleLeavesNoTrace' /\ CascadeAt(h)'
    BY <2>1, <2>2 DEF CascadeInv, CascadeAt, DeletedRoleLeavesNoTrace, Traces
  <2>3. QED
    BY <2>1, <2>2, AloneStep
<1>4. CASE DropRole(h)
  <2>1. /\ pc[h] = "dropRole" /\ pc'[h] = "lock" /\ \A g \in Handlers \ {h} : pc'[g] = pc[g]
        /\ buried' = buried \cup {req[h].role} /\ UNCHANGED <<rules, grants, skills, req>>
        /\ clash' = (clash \/ \E g \in Handlers \ {h} : pc[g] \in Cascading)
    BY <1>0, <1>4 DEF DropRole, Goto, Wrote
  <2>2. ASSUME ~clash PROVE DeletedRoleLeavesNoTrace' /\ CascadeAt(h)'
    BY <2>1, <2>2 DEF CascadeInv, CascadeAt, DeletedRoleLeavesNoTrace, Traces
  <2>3. QED
    BY <2>1, <2>2, AloneStep
<1>5. QED
  BY <1>1, <1>2, <1>3, <1>4

LEMMA StepKeepsCascades ==
  ASSUME TypeOK, CascadeInv, [Next]_vars
  PROVE  CascadeInv'
<1>0. /\ pc \in [Handlers -> {"idle", "lock", "down"} \cup Projecting \cup Cascading]
      /\ req \in [Handlers -> Requests \cup {None}] /\ rows \in [Handlers -> SkillTables]
  BY DEF TypeOK
<1>1. ASSUME NEW h \in Handlers, Lock(h) \/ ReadPolicy(h) \/ ReadTuples(h) PROVE CascadeInv'
  <2>1. UNCHANGED <<policy, buried, clash, req, rows>>
    BY <1>1 DEF Lock, ReadPolicy, Read, ReadTuples, history
  <2>2. \A g \in Handlers : pc'[g] \notin Cascading \/ pc'[g] = pc[g]
    BY <1>0, <1>1 DEF Lock, ReadPolicy, Read, ReadTuples, Goto, Cascading
  <2>3. QED
    BY <2>1, <2>2, QuietStep
<1>2. ASSUME NEW h \in Handlers, Apply(h) \/ Abort(h) PROVE CascadeInv'
  <2>1. UNCHANGED <<policy, buried, clash>>
        /\ pc' = [pc EXCEPT ![h] = "idle"] /\ req' = [req EXCEPT ![h] = None]
        /\ \A g \in Handlers \ {h} : rows'[g] = rows[g]
    BY <1>0, <1>2 DEF Apply, Abort, Answer, Goto
  <2>2. \A g \in Handlers :
          pc'[g] \notin Cascading \/ (pc'[g] = pc[g] /\ req'[g] = req[g] /\ rows'[g] = rows[g])
    BY <1>0, <2>1 DEF Cascading
  <2>3. QED
    BY <2>1, <2>2, QuietStep
<1>3. CASE Crash \/ Boot
  BY <1>3, QuietStep DEF Crash, Boot, Cascading
<1>4. CASE UNCHANGED vars
  BY <1>4, QuietStep DEF vars, history
<1>5. QED
  BY <1>1, <1>2, <1>3, <1>4, ServeCascade, StripCascade, DropCascade DEF Next, Continue

-----------------------------------------------------------------------------
\* The invariant holds, and with it the properties.

LEMMA InitPolicy ==
  ASSUME Init
  PROVE  PolicyInv
<1>1. /\ roles \subseteq Roles /\ rules \subseteq Roles /\ grants \subseteq Roles
      /\ rows \in [Handlers -> SkillTables]
  BY DEF Init, SkillTables
<1>2. skills \in SkillTables
  <2>1. PICK rs \in SUBSET roles, b \in Bodies : skills = [s \in Skills |-> [roles |-> rs, body |-> b]]
    BY DEF Init
  <2>2. [roles |-> rs, body |-> b] \in SkillRows
    BY <1>1, <2>1 DEF SkillRows
  <2>3. QED
    BY <2>1, <2>2 DEF SkillTables
<1>3. tuples \subseteq Tuples
  <2>1. Policy \in Views
    BY <1>1, <1>2 DEF Policy, Views
  <2>2. QED
    BY <2>1, DesiredTypes DEF Init
<1>4. \A h \in Handlers : pc[h] = "idle" /\ holder # h
  BY PolicyAssumption DEF Init
<1>5. TypeOK
  <2>1. pc \in [Handlers -> {"idle", "lock", "down"} \cup Projecting \cup Cascading]
        /\ \A h \in Handlers : pc[h] \in Projecting <=> holder = h
    BY <1>4 DEF Init, Projecting
  <2>2. req \in [Handlers -> Requests \cup {None}] /\ left \in 0..MaxRequests
        /\ author \in [Items -> Handlers \cup {None, "failed"}]
    BY PolicyAssumption DEF Init
  <2>3. view \in Views
        /\ diff.writes \subseteq Tuples /\ diff.deletes \subseteq Tuples
    BY EmptyTypes DEF Init
  <2>4. QED
    BY <1>1, <1>2, <1>3, <2>1, <2>2, <2>3 DEF Init, TypeOK, SkillTables
<1>6. RequestInv /\ SinceInv /\ ViewInv /\ DiffInv
  BY <1>4 DEF Init, RequestInv, Cascading, SinceInv, ViewInv, DiffInv, At
<1>7. CascadeInv
  BY <1>4 DEF Init, CascadeInv, CascadeAt, DeletedRoleLeavesNoTrace
<1>8. OkMeansInForce
  <2> SUFFICES ASSUME NEW i \in Items PROVE Agrees(i)
    BY DEF OkMeansInForce
  <2>1. /\ \A r : <<"role", r, None>> \in tuples <=> r \in roles \cup rules
        /\ \A r : <<"assignee", r, None>> \in tuples <=> r \in rules
        /\ \A r : <<"viewer", r, None>> \in tuples <=> r \in grants
        /\ \A s : SkillTuplesOf(s, tuples) = SkillTuplesOf(s, SkillTuples(skills))
    <3> DEFINE v == Policy
    <3>1. /\ tuples = Desired(v) /\ v.roles = roles /\ v.rules = rules
          /\ v.grants = grants /\ v.skills = skills
      BY DEF Init, Policy
    <3> HIDE DEF v
    <3>2. QED
      BY <3>1, DesiredSays
  <2>2. QED
    BY <2>1, ItemKinds DEF Agrees
<1>9. QED
  BY <1>5, <1>6, <1>7, <1>8 DEF PolicyInv

LEMMA StepKeepsPolicy ==
  ASSUME PolicyInv, [Next]_vars
  PROVE  PolicyInv'
<1>1. TypeOK /\ RequestInv /\ ProjectionInv /\ OkMeansInForce /\ CascadeInv
  BY DEF PolicyInv, ProjectionInv
<1>2. TypeOK' /\ RequestInv' /\ ProjectionInv' /\ OkMeansInForce' /\ CascadeInv'
  BY <1>1, StepKeepsTypes, StepKeepsRequests, StepKeepsProjection, StepKeepsAnswers, StepKeepsCascades
<1>3. QED
  BY <1>2 DEF PolicyInv, ProjectionInv

LEMMA PolicyHolds == Spec => []PolicyInv
  BY InitPolicy, StepKeepsPolicy, PTL DEF Spec

\* The tables, OpenFGA and the handlers stay what they are declared to be, and
\* exactly the handler that holds the projector's mutex is projecting.
THEOREM PolicyTypesCorrect == Spec => []TypeOK
<1>1. PolicyInv => TypeOK
  BY DEF PolicyInv
<1>2. QED
  BY <1>1, PolicyHolds, PTL

\* An item of the policy whose last edit was answered "ok", or that nobody
\* edited, is granted by OpenFGA exactly when the tables say so: however many
\* handlers edit and project at a time, fail, or die with the server.
THEOREM OkIsInForce == Spec => []OkMeansInForce
<1>1. PolicyInv => OkMeansInForce
  BY DEF PolicyInv
<1>2. QED
  BY <1>1, PolicyHolds, PTL

\* Once the deletion of a role has run its last statement, no rule, grant or
\* skill names it until a request does, unless another request wrote during a
\* deletion.
THEOREM CascadesComplete == Spec => []CascadeComplete
<1>1. PolicyInv => CascadeComplete
  BY DEF PolicyInv, CascadeInv, CascadeComplete
<1>2. QED
  BY <1>1, PolicyHolds, PTL

=============================================================================
