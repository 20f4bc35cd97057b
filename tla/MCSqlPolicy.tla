---------------------------- MODULE MCSqlPolicy ----------------------------
(***************************************************************************)
(* TLC instances of SqlPolicy: two tables that share column names, two     *)
(* rows each; templates that vary the WHERE clauses, the guards, the SET,  *)
(* the declared columns, the row limit and the join.                       *)
(***************************************************************************)
EXTENDS SqlPolicy

Eq(ref, par) == [ref |-> ref, op |-> "=", par |-> par]
Below(ref, par) == [ref |-> ref, op |-> "<", par |-> par]
\* Tables and columns are positions.
Order == 1
Work == 2
Version == 3
Rate == 4
Note == 5
Other == 6
Parent == 3

main == 1
detail == 2
Main(c) == <<main, c>>
Detail(c) == <<detail, c>>

\* Reads of the first table, alone or joined to the second. One that is pinned
\* by the second table's Order is accepted and not qualified.
ReadLeaves ==
  {Eq(Main(Order), "orderId"), Below(Main(Order), "orderId"),
   Eq(Main(Work), "orderId"), Eq(Detail(Order), "orderId"), Eq(Detail(Parent), "orderId"),
   Eq(Main(Order), "literal")}

ReadWheres == {{}} \cup {{{l}} : l \in ReadLeaves}
  \cup {{{l, k}} : l, k \in ReadLeaves} \cup {{{l}, {k}} : l, k \in ReadLeaves}

Joins == {{}, {<<Main(Work), Detail(Work)>>}}

Reads ==
  {[kind |-> "read", declared |-> tables, maxResults |-> max,
    select |-> [from |-> tables, join |-> join, extras |-> {}, top |-> top, where |-> where,
                cols |-> [orderId |-> Main(Order), status |-> Main(Note)]]] :
     tables \in {{main}, {main, detail}}, join \in Joins, max \in 1..2, top \in 1..2,
     where \in ReadWheres}

\* Updates: where each statement finds the record, and what the SET assigns.
ByOrder == {Eq(Main(Order), "orderId")}
ByWork == {Eq(Main(Work), "workOrderId")}
ByBoth == {ByOrder, ByWork}
ByMore == ByBoth \cup {{Eq(Main(Other), "completionRate")}}
Wheres == {ByBoth, ByMore, {ByOrder \cup ByWork}, {ByOrder}, {ByWork}}

\* The three guards; one of them on the wrong column, or missing; a fourth.
Three(c) == {Eq(Main(c), "orderId"), Eq(Main(Work), "workOrderId"), Eq(Main(Version), "expectedVersion")}
Guards == {Three(Order), Three(Other), Three(Order) \ {Eq(Main(Work), "workOrderId")}}
Four == Three(Order) \cup {Eq(Main(Note), "note")}

Assigned == [c \in {Version, Rate, Note} |-> <<"nextVersion", "completionRate", "note">>[c - 2]]
AssignedOther == [c \in {Version, Rate, Other} |-> <<"nextVersion", "completionRate", "", "note">>[c - 2]]
Sets ==
  {Assigned, [c \in {Version, Rate, Note} |-> <<"nextVersion", "note", "completionRate">>[c - 2]],
   [c \in {Version, Rate, Note, Other} |-> <<"nextVersion", "completionRate", "note", "note">>[c - 2]]}

Cols == [orderId |-> Main(Order), workOrderId |-> Main(Work), version |-> Main(Version),
         completionRate |-> Main(Rate), note |-> Main(Note)]

Select(where) == [from |-> {main}, join |-> {}, extras |-> {}, top |-> None, where |-> where, cols |-> Cols]

Update(before, guards, set, readBack, columns) ==
  [kind |-> "update", table |-> main, before |-> Select(before), guards |-> guards,
   set |-> set, readBack |-> Select(readBack), columns |-> columns]

\* The declared columns are those the proposed fields are read from, but the
\* note's is another one.
Aligned == [completionRate |-> Rate, note |-> Note, version |-> Version]
Misaligned == [Aligned EXCEPT !.note = Other]

\* The last two kinds hold accepted updates that are not plain: a fourth guard
\* that picks another row than the dialog's if the read-back is as particular,
\* and a note that is written where it is not read.
Updates ==
  {Update(b, g, s, r, Aligned) : b \in Wheres, g \in Guards, s \in Sets, r \in Wheres}
  \cup {Update(ByMore, Four, Assigned, ByBoth \cup {{Eq(Main(Version), "nextVersion")}}, Aligned)}
  \cup {Update(ByBoth, Three(Order), AssignedOther, ByBoth, c) : c \in {Aligned, Misaligned}}

AllTemplates == Reads \cup Updates \cup {[kind |-> "connection"]}

\* Rows <<order, work, version, rate, note, other>> and <<order, work, parent>>.
Contents ==
  {<< << <<1, 1, v, 0, 0, 0>>, <<o, w, u, 0, 1, x>> >>,
      << <<1, 1, p>>, <<p, 0, 1>> >> >> : v, o, w, u, x, p \in 0..1}

CallArguments ==
  [orderId : {Missing} \cup 0..1, workOrderId : {1}, completionRate : 0..1, expectedVersion : 0..1, note : {Missing, 1}]

=============================================================================
