------------------------ MODULE MCReferenceExecutor ------------------------
(***************************************************************************)
(* TLC instance of ReferenceExecutor: the published package and files that *)
(* differ from it, and reports that repeat, race or contradict each other. *)
(***************************************************************************)
EXTENDS ReferenceExecutor

CONSTANTS k1, k2

QueryTool ==
  <<"query_order_status", "read", FALSE, {<<"orderId", "string">>}, {"orderId"}>>

ReportTool(required) ==
  <<"report_production_progress", "low_write", TRUE,
    {<<"orderId", "string">>, <<"workOrderId", "string">>, <<"completionRate", "integer">>,
     <<"expectedVersion", "integer">>, <<"note", "string">>}, required>>

Published ==
  <<QueryTool, ReportTool({"orderId", "workOrderId", "completionRate", "expectedVersion"})>>

\* The same tools with everything but the order optional.
Lenient == <<QueryTool, ReportTool({"orderId", "workOrderId"})>>

Reference == <<"reference-manufacturing", "1.0.0">>

PackageFiles ==
  <<<<TRUE, TRUE, Reference, Published>>,
    <<TRUE, TRUE, Reference, Lenient>>,
    <<FALSE, TRUE, Reference, Published>>>>

TheOrder == <<"orderId", "string", "SO-1001">>
WorkOrder == <<"workOrderId", "string", "WO-1001">>
Rate(n) == <<"completionRate", "integer", n>>
Expects(n) == <<"expectedVersion", "integer", n>>
NoteOf(s) == <<"note", "string", s>>

Progress(tools, key, args) ==
  <<tools, "report_production_progress", TRUE, <<"low_write", TRUE>>, key,
    {TheOrder, WorkOrder} \cup args>>

SomeRequests ==
  <<Progress(Published, k1, {Rate(80), Expects(1)}),
    Progress(Published, k2, {Rate(90), Expects(2)}),
    Progress(Published, k2, {Rate(70), Expects(1), NoteOf("ok")}),
    Progress(Published, k2, {Rate(150), Expects(1)}),
    Progress(Lenient, k2, {<<"completionRate", "null", 0>>, Expects(1)}),
    <<Published, "query_order_status", TRUE, <<"read", FALSE>>, k1, {TheOrder}>>>>

FirstRecord == [rate |-> 60, note |-> "assembling", ver |-> 1]

=============================================================================
