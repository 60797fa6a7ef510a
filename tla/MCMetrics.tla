----------------------------- MODULE MCMetrics -----------------------------
(* The reports and filters of MCAggregate, for requests and scrapes.       *)
EXTENDS Metrics, MCAggregate

TeamLabel == <<1>>
NoLabels == <<>>
NoFilter == {EmptyFilter}
=============================================================================
