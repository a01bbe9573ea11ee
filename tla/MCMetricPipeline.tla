-------------------------- MODULE MCMetricPipeline --------------------------
(* MetricPipeline for TLC; the bounds are in the configuration. *)
EXTENDS MetricPipeline
=============================================================================
