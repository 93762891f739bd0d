----------------------------- MODULE MCTelemetry -----------------------------
(***************************************************************************)
(* A small instance of Telemetry: a second of three ticks, two samples and *)
(* an attempt to attach in every second pass.                              *)
(***************************************************************************)
EXTENDS Telemetry
=============================================================================
