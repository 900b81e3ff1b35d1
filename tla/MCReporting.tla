----------------------------- MODULE MCReporting -----------------------------
(***************************************************************************)
(* What the controllers tell their users, for TLC: events and log lines     *)
(* (Diagnostics) or gauges (Metrics).  The emitter and the metrics share no *)
(* state, so the variables of the one a behaviour is not about stay as they *)
(* are.                                                                     *)
(***************************************************************************)
EXTENDS Diagnostics, Metrics

VARIABLE subject

MCInit == subject \in {"diagnostics", "metrics"} /\ Init /\ MetricsInit

MCNext ==
    /\ UNCHANGED subject
    /\ \/ subject = "diagnostics" /\ Next /\ UNCHANGED metricsVars
       \/ subject = "metrics" /\ MetricsNext /\ UNCHANGED vars

MCSpec == MCInit /\ [][MCNext]_<<subject, vars, metricsVars>>
=============================================================================
