------------------------------- MODULE MCJobs -------------------------------
(***************************************************************************)
(* Small instances of Jobs for TLC.                                        *)
(***************************************************************************)
EXTENDS JobsProps

\* Times of day: the default, and one of which no trigger can be made.
MCPlans == {"02:00", "25:00"}
MCBadPlans == {"25:00"}
MCDefaultPlan == "02:00"
==============================================================================
