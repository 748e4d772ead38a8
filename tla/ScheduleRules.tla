---------------------------- MODULE ScheduleRules ----------------------------
(***************************************************************************)
(* The settings of scheduled services and the trigger they call for.       *)
(***************************************************************************)
CONSTANTS
    Services,     \* what runs on a schedule: refreshes, the backup, the alerts
    Plans,        \* intervals and times of day a job may be given
    BadPlans,     \* those of which no trigger can be made, "25:00" say
    DefaultPlan,  \* what a reader takes for a plan it cannot read
    Null

Fields == {"switch", "plan"}
Switch == {"on", "off"}
Values == Switch \cup Plans

ASSUME ScheduleAssumption ==
    /\ BadPlans \subseteq Plans
    /\ DefaultPlan \in Plans \ BadPlans
    /\ Plans \cap Switch = {}
    /\ Null \notin Values

\* The settings of one service.
Configs == {c \in [Fields -> Values] : c["switch"] \in Switch /\ c["plan"] \in Plans}

\* The six reschedule functions make their triggers in three ways.
Kinds == {"timed", "quota", "minute"}

\* Refreshes and the backup: at a time of day, if it is one.
TimedTrigger(plan) == IF plan \in BadPlans THEN Null ELSE plan

\* The quota alert: an interval that is no number is the default one.
QuotaTrigger(plan) == IF plan \in BadPlans THEN DefaultPlan ELSE plan

\* The rate and the silence alert: every minute, there is nothing to plan.
MinuteTrigger == DefaultPlan

\* The trigger that the settings of a service call for.
Planned(kind, c) ==
    CASE c["switch"] = "off" -> Null
      [] kind = "timed" /\ c["switch"] = "on" -> TimedTrigger(c["plan"])
      [] kind = "quota" /\ c["switch"] = "on" -> QuotaTrigger(c["plan"])
      [] kind = "minute" /\ c["switch"] = "on" -> MinuteTrigger
==============================================================================
