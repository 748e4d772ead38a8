------------------------------- MODULE Schedule -------------------------------
(***************************************************************************)
(* What the scheduler promises: the job of every service runs as the       *)
(* stored settings say, except while a change is still to be applied, and  *)
(* for services whose last change was missed.                               *)
(***************************************************************************)
EXTENDS ScheduleRules

VARIABLES
    kind,     \* which trigger a service has
    stored,   \* settings in the database
    job,      \* trigger of the registered job, or Null
    due,      \* services with a change yet to be applied
    missed    \* services whose last change was not applied as stored

vars == <<kind, stored, job, due, missed>>

Init ==
    /\ kind \in [Services -> Kinds]
    /\ stored \in [Services -> Configs]
    /\ job = [s \in Services |-> Null]
    /\ due = Services
    /\ missed = {}

Saved(s) ==
    /\ \E c \in Configs : stored' = [stored EXCEPT ![s] = c]
    /\ due' = due \cup {s}
    /\ UNCHANGED <<kind, job, missed>>

\* Only while a change is due may the job be another one, or none: until the
\* change is settled, nothing is promised of it.
Rescheduled(s) ==
    /\ s \in due
    /\ \E c \in Configs : job' = [job EXCEPT ![s] = Planned(kind[s], c)]
    /\ UNCHANGED <<kind, stored, due, missed>>

\* A change is done with when the job is as stored; otherwise it is missed.
Settled(s) ==
    /\ s \in due
    /\ due' \in {due, due \ {s}}
    /\ missed' \in {missed \cup {s}, missed \ {s}}
    /\ s \in due' \cup missed' \/ job[s] = Planned(kind[s], stored[s])
    /\ UNCHANGED <<kind, stored, job>>

\* Jobs are kept in memory; all are registered anew.
Restarted ==
    /\ job' = [s \in Services |-> Null]
    /\ due' = Services
    /\ missed' = {}
    /\ UNCHANGED <<kind, stored>>

Next ==
    \/ \E s \in Services : Saved(s) \/ Rescheduled(s) \/ Settled(s)
    \/ Restarted

Spec == Init /\ [][Next]_vars

\* The job of a service that is neither due nor missed runs as stored.
Follows == \A s \in Services \ (due \cup missed) : job[s] = Planned(kind[s], stored[s])
==============================================================================
