------------------------------ MODULE JobsProps ------------------------------
(***************************************************************************)
(* What settings, their cache and the scheduler are required to do.        *)
(***************************************************************************)
EXTENDS Jobs

\* The settings of a service as far as they are known, or cached, or still to
\* be written.
Partial == {c \in [Fields -> Values \cup {Null}] :
              c["switch"] \in Switch \cup {Null} /\ c["plan"] \in Plans \cup {Null}}

Thread == [pc : {"idle", "saving", "written", "waiting", "reading", "loaded"},
           job : {"none", "save", "start", "run"}, s : Services \cup {Null},
           new : Partial, got : Partial, gone : BOOLEAN, field : Fields,
           val : Values \cup {Null}, misread : BOOLEAN]

\* Every variable stays in its domain, and only the thread that holds the lock
\* is between reading the settings of a service and registering its job.
TypeOK ==
    /\ kind \in [Services -> Kinds]
    /\ stored \in [Services -> Configs]
    /\ job \in [Services -> Plans \cup {Null}]
    /\ missed \in SUBSET Services
    /\ cache \in [Services -> Partial]
    /\ suspect \in SUBSET (Services \X Fields)
    /\ lock \in Threads \cup {Null} /\ left \in SUBSET Services
    /\ thread \in [Threads -> Thread]
    /\ saves \in 0 .. MaxSaves /\ crashes \in 0 .. MaxCrashes
    /\ \A t \in Threads :
         thread[t].pc \in {"reading", "loaded"} /\ thread[t].job # "run"
           => lock = t

\* A save reaches the scheduler: once nobody has its settings still to apply, a
\* service runs as the database says, unless its last rescheduling read an
\* outdated or default value, or the request that saved them failed halfway
\* (settings_save, the reschedule functions).
SchedulesFollow ==
    \A s \in Services \ (Due \cup missed) : job[s] = Planned(kind[s], stored[s])

\* An entry of the cache differs from the database only while the writer is
\* about to drop it, or after a reader put back what it had read before the
\* write, or after a failure between write and drop (SettingsCache).
StaleOnlyByRace ==
    \A s \in Services, f \in Fields :
        cache[s][f] \notin {Null, stored[s][f]} =>
            \/ <<s, f>> \in suspect
            \/ \E t \in Threads : /\ thread[t].pc = "written"
                                  /\ thread[t].s = s /\ thread[t].field = f

\* Readers, savers and the start of the server together behave like a scheduler
\* that touches one job at a time and only while a change of it is due. Until the
\* change is settled the job may be any, or none; when it is, the job is as stored
\* or the change is one of those missed.
ScheduleKept == Promise!Spec

\* Every change is applied or missed in the end, and so is every start of the
\* server: the lock is never waited for in vain, also by its own holder.
SavesEnd == []<>(Due = {})
==============================================================================
