--------------------------------- MODULE Jobs ---------------------------------
(***************************************************************************)
(* Settings, their cache and the scheduler: administrators save settings,  *)
(* every reader goes through SettingsCache, and the jobs of the scheduler  *)
(* are registered again from what the cache returns.                       *)
(*                                                                         *)
(* The six reschedule functions have one shape: take the lock, read the    *)
(* settings, remove the job, register it again; they differ in when they   *)
(* read the plan, if at all, and in the trigger they make of it. A service  *)
(* has one switch and one plan here, whatever number of keys they are.     *)
(***************************************************************************)
EXTENDS ScheduleRules, Naturals

CONSTANTS
    Threads,      \* threads of the server and of the scheduler
    MaxSaves,     \* saves of the settings page
    MaxCrashes    \* restarts of the process

ASSUME JobsAssumption == Null \notin Threads
ASSUME BoundsAssumption == MaxSaves \in Nat /\ MaxCrashes \in Nat

VARIABLES
    kind,     \* which trigger a service has; chosen once
    stored,   \* settings in the database
    job,      \* trigger of the registered job of every service, or Null
    missed,   \* history: services whose last change was not applied as stored
    cache,    \* values of settings in the cache; they outlive a restart
    suspect,  \* history: entries a failure or a late reader may have left stale
    lock,     \* thread that holds the scheduler's lock
    left,     \* services that start() has not scheduled yet
    thread,   \* what every thread is doing
    saves, crashes

\* due is derived: who saves a service's settings will reschedule it.
Saving(t, s) == thread[t].job = "save" /\ thread[t].s = s
Due == {s \in Services : s \in left \/ \E t \in Threads : Saving(t, s)}


vars == <<kind, stored, job, missed, cache, suspect, lock, left, thread, saves, crashes>>

Unread == [f \in Fields |-> Null]
Idle == [pc |-> "idle", job |-> "none", s |-> Null, new |-> Unread,
         got |-> Unread, gone |-> FALSE, field |-> "switch", val |-> Null,
         misread |-> FALSE]

Init ==
    /\ kind \in [Services -> Kinds]
    /\ stored \in [Services -> {c \in Configs : c["plan"] = DefaultPlan}]
    /\ job = [s \in Services |-> Null]
    /\ missed = {} /\ suspect = {}
    /\ cache = [s \in Services |-> Unread]
    /\ lock = Null /\ left = Services
    /\ thread = [t \in Threads |-> Idle]
    /\ saves = 0 /\ crashes = 0

Running == left = {}

With(reg, s, f, v) == [reg EXCEPT ![s] = [reg[s] EXCEPT ![f] = v]]
Becomes(t, k) == thread' = [thread EXCEPT ![t] = k]

-----------------------------------------------------------------------------
(* SettingsCache.get *)

\* What a thread reads next, and whether it has all that its function asks for:
\* a running job looks at its switch, the quota alert at a plan only if it is on.
NextField(k) == IF k.got["switch"] = Null THEN "switch" ELSE "plan"
Complete(k) ==
    /\ k.got["switch"] # Null
    /\ \/ k.got["plan"] # Null
       \/ k.job = "run" \/ kind[k.s] = "minute"
       \/ kind[k.s] = "quota" /\ k.got["switch"] = "off"

\* reschedule_quota_alert reads its plan when the job is gone already.
ReadyToRemove(k) ==
    /\ k.got["switch"] # Null
    /\ k.got["plan"] # Null \/ kind[k.s] # "timed"

\* Between removing a job and adding it again the new one counts, once it is known.
JobShown == [s \in Services |->
    IF lock # Null /\ thread[lock].gone /\ thread[lock].s = s /\ Complete(thread[lock])
    THEN Planned(kind[s], thread[lock].got) ELSE job[s]]

Returns(k, v, misread) ==
    [k EXCEPT !.pc = "reading", !.val = Null, !.field = "switch", !.misread = k.misread \/ misread,
              !.got = [k.got EXCEPT ![NextField(k)] = v]]

Default(f) == IF f = "switch" THEN "off" ELSE DefaultPlan

ReadBegun(t) ==
    LET k == thread[t] IN
    /\ k.pc = "reading" /\ ~Complete(k)
    /\ k.job = "run" \/ k.gone \/ ~ReadyToRemove(k)

CacheHit(t) ==
    LET k == thread[t]
        v == cache[k.s][NextField(k)]
    IN /\ ReadBegun(t)
       /\ v # Null
       /\ Becomes(t, Returns(k, v, v # stored[k.s][NextField(k)]))
       /\ UNCHANGED <<kind, stored, job, missed, cache, suspect, lock, left, saves, crashes>>

\* No entry (a cache that does not answer has lost it): the database is read.
CacheMissed(t) ==
    LET k == thread[t] IN
    /\ ReadBegun(t)
    /\ cache[k.s][NextField(k)] = Null
    /\ Becomes(t, [k EXCEPT !.pc = "loaded", !.field = NextField(k),
                            !.val = stored[k.s][NextField(k)]])
    /\ UNCHANGED <<kind, stored, job, missed, cache, suspect, lock, left, saves, crashes>>

\* The value read goes into the cache, by best effort.
CacheFilled(t) ==
    LET k == thread[t] IN
    /\ k.pc = "loaded"
    /\ cache' \in {cache, With(cache, k.s, k.field, k.val)}
    /\ Becomes(t, Returns(k, k.val, FALSE))
    /\ UNCHANGED <<kind, stored, job, missed, suspect, lock, left, saves, crashes>>

\* A database that does not answer makes the reader take the default.
ReadFailed(t) ==
    LET k == thread[t]
        v == Default(NextField(k))
    IN /\ ReadBegun(t)
       /\ cache[k.s][NextField(k)] = Null
       /\ Becomes(t, Returns(k, v, v # stored[k.s][NextField(k)]))
       /\ UNCHANGED <<kind, stored, job, missed, cache, suspect, lock, left, saves, crashes>>

\* An entry outlives its 60 seconds.
CacheExpired(s, f) ==
    /\ cache[s][f] # Null
    /\ cache' = With(cache, s, f, Null)
    /\ UNCHANGED <<kind, stored, job, missed, suspect, lock, left, thread, saves, crashes>>

-----------------------------------------------------------------------------
(* settings_save *)

SaveBegan(t, s, new) ==
    /\ Running /\ saves < MaxSaves
    /\ thread[t].pc = "idle"
    /\ Becomes(t, [Idle EXCEPT !.pc = "saving", !.job = "save", !.s = s,
                               !.new = new])
    /\ saves' = saves + 1
    /\ UNCHANGED <<kind, stored, job, missed, cache, suspect, lock, left, crashes>>

\* Mutant of KeySaved: the entry of a written key stays in the cache.
KeySavedOnly(t, f) ==
    LET k == thread[t]
        rest == [k EXCEPT !.new = [k.new EXCEPT ![f] = Null]]
    IN /\ k.pc = "saving" /\ k.new[f] # Null
       /\ stored' = With(stored, k.s, f, k.new[f])
       /\ Becomes(t, rest)
       /\ UNCHANGED <<kind, job, missed, cache, suspect, lock, left, saves, crashes>>

\* Keys are compared and written one by one; an unchanged one is left alone.
KeySaved(t, f) ==
    LET k == thread[t]
        rest == [k EXCEPT !.new = [k.new EXCEPT ![f] = Null]]
    IN /\ k.pc = "saving" /\ k.new[f] # Null
       /\ \/ /\ k.new[f] = stored[k.s][f]
             /\ Becomes(t, rest)
             /\ UNCHANGED stored
          \/ /\ k.new[f] # stored[k.s][f]
             /\ stored' = With(stored, k.s, f, k.new[f])
             /\ Becomes(t, [rest EXCEPT !.pc = "written", !.field = f])
       /\ UNCHANGED <<kind, job, missed, cache, suspect, lock, left, saves, crashes>>

\* Threads about to put an outdated value into the cache.
LateReader(s, f) ==
    \E t \in Threads :
        /\ thread[t].pc = "loaded" /\ thread[t].s = s /\ thread[t].field = f
        /\ thread[t].val # stored[s][f]

\* The entry goes once the key is written.
Invalidated(t) ==
    LET k == thread[t] IN
    /\ k.pc = "written"
    /\ cache' = With(cache, k.s, k.field, Null)
    /\ suspect' = IF LateReader(k.s, k.field) THEN suspect \cup {<<k.s, k.field>>}
                  ELSE suspect \ {<<k.s, k.field>>}
    /\ Becomes(t, [k EXCEPT !.pc = "saving", !.field = "switch"])
    /\ UNCHANGED <<kind, stored, job, missed, lock, left, saves, crashes>>

\* An error of the database or the cache ends the request where it is: what it
\* has written stays written, and nothing is rescheduled.
SaveFailed(t) ==
    LET k == thread[t] IN
    /\ k.pc \in {"saving", "written"}
    /\ Becomes(t, Idle)
    /\ missed' = missed \cup {k.s}
    /\ suspect' = IF k.pc = "written" THEN suspect \cup {<<k.s, k.field>>} ELSE suspect
    /\ UNCHANGED <<kind, stored, job, cache, lock, left, saves, crashes>>

\* Mutant of KeysSaved: the jobs are not rescheduled.
KeysSavedOnly(t) ==
    LET k == thread[t] IN
    /\ k.pc = "saving" /\ k.new = Unread
    /\ Becomes(t, Idle)
    /\ UNCHANGED <<kind, stored, job, missed, cache, suspect, lock, left, saves, crashes>>

KeysSaved(t) ==
    LET k == thread[t] IN
    /\ k.pc = "saving" /\ k.new = Unread
    /\ Becomes(t, [Idle EXCEPT !.pc = "waiting", !.job = "save", !.s = k.s])
    /\ UNCHANGED <<kind, stored, job, missed, cache, suspect, lock, left, saves, crashes>>

-----------------------------------------------------------------------------
(* start and reschedule *)

\* start() holds the lock while it calls every reschedule function in turn.
StartBegan(t) ==
    /\ ~Running /\ lock = Null
    /\ thread[t].pc = "idle"
    /\ lock' = t
    /\ \E s \in left : Becomes(t, [Idle EXCEPT !.pc = "waiting", !.job = "start", !.s = s])
    /\ UNCHANGED <<kind, stored, job, missed, cache, suspect, left, saves, crashes>>

\* Mutant of Locked: the lock is taken to be free.
LockedUnasked(t) ==
    LET k == thread[t] IN
    /\ k.pc = "waiting"
    /\ lock' = t
    /\ Becomes(t, [k EXCEPT !.pc = "reading"])
    /\ UNCHANGED <<kind, stored, job, missed, cache, suspect, left, saves, crashes>>

\* Mutant of Locked: a lock that its holder cannot take again.
LockedOnce(t) ==
    LET k == thread[t] IN
    /\ k.pc = "waiting"
    /\ lock = Null
    /\ lock' = t
    /\ Becomes(t, [k EXCEPT !.pc = "reading"])
    /\ UNCHANGED <<kind, stored, job, missed, cache, suspect, left, saves, crashes>>

\* The lock is reentrant.
Locked(t) ==
    LET k == thread[t] IN
    /\ k.pc = "waiting"
    /\ lock \in {Null, t}
    /\ lock' = t
    /\ Becomes(t, [k EXCEPT !.pc = "reading"])
    /\ UNCHANGED <<kind, stored, job, missed, cache, suspect, left, saves, crashes>>

JobRemoved(t) ==
    LET k == thread[t] IN
    /\ k.pc = "reading" /\ k.job # "run" /\ ~k.gone /\ ReadyToRemove(k)
    /\ job' = [job EXCEPT ![k.s] = Null]
    /\ Becomes(t, [k EXCEPT !.gone = TRUE])
    /\ UNCHANGED <<kind, stored, missed, cache, suspect, lock, left, saves, crashes>>

\* What was read is what is stored.
AsStored(k) == \A f \in Fields : k.got[f] \in {Null, stored[k.s][f]}

\* Nothing is added when the switch is off, or when no trigger can be made of
\* the plan: the error is logged, the old job is gone.
JobAdded(t) ==
    LET k == thread[t]
        more == left \ {k.s}
    IN /\ k.pc = "reading" /\ k.gone /\ Complete(k)
       /\ job' = [job EXCEPT ![k.s] = Planned(kind[k.s], k.got)]
       /\ missed' = CASE k.misread -> missed \cup {k.s}
                      [] ~k.misread /\ AsStored(k) -> missed \ {k.s}
                      [] OTHER -> missed
       /\ left' = more
       /\ IF k.job = "start" /\ more # {}
          THEN /\ \E s \in more :
                    Becomes(t, [Idle EXCEPT !.pc = "waiting", !.job = "start", !.s = s])
               /\ UNCHANGED lock
          ELSE Becomes(t, Idle) /\ lock' = Null
       /\ UNCHANGED <<kind, stored, cache, suspect, saves, crashes>>

-----------------------------------------------------------------------------
(* Jobs at work, and restarts *)

\* A job fires on a thread of the scheduler. It reads its switch again.
JobFired(t, s) ==
    /\ Running /\ job[s] # Null
    /\ thread[t].pc = "idle"
    /\ Becomes(t, [Idle EXCEPT !.pc = "reading", !.job = "run", !.s = s])
    /\ UNCHANGED <<kind, stored, job, missed, cache, suspect, lock, left, saves, crashes>>

\* Mutant of JobRan: a trigger that fires once; the job is gone afterwards.
JobRanOnce(t) ==
    /\ thread[t].job = "run" /\ thread[t].pc = "reading" /\ Complete(thread[t])
    /\ job' = [job EXCEPT ![thread[t].s] = Null]
    /\ Becomes(t, Idle)
    /\ UNCHANGED <<kind, stored, missed, cache, suspect, lock, left, saves, crashes>>

JobRan(t) ==
    /\ thread[t].job = "run" /\ thread[t].pc = "reading" /\ Complete(thread[t])
    /\ Becomes(t, Idle)
    /\ UNCHANGED <<kind, stored, job, missed, cache, suspect, lock, left, saves, crashes>>

Crash ==
    /\ crashes < MaxCrashes
    /\ crashes' = crashes + 1
    /\ job' = [s \in Services |-> Null]
    /\ thread' = [t \in Threads |-> Idle]
    /\ lock' = Null /\ left' = Services
    /\ missed' = {}
    /\ suspect' = suspect \cup {<<thread[t].s, thread[t].field>> :
                                 t \in {u \in Threads : thread[u].pc = "written"}}
    /\ UNCHANGED <<kind, stored, cache, saves>>

Continued(t) ==
    \/ CacheHit(t) \/ CacheMissed(t) \/ CacheFilled(t) \/ ReadFailed(t)
    \/ \E f \in Fields : KeySaved(t, f)
    \/ Invalidated(t) \/ SaveFailed(t) \/ KeysSaved(t)
    \/ JobRemoved(t) \/ JobAdded(t) \/ JobRan(t)

Next ==
    \/ \E t \in Threads :
         \/ Continued(t) \/ Locked(t) \/ StartBegan(t)
         \/ \E s \in Services, new \in Configs : SaveBegan(t, s, new)
         \/ \E s \in Services : JobFired(t, s)
    \/ \E s \in Services, f \in Fields : CacheExpired(s, f)
    \/ Crash

\* Threads go on with what they do, and after a restart the server starts.
\* Saves being bounded, the lock comes free for good.
Fairness ==
    /\ \A t \in Threads : WF_vars(Continued(t) \/ Locked(t))
    /\ WF_vars(\E t \in Threads : StartBegan(t))

Spec == Init /\ [][Next]_vars
FairSpec == Spec /\ Fairness

\* The scheduler as its users see it.
Promise == INSTANCE Schedule WITH job <- JobShown, due <- Due
==============================================================================
