------------------------------- MODULE Syslog -------------------------------
(***************************************************************************)
(* The forwarder of log records to a syslog collector.                     *)
(*                                                                         *)
(* A record comes from a logging handler, whose own lock is held while it  *)
(* is forwarded, or straight from the activity log.  All threads share one *)
(* connection, kept with the collector it was opened for and guarded by a  *)
(* lock that is not reentrant.  A send that fails is itself logged, at     *)
(* most once a minute, while that lock is held.                            *)
(*                                                                         *)
(* The settings of one collector are read as one value; a collector that   *)
(* is down refuses connections and loses the ones it had.                  *)
(***************************************************************************)
EXTENDS Naturals, FiniteSets

CONSTANTS
    Threads,
    Collectors,
    Choices,     \* sets of streams an administrator may switch on together
    MaxRecords,  \* bound on the records logged, the tests asked for and the saves of settings
    Null

Streams == {"activity", "error", "access"}
Handlers == {"main", "error", "access"}

ASSUME SyslogAssumption ==
    /\ Choices \subseteq SUBSET Streams /\ MaxRecords \in Nat
    /\ Null \notin Threads \cup Collectors \cup Nat
    /\ Null \notin Streams \cup Handlers \cup {"test", "save"}
    /\ IsFiniteSet(Threads)

VARIABLES
    collector,   \* the configured one, or Null while forwarding is off
    streams,     \* streams that are switched on
    up,          \* collectors that answer
    conn,        \* whom each connection reaches, or Null once it is closed or broken
    sock,        \* the shared connection, or Null ...
    sig,         \* ... and the collector it was opened for
    locker,      \* the thread in the guarded part, or Null
    holder,      \* the thread that holds each handler's lock, or Null
    thread,      \* what every thread is forwarding
    warned,      \* a failure was logged within the last minute
    tested,      \* history: threads during whose record a test changed the shared connection
    excused,     \* history: something broke the connection since the last record was lost
    records

settings == <<collector, streams>>
locks == <<locker, holder>>
history == <<tested, excused>>
shared == <<conn, sock, sig>>
vars == <<settings, up, shared, locks, thread, warned, history, records>>

\* One connection per thread at work, and the shared one.
Conns == 0 .. Cardinality(Threads)

Idle == [pc |-> "idle", what |-> Null, handler |-> Null, to |-> Null, using |-> Null]

Init ==
    /\ collector \in Collectors \cup {Null} /\ streams \in Choices
    /\ up = Collectors
    /\ conn = [s \in Conns |-> Null] /\ sock = Null /\ sig = Null
    /\ locker = Null /\ holder = [h \in Handlers |-> Null]
    /\ thread = [t \in Threads |-> Idle]
    /\ warned = FALSE
    /\ tested = {} /\ excused = TRUE
    /\ records = 0

Becomes(t, k) == thread' = [thread EXCEPT ![t] = k]
At(t, pc) == thread[t].pc = pc
Goes(t, pc) == Becomes(t, [thread[t] EXCEPT !.pc = pc])
Testing(t) == thread[t].what = "test"

Forwarded(stream) == collector # Null /\ stream \in streams

-----------------------------------------------------------------------------
(* A record is logged *)

\* Records below ERROR reach the main handler, which forwards them as activity.
StreamOf(h) == IF h = "main" THEN "activity" ELSE h

RecordLogged(t, h) ==
    /\ records < MaxRecords /\ records' = records + 1
    /\ At(t, "idle")
    /\ Becomes(t, [Idle EXCEPT !.pc = "entering", !.what = StreamOf(h), !.handler = h])
    /\ UNCHANGED <<settings, up, shared, locks, warned, history>>

HandlerEntered(t) ==
    LET h == thread[t].handler IN
    /\ At(t, "entering") /\ holder[h] = Null
    /\ holder' = [holder EXCEPT ![h] = t]
    /\ Goes(t, "asking")
    /\ UNCHANGED <<settings, up, shared, locker, warned, history, records>>

\* The activity log forwards the row it has written, through no handler.
RowLogged(t) ==
    /\ records < MaxRecords /\ records' = records + 1
    /\ At(t, "idle")
    /\ Becomes(t, [Idle EXCEPT !.pc = "asking", !.what = "activity"])
    /\ UNCHANGED <<settings, up, shared, locks, warned, history>>

\* Mutant of Left: the shared connection stays locked.
LeftLocked(t) ==
    /\ holder' = [h \in Handlers |-> IF holder[h] = t THEN Null ELSE holder[h]]
    /\ UNCHANGED locker
    /\ Becomes(t, Idle)

\* The record is done with, however it went: emit never raises.
Left(t) ==
    /\ holder' = [h \in Handlers |-> IF holder[h] = t THEN Null ELSE holder[h]]
    /\ locker' = IF locker = t THEN Null ELSE locker
    /\ Becomes(t, Idle)

\* The switches are read for every record, by the handler and again by emit.
Asked(t) ==
    /\ At(t, "asking")
    /\ IF Forwarded(thread[t].what)
       THEN Becomes(t, [thread[t] EXCEPT !.pc = "locking", !.to = collector]) /\ UNCHANGED locks
       ELSE Left(t)
    /\ tested' = tested \ {t}
    /\ UNCHANGED <<settings, up, shared, warned, excused, records>>

\* A thread that logs its failure waits here for itself.
Locked(t) ==
    /\ At(t, "locking") \/ At(t, "relocking")
    /\ locker = Null /\ locker' = t
    /\ Goes(t, "matching")
    /\ UNCHANGED <<settings, up, shared, holder, warned, history, records>>

-----------------------------------------------------------------------------
(* The shared connection *)

\* A test of the connection changes it without the lock.
Meddled(t) ==
    IF Testing(t)
    THEN excused' = TRUE /\ tested' = tested \cup {u \in Threads \ {t} : ~At(u, "idle")}
    ELSE UNCHANGED history

Closed(s) == [r \in Conns |-> IF r = s THEN Null ELSE conn[r]]

\* Mutant of Matching: any connection will do.
MatchingAny(t) == sock # Null

Matching(t) == sock # Null /\ sig = thread[t].to

Matched(t) ==
    /\ At(t, "matching") /\ Matching(t)
    /\ Goes(t, "taking")
    /\ UNCHANGED <<settings, up, shared, locks, warned, history, records>>

\* The connection to another collector is closed before the new one is opened.
Mismatched(t) ==
    /\ At(t, "matching") /\ ~Matching(t)
    /\ Goes(t, "connecting")
    /\ conn' = Closed(sock)
    /\ Meddled(t)
    /\ UNCHANGED <<settings, up, sock, sig, locks, warned, records>>

\* The connection is looked up again to be returned: a test may have replaced it.
Taken(t) ==
    /\ At(t, "taking")
    /\ Becomes(t, [thread[t] EXCEPT !.pc = "sending", !.using = sock])
    /\ UNCHANGED <<settings, up, shared, locks, warned, history, records>>

Free(s) == s # sock /\ \A t \in Threads : thread[t].using # s

Connected(t, s) ==
    /\ At(t, "connecting") /\ thread[t].to \in up
    /\ Free(s) /\ \A r \in Conns : r < s => ~Free(r)
    /\ Becomes(t, [thread[t] EXCEPT !.pc = "sending", !.using = s])
    /\ conn' = [conn EXCEPT ![s] = thread[t].to] /\ sock' = s /\ sig' = thread[t].to
    /\ Meddled(t)
    /\ UNCHANGED <<settings, up, locks, warned, records>>

\* A test answers with the failure and leaves the shared connection as it is.
Failing(t) == IF Testing(t) THEN "tested" ELSE "failed"

\* A record is lost; the loss is excused once by what happened to the connection.
Lost(t) ==
    /\ Goes(t, Failing(t))
    /\ excused' = (excused /\ Testing(t))

NotConnected(t) ==
    /\ At(t, "connecting") /\ thread[t].to \notin up
    /\ Lost(t)
    /\ UNCHANGED <<settings, up, shared, locks, warned, tested, records>>

Working(s) == s # Null /\ conn[s] # Null

Sent(t) ==
    /\ At(t, "sending") /\ Working(thread[t].using)
    /\ IF Testing(t) THEN Goes(t, "tested") /\ UNCHANGED locks ELSE Left(t)
    /\ UNCHANGED <<settings, up, shared, warned, history, records>>

NotSent(t) ==
    /\ At(t, "sending") /\ ~Working(thread[t].using)
    /\ Lost(t)
    /\ UNCHANGED <<settings, up, shared, locks, warned, tested, records>>

-----------------------------------------------------------------------------
(* A failure, logged while the shared connection is locked *)

\* The warning goes to the main handler, and from there to the collector again
\* if activity is forwarded; the handler's lock is reentrant.
Warned(t) ==
    /\ At(t, "failed") /\ ~warned
    /\ holder["main"] \in {Null, t}
    /\ IF Forwarded("activity")
       THEN /\ Goes(t, "relocking") /\ holder' = [holder EXCEPT !["main"] = t]
            /\ UNCHANGED warned
       ELSE /\ Goes(t, "dropping") /\ warned' = TRUE
            /\ UNCHANGED holder
    /\ UNCHANGED <<settings, up, shared, locker, history, records>>

WarnedLately(t) ==
    /\ At(t, "failed") /\ warned
    /\ Goes(t, "dropping")
    /\ UNCHANGED <<settings, up, shared, locks, warned, history, records>>

\* Mutant of Dropped: the connection that failed stays the shared one.
DroppedNothing(t) ==
    /\ At(t, "dropping")
    /\ Left(t)
    /\ UNCHANGED <<settings, up, shared, warned, history, records>>

\* The next record opens a connection of its own.
Dropped(t) ==
    /\ At(t, "dropping")
    /\ conn' = Closed(sock) /\ sock' = Null
    /\ Left(t)
    /\ UNCHANGED <<settings, up, sig, warned, history, records>>

-----------------------------------------------------------------------------
(* A test of the connection, a save of the settings, and the surroundings *)

TestAsked(t) ==
    /\ records < MaxRecords /\ records' = records + 1
    /\ At(t, "idle") /\ collector # Null
    /\ Becomes(t, [Idle EXCEPT !.pc = "invalidating", !.what = "test", !.to = collector])
    /\ UNCHANGED <<settings, up, shared, locks, warned, history>>

\* The only part of a test that takes the lock, and gives it back.
Invalidated(t) ==
    /\ At(t, "invalidating") /\ locker = Null
    /\ conn' = Closed(sock) /\ sock' = Null /\ sig' = Null
    /\ IF Testing(t) THEN Goes(t, "matching") ELSE Becomes(t, Idle)
    /\ Meddled(t)
    /\ UNCHANGED <<settings, up, locks, warned, records>>

\* The outcome of a test is a row of the activity log.
Tested(t) ==
    /\ At(t, "tested")
    /\ Becomes(t, [Idle EXCEPT !.pc = "asking", !.what = "activity"])
    /\ UNCHANGED <<settings, up, shared, locks, warned, history, records>>

\* The settings are stored first, the connection is dropped after.
SettingsSaved(t, c, on) ==
    /\ records < MaxRecords /\ records' = records + 1
    /\ At(t, "idle")
    /\ collector' = c /\ streams' = on
    /\ Becomes(t, [Idle EXCEPT !.pc = "invalidating", !.what = "save"])
    /\ UNCHANGED <<up, shared, locks, warned, history>>

WentDown(c) ==
    /\ up' = up \ {c}
    /\ conn' = [s \in Conns |-> IF conn[s] = c THEN Null ELSE conn[s]]
    /\ excused' = TRUE
    /\ UNCHANGED <<settings, sock, sig, locks, thread, warned, tested, records>>

CameUp(c) ==
    /\ up' = up \cup {c}
    /\ UNCHANGED <<settings, shared, locks, thread, warned, history, records>>

MinutePassed ==
    /\ warned' = FALSE
    /\ UNCHANGED <<settings, up, shared, locks, thread, history, records>>

Step(t) ==
    \/ HandlerEntered(t) \/ Asked(t) \/ Locked(t) \/ Invalidated(t)
    \/ Matched(t) \/ Mismatched(t) \/ Taken(t) \/ \E s \in Conns : Connected(t, s)
    \/ NotConnected(t) \/ Sent(t) \/ NotSent(t)
    \/ Warned(t) \/ WarnedLately(t) \/ Dropped(t) \/ Tested(t)

Next ==
    \/ \E t \in Threads : \/ Step(t) \/ RowLogged(t) \/ TestAsked(t)
                          \/ \E h \in Handlers : RecordLogged(t, h)
    \/ \E t \in Threads, c \in Collectors \cup {Null}, on \in Choices : SettingsSaved(t, c, on)
    \/ \E c \in Collectors : WentDown(c) \/ CameUp(c)
    \/ MinutePassed

Spec == Init /\ [][Next]_vars

\* A thread goes on, and gets a lock that is free again and again.
FairSpec == Spec /\ \A t \in Threads : SF_vars(Step(t))
==============================================================================
