----------------------------- MODULE SyslogProps -----------------------------
(***************************************************************************)
(* What forwarding to syslog promises the code that logs.                  *)
(***************************************************************************)
EXTENDS Syslog

Phases == {"idle", "entering", "asking", "locking", "matching", "taking", "connecting", "sending",
           "failed", "relocking", "dropping", "invalidating", "tested"}
Locking == {"matching", "taking", "connecting", "sending", "failed", "relocking", "dropping"}

\* Every variable stays in its domain, and a thread holds the lock of the
\* shared connection exactly while it forwards a record over it.
TypeOK ==
    /\ collector \in Collectors \cup {Null} /\ streams \in Choices
    /\ up \subseteq Collectors
    /\ conn \in [Conns -> Collectors \cup {Null}]
    /\ sock \in Conns \cup {Null} /\ sig \in Collectors \cup {Null}
    /\ locker \in Threads \cup {Null} /\ holder \in [Handlers -> Threads \cup {Null}]
    /\ thread \in [Threads -> [pc : Phases, what : Streams \cup {"test", "save", Null},
                               handler : Handlers \cup {Null}, to : Collectors \cup {Null},
                               using : Conns \cup {Null}]]
    /\ warned \in BOOLEAN /\ excused \in BOOLEAN /\ tested \subseteq Threads
    /\ records \in 0 .. MaxRecords
    /\ \A t \in Threads : locker = t <=> thread[t].pc \in Locking /\ ~Testing(t)

\* A record goes to the collector that was configured when it was forwarded,
\* though another thread has used the connection for another one meanwhile;
\* only a test of the connection can lead it astray (_ensure_socket).
SentWhereConfigured ==
    \A t \in Threads :
        At(t, "sending") /\ ~Testing(t) /\ Working(thread[t].using) /\ t \notin tested
        => conn[thread[t].using] = thread[t].to

\* A broken connection is noticed once: the next record whose sending fails, while
\* its collector answers, comes after another failure of a collector or a test
\* (emit). Records lost without an error are not counted: datagrams, and the first
\* segment sent on a connection that the collector has closed.
OneLossPerFailure ==
    [][\A t \in Threads :
         /\ thread[t].pc \in {"sending", "connecting"} /\ thread'[t].pc = "failed"
         /\ thread[t].to \in up
         => excused]_vars

\* "emit() never raises ... a broken collector cannot cripple the request path"
\* (syslog_service.py:12): whatever happens to the collector, the thread that
\* logs goes on.
LoggingEnds == \A t \in Threads : thread[t].pc # "idle" ~> thread[t].pc = "idle"
==============================================================================
