----------------------------- MODULE SyslogProofs -----------------------------
(***************************************************************************)
(* Proofs about the syslog forwarder, for any threads and collectors: the  *)
(* types and the lock, SentWhereConfigured and OneLossPerFailure.          *)
(***************************************************************************)
EXTENDS SyslogProps, FiniteSetTheorems, TLAPS

Wait == {"idle", "entering", "asking", "locking"}

\* A test never holds the lock, and is the only one that answers.
Role(k) ==
    /\ k.what = "test" => k.pc \in {"invalidating", "matching", "taking", "connecting",
                                    "sending", "tested"}
    /\ k.pc = "tested" => k.what = "test"
    /\ k.pc = "invalidating" => k.what \in {"test", "save"}
    /\ k.pc = "entering" => k.handler \in Handlers
Roles == \A t \in Threads : Role(thread[t])

\* The shared connection, while it works, reaches the collector it was opened for.
SharedReaches == Working(sock) => conn[sock] = sig

\* What a thread matched stays matched while it holds the lock, tests aside.
MatchKept ==
    \A t \in Threads :
        At(t, "taking") /\ ~Testing(t) /\ t \notin tested => sig = thread[t].to

\* While no loss is excused, a connection that does not work is being replaced.
Recovering(k) == k.what # "test" /\ k.pc \in {"connecting", "failed", "relocking", "dropping"}
BrokenIsReplaced ==
    excused \/ sock = Null \/ Working(sock) \/ \E t \in Threads : Recovering(thread[t])
TakenWorks == \A t \in Threads : At(t, "taking") /\ ~Testing(t) => excused \/ Working(sock)
UsedWorks ==
    \A t \in Threads : At(t, "sending") /\ ~Testing(t) => excused \/ Working(thread[t].using)

Reaches == SharedReaches /\ MatchKept /\ SentWhereConfigured
Works == BrokenIsReplaced /\ TakenWorks /\ UsedWorks
Inv == TypeOK /\ Roles /\ Reaches /\ Works

USE SyslogAssumption
-----------------------------------------------------------------------------
(* Connections and the lock *)

LEMMA ConnsAreNumbers == Conns \subseteq Nat /\ Null \notin Conns
  <1>1. Cardinality(Threads) \in Nat
    BY FS_CardinalityType
  <1> QED BY <1>1 DEF Conns

LEMMA ClosedIs ==
    ASSUME conn \in [Conns -> Collectors \cup {Null}]
    PROVE  \A s : /\ Closed(s) \in [Conns -> Collectors \cup {Null}]
                  /\ \A r \in Conns : Closed(s)[r] # Null => r # s /\ Closed(s)[r] = conn[r]
  BY DEF Closed

\* One thread at a time forwards a record over the shared connection.
LEMMA OneForwards ==
    ASSUME TypeOK, NEW t \in Threads, NEW u \in Threads,
           thread[t].pc \in Locking, ~Testing(t), thread[u].pc \in Locking, ~Testing(u)
    PROVE  t = u
  BY DEF TypeOK

Item == [pc : Phases, what : Streams \cup {"test", "save", Null},
         handler : Handlers \cup {Null}, to : Collectors \cup {Null},
         using : Conns \cup {Null}]

LEMMA IdleItem == Idle \in Item /\ Role(Idle) /\ Idle.pc = "idle" /\ Idle.what = Null
  BY DEF Idle, Item, Phases, Role

\* Changes of what a thread forwards.
LEMMA PhaseChange ==
    ASSUME NEW k \in Item, NEW p \in Phases
    PROVE  LET n == [k EXCEPT !.pc = p] IN
           /\ n \in Item /\ n.pc = p /\ n.what = k.what /\ n.to = k.to
           /\ n.using = k.using /\ n.handler = k.handler
  BY DEF Item

LEMMA UsingChange ==
    \A k \in Item, s \in Conns \cup {Null} :
        LET n == [k EXCEPT !.pc = "sending", !.using = s] IN
        n \in Item /\ n.pc = "sending" /\ n.what = k.what /\ n.to = k.to /\ n.using = s
  BY DEF Item, Phases

LEMMA FreshItem ==
    ASSUME NEW p \in Phases, NEW w \in Streams \cup {"test", "save"}
    PROVE  LET n == [Idle EXCEPT !.pc = p, !.what = w] IN n \in Item /\ n.pc = p /\ n.what = w
  BY DEF Idle, Item, Phases

-----------------------------------------------------------------------------
(* Types and the lock *)

\* A step of one thread keeps the types and the lock, if what the thread
\* forwards next is well-formed and holds the lock exactly when it should.
LEMMA OneMoves ==
    ASSUME TypeOK, Roles, NEW t \in Threads, NEW n \in Item,
           thread' = [thread EXCEPT ![t] = n], Role(n),
           collector' \in Collectors \cup {Null}, streams' \in Choices, up' = up,
           conn' \in [Conns -> Collectors \cup {Null}],
           sock' \in Conns \cup {Null}, sig' \in Collectors \cup {Null},
           holder' \in [Handlers -> Threads \cup {Null}],
           warned' \in BOOLEAN, excused' \in BOOLEAN, tested' \subseteq Threads,
           records' \in 0 .. MaxRecords,
           locker' \in {locker, t, Null},
           locker' # locker => locker \in {t, Null},
           locker' = t <=> n.pc \in Locking /\ n.what # "test"
    PROVE  TypeOK' /\ Roles'
  <1>1. thread \in [Threads -> Item]
    BY DEF TypeOK, Item
  <1>2. thread' \in [Threads -> Item] /\ thread'[t] = n /\ \A u \in Threads \ {t} : thread'[u] = thread[u]
    BY <1>1
  <1>3. Roles'
    BY <1>2 DEF Roles
  <1>4. ASSUME NEW u \in Threads
        PROVE  locker' = u <=> thread'[u].pc \in Locking /\ thread'[u].what # "test"
    <2>1. CASE u = t
      BY <1>2, <2>1
    <2>2. CASE u # t
      <3>1. locker' = u <=> locker = u
        BY <2>2 DEF TypeOK
      <3>2. thread'[u] = thread[u]
        BY <1>2, <2>2
      <3> QED BY <3>1, <3>2 DEF TypeOK, Testing
    <2> QED BY <2>1, <2>2
  <1>5. locker' \in Threads \cup {Null}
    BY DEF TypeOK
  <1>6. up' \subseteq Collectors
    BY DEF TypeOK
  <1> QED BY <1>2, <1>3, <1>4, <1>5, <1>6 DEF TypeOK, Testing, Item

LEMMA InitTyped == Init => TypeOK /\ Roles
  <1> SUFFICES ASSUME Init PROVE TypeOK /\ Roles
    OBVIOUS
  <1>1. Roles
    BY IdleItem DEF Init, Roles
  <1>2. thread \in [Threads -> Item]
    BY IdleItem DEF Init
  <1>3. \A t \in Threads : locker = t <=> thread[t].pc \in Locking /\ ~Testing(t)
    BY IdleItem DEF Init, Locking
  <1>4. conn \in [Conns -> Collectors \cup {Null}] /\ holder \in [Handlers -> Threads \cup {Null}]
    BY DEF Init
  <1>5. records \in 0 .. MaxRecords
    BY DEF Init
  <1> QED BY <1>1, <1>2, <1>3, <1>4, <1>5 DEF Init, TypeOK, Item

\* The step of a thread that changes its phase and nothing of the rest that
\* the types and the lock depend on.
LEMMA PhaseMoves ==
    ASSUME TypeOK, Roles, NEW t \in Threads, NEW p \in Phases,
           Goes(t, p), Role([thread[t] EXCEPT !.pc = p]),
           UNCHANGED <<settings, up, sock, sig, locker, records>>,
           conn' \in [Conns -> Collectors \cup {Null}],
           holder' \in [Handlers -> Threads \cup {Null}],
           warned' \in BOOLEAN, excused' \in BOOLEAN, tested' \subseteq Threads,
           thread[t].what # "test" => (thread[t].pc \in Locking <=> p \in Locking)
    PROVE  TypeOK' /\ Roles'
  <1> DEFINE n == [thread[t] EXCEPT !.pc = p]
  <1>1. thread[t] \in Item
    BY DEF TypeOK, Item
  <1>2. n \in Item /\ n.pc = p /\ n.what = thread[t].what
    BY <1>1, PhaseChange
  <1>3. locker = t <=> thread[t].pc \in Locking /\ thread[t].what # "test"
    BY DEF TypeOK, Testing
  <1>4. locker' = t <=> n.pc \in Locking /\ n.what # "test"
    BY <1>2, <1>3
  <1>5. /\ collector' \in Collectors \cup {Null} /\ streams' \in Choices /\ up' = up
        /\ sock' \in Conns \cup {Null} /\ sig' \in Collectors \cup {Null}
        /\ records' \in 0 .. MaxRecords /\ locker' = locker
    BY DEF TypeOK, settings
  <1>6. thread' = [thread EXCEPT ![t] = n] /\ Role(n)
    BY DEF Goes, Becomes
  <1> HIDE DEF n
  <1> QED BY <1>2, <1>4, <1>5, <1>6, OneMoves

\* The step of a thread that is done with its record.
LEMMA LeavesTyped ==
    ASSUME TypeOK, Roles, NEW t \in Threads, Left(t),
           UNCHANGED <<settings, up, sig, warned, records>>,
           conn' \in [Conns -> Collectors \cup {Null}],
           sock' \in Conns \cup {Null},
           excused' \in BOOLEAN, tested' \subseteq Threads
    PROVE  TypeOK' /\ Roles'
  <1>1. locker' # t /\ locker' \in {locker, Null} /\ (locker' # locker => locker = t)
    BY DEF Left
  <1>2. holder' \in [Handlers -> Threads \cup {Null}]
    BY DEF Left, TypeOK
  <1>3. Idle \in Item /\ Role(Idle) /\ Idle.pc \notin Locking
    BY IdleItem DEF Locking
  <1> QED BY <1>1, <1>2, <1>3, OneMoves DEF TypeOK, Left, Becomes, settings

\* What an idle thread starts to do.
LEMMA StartsTyped ==
    ASSUME TypeOK, Roles, NEW t \in Threads, At(t, "idle"), NEW n \in Item, Becomes(t, n), Role(n),
           n.pc \notin Locking,
           collector' \in Collectors \cup {Null}, streams' \in Choices,
           UNCHANGED <<up, shared, locks, warned, history>>,
           records < MaxRecords, records' = records + 1
    PROVE  TypeOK' /\ Roles'
  <1>1. locker' # t
    BY DEF TypeOK, At, Locking, locks
  <1>2. records' \in 0 .. MaxRecords
    BY DEF TypeOK
  <1> QED BY <1>1, <1>2, OneMoves DEF TypeOK, Becomes, shared, locks, history

LEMMA StepTyped ==
    ASSUME TypeOK, Roles, NEW t \in Threads, Step(t)
    PROVE  TypeOK' /\ Roles'
  <1> USE DEF settings, shared, locks, history, At
  <1>k. thread[t] \in Item /\ Role(thread[t])
    BY DEF TypeOK, Item, Roles
  <1>l. locker = t <=> thread[t].pc \in Locking /\ thread[t].what # "test"
    BY DEF TypeOK, Testing
  <1>s. /\ sock \in Conns \cup {Null} /\ collector \in Collectors \cup {Null}
        /\ "sending" \in Phases /\ "locking" \in Phases
    BY DEF TypeOK, Phases
  <1>p. ASSUME NEW p \in Phases
        PROVE  /\ [thread[t] EXCEPT !.pc = p].pc = p
               /\ [thread[t] EXCEPT !.pc = p].what = thread[t].what
               /\ [thread[t] EXCEPT !.pc = p].handler = thread[t].handler
    BY <1>k, PhaseChange
  <1>c. \A s : Closed(s) \in [Conns -> Collectors \cup {Null}]
    BY ClosedIs DEF TypeOK
  <1>m. ASSUME Meddled(t)
        PROVE  excused' \in BOOLEAN /\ tested' \subseteq Threads
    BY <1>m DEF Meddled, TypeOK
  <1>1. ASSUME HandlerEntered(t)
        PROVE  TypeOK' /\ Roles'
    <2>1. holder' \in [Handlers -> Threads \cup {Null}]
      BY <1>1 DEF HandlerEntered, TypeOK
    <2>2. "asking" \in Phases /\ "asking" \notin Locking /\ "entering" \notin Locking
      BY DEF Phases, Locking
    <2>3. Role([thread[t] EXCEPT !.pc = "asking"])
      BY <1>1, <1>k, <1>p, <2>2 DEF HandlerEntered, Role
    <2> QED BY <1>1, <2>1, <2>2, <2>3, PhaseMoves DEF HandlerEntered, TypeOK
  <1>2. ASSUME Asked(t)
        PROVE  TypeOK' /\ Roles'
    <2>1. CASE Forwarded(thread[t].what)
      <3> DEFINE n == [thread[t] EXCEPT !.pc = "locking", !.to = collector]
      <3>1. n \in Item /\ n.pc = "locking" /\ n.what = thread[t].what
        BY <1>k, <1>s DEF Item
      <3>2. Role(n)
        BY <1>2, <1>k, <3>1 DEF Asked, Role
      <3>3. locker' # t /\ locker' = locker
        BY <1>2, <1>l, <2>1 DEF Asked, Locking
      <3>4. n.pc \notin Locking
        BY <3>1 DEF Locking
      <3> HIDE DEF n
      <3>5. thread' = [thread EXCEPT ![t] = n]
        BY <1>2, <2>1 DEF Asked, Becomes, n
      <3>6. /\ tested' \subseteq Threads /\ holder' = holder
            /\ UNCHANGED <<settings, up, shared, warned, excused, records>>
        BY <1>2, <2>1 DEF Asked, TypeOK
      <3> QED BY <3>1, <3>2, <3>3, <3>4, <3>5, <3>6, OneMoves DEF TypeOK
    <2>2. CASE ~Forwarded(thread[t].what)
      BY <1>2, <2>2, LeavesTyped DEF Asked, TypeOK
    <2> QED BY <2>1, <2>2
  <1>3. ASSUME Locked(t)
        PROVE  TypeOK' /\ Roles'
    <2> DEFINE n == [thread[t] EXCEPT !.pc = "matching"]
    <2>1. n \in Item /\ n.pc = "matching" /\ n.what = thread[t].what
      BY <1>k, PhaseChange DEF Phases
    <2>2. Role(n) /\ n.what # "test"
      BY <1>3, <1>k, <2>1 DEF Locked, Role
    <2>3. n.pc \in Locking
      BY <2>1 DEF Locking
    <2>4. thread' = [thread EXCEPT ![t] = n]
      BY <1>3 DEF Locked, Goes, Becomes
    <2> HIDE DEF n
    <2> QED BY <1>3, <2>1, <2>2, <2>3, <2>4, OneMoves DEF Locked, TypeOK
  <1>4. ASSUME Invalidated(t)
        PROVE  TypeOK' /\ Roles'
    <2>1. CASE Testing(t)
      <3> DEFINE n == [thread[t] EXCEPT !.pc = "matching"]
      <3>1. n \in Item /\ n.pc = "matching" /\ n.what = "test"
        BY <1>k, <2>1, PhaseChange DEF Phases, Testing
      <3>2. Role(n)
        BY <3>1 DEF Role
      <3>3. thread' = [thread EXCEPT ![t] = n]
        BY <1>4, <2>1 DEF Invalidated, Goes, Becomes
      <3>4. locker' = locker /\ locker # t
        BY <1>4, SyslogAssumption DEF Invalidated
      <3> HIDE DEF n
      <3> QED BY <1>4, <1>c, <1>m, <3>1, <3>2, <3>3, <3>4, OneMoves DEF Invalidated, TypeOK
    <2>2. CASE ~Testing(t)
      <3>1. Idle \in Item /\ Role(Idle) /\ Idle.pc \notin Locking
        BY IdleItem DEF Locking
      <3>2. thread' = [thread EXCEPT ![t] = Idle]
        BY <1>4, <2>2 DEF Invalidated, Becomes
      <3>3. locker' = locker /\ locker # t
        BY <1>4, SyslogAssumption DEF Invalidated
      <3> QED BY <1>4, <1>c, <1>m, <3>1, <3>2, <3>3, OneMoves DEF Invalidated, TypeOK
    <2> QED BY <2>1, <2>2
  <1>5. ASSUME Matched(t)
        PROVE  TypeOK' /\ Roles'
    <2>1. "taking" \in Phases /\ "taking" \in Locking /\ "matching" \in Locking
      BY DEF Phases, Locking
    <2>2. Role([thread[t] EXCEPT !.pc = "taking"])
      BY <1>5, <1>k, <1>p, <2>1 DEF Matched, Role
    <2> QED BY <1>5, <2>1, <2>2, PhaseMoves DEF Matched, TypeOK
  <1>6. ASSUME Mismatched(t)
        PROVE  TypeOK' /\ Roles'
    <2>1. "connecting" \in Phases /\ "connecting" \in Locking /\ "matching" \in Locking
      BY DEF Phases, Locking
    <2>2. Role([thread[t] EXCEPT !.pc = "connecting"])
      BY <1>6, <1>k, <1>p, <2>1 DEF Mismatched, Role
    <2> QED BY <1>6, <1>c, <1>m, <2>1, <2>2, PhaseMoves DEF Mismatched, TypeOK
  <1>7. ASSUME Taken(t)
        PROVE  TypeOK' /\ Roles'
    <2> DEFINE n == [thread[t] EXCEPT !.pc = "sending", !.using = sock]
    <2>1. n \in Item /\ n.pc = "sending" /\ n.what = thread[t].what
      BY <1>k, <1>s, UsingChange
    <2>2. Role(n)
      BY <1>7, <1>k, <2>1 DEF Taken, Role
    <2>3. thread' = [thread EXCEPT ![t] = n]
      BY <1>7 DEF Taken, Becomes
    <2>4. locker' = locker /\ (locker = t <=> n.pc \in Locking /\ n.what # "test")
      BY <1>7, <1>l, <2>1 DEF Taken, Locking
    <2> HIDE DEF n
    <2> QED BY <1>7, <2>1, <2>2, <2>3, <2>4, OneMoves DEF Taken, TypeOK
  <1>8. ASSUME NEW s \in Conns, Connected(t, s)
        PROVE  TypeOK' /\ Roles'
    <2> DEFINE n == [thread[t] EXCEPT !.pc = "sending", !.using = s]
    <2>1. n \in Item /\ n.pc = "sending" /\ n.what = thread[t].what
      BY <1>k, <1>s, UsingChange
    <2>2. Role(n)
      BY <1>8, <1>k, <2>1 DEF Connected, Role
    <2>3. thread' = [thread EXCEPT ![t] = n]
      BY <1>8 DEF Connected, Becomes
    <2>4. locker' = locker /\ (locker = t <=> n.pc \in Locking /\ n.what # "test")
      BY <1>8, <1>l, <2>1 DEF Connected, Locking
    <2>5. thread[t].to \in Collectors
      BY <1>8 DEF Connected, TypeOK
    <2>6. conn' \in [Conns -> Collectors \cup {Null}]
      BY <1>8, <2>5 DEF Connected, TypeOK
    <2> HIDE DEF n
    <2> QED BY <1>8, <1>m, <2>1, <2>2, <2>3, <2>4, <2>5, <2>6, OneMoves DEF Connected, TypeOK
  <1>9. ASSUME Lost(t), thread[t].pc \in {"connecting", "sending"},
               UNCHANGED <<settings, up, shared, locks, warned, tested, records>>
        PROVE  TypeOK' /\ Roles'
    <2>1. /\ Failing(t) \in Phases /\ thread[t].pc \in Locking
          /\ thread[t].what # "test" => Failing(t) \in Locking
      BY <1>9 DEF Failing, Testing, Phases, Locking
    <2>2. Role([thread[t] EXCEPT !.pc = Failing(t)])
      BY <1>9, <1>k, <1>p, <2>1 DEF Role, Failing, Testing
    <2>3. excused' \in BOOLEAN
      BY <1>9 DEF Lost, TypeOK
    <2> QED BY <1>9, <2>1, <2>2, <2>3, PhaseMoves DEF Lost, TypeOK
  <1>10. ASSUME Sent(t)
         PROVE  TypeOK' /\ Roles'
    <2>1. CASE Testing(t)
      <3>1. "tested" \in Phases
        BY DEF Phases
      <3>2. Role([thread[t] EXCEPT !.pc = "tested"])
        BY <1>k, <1>p, <2>1, <3>1 DEF Role, Testing
      <3> QED BY <1>10, <2>1, <3>1, <3>2, PhaseMoves DEF Sent, TypeOK, Testing
    <2>2. CASE ~Testing(t)
      BY <1>10, <2>2, LeavesTyped DEF Sent, TypeOK
    <2> QED BY <2>1, <2>2
  <1>11. ASSUME Warned(t)
         PROVE  TypeOK' /\ Roles'
    <2>1. {"failed", "relocking", "dropping"} \subseteq Phases \cap Locking
      BY DEF Phases, Locking
    <2>2. holder' \in [Handlers -> Threads \cup {Null}] /\ warned' \in BOOLEAN
      <3>1. holder' = holder \/ holder' = [holder EXCEPT !["main"] = t]
        BY <1>11 DEF Warned
      <3>2. warned' = warned \/ warned' = TRUE
        BY <1>11 DEF Warned
      <3>3. holder \in [Handlers -> Threads \cup {Null}] /\ warned \in BOOLEAN
        BY DEF TypeOK
      <3>4. holder' \in [Handlers -> Threads \cup {Null}]
        BY <3>1, <3>3
      <3> QED BY <3>2, <3>3, <3>4
    <2>3. ASSUME NEW p \in {"relocking", "dropping"}
          PROVE  Role([thread[t] EXCEPT !.pc = p])
      BY <1>11, <1>k, <1>p, <2>1 DEF Warned, Role
    <2>4. Goes(t, "relocking") \/ Goes(t, "dropping")
      BY <1>11 DEF Warned
    <2> QED BY <1>11, <2>1, <2>2, <2>3, <2>4, PhaseMoves DEF Warned, TypeOK
  <1>12. ASSUME WarnedLately(t)
         PROVE  TypeOK' /\ Roles'
    <2>1. {"failed", "dropping"} \subseteq Phases \cap Locking
      BY DEF Phases, Locking
    <2>2. Role([thread[t] EXCEPT !.pc = "dropping"])
      BY <1>12, <1>k, <1>p, <2>1 DEF WarnedLately, Role
    <2> QED BY <1>12, <2>1, <2>2, PhaseMoves DEF WarnedLately, TypeOK
  <1>13. ASSUME Dropped(t)
         PROVE  TypeOK' /\ Roles'
    BY <1>13, <1>c, LeavesTyped DEF Dropped, TypeOK
  <1>14. ASSUME Tested(t)
         PROVE  TypeOK' /\ Roles'
    <2> DEFINE n == [Idle EXCEPT !.pc = "asking", !.what = "activity"]
    <2>1. n \in Item /\ n.pc = "asking" /\ n.what = "activity"
      BY FreshItem DEF Phases, Streams
    <2>2. Role(n) /\ n.pc \notin Locking
      BY <2>1 DEF Role, Locking
    <2>3. thread' = [thread EXCEPT ![t] = n]
      BY <1>14 DEF Tested, Becomes
    <2>4. locker' = locker /\ locker # t
      BY <1>14, <1>k, <1>l DEF Tested, Role
    <2> HIDE DEF n
    <2> QED BY <1>14, <2>1, <2>2, <2>3, <2>4, OneMoves DEF Tested, TypeOK
  <1>15. ASSUME NotConnected(t) \/ NotSent(t)
         PROVE  TypeOK' /\ Roles'
    BY <1>9, <1>15 DEF NotConnected, NotSent
  <1> QED BY <1>1, <1>2, <1>3, <1>4, <1>5, <1>6, <1>7, <1>8, <1>10, <1>11, <1>12, <1>13,
             <1>14, <1>15 DEF Step

LEMMA NextTyped ==
    ASSUME TypeOK, Roles, [Next]_vars
    PROVE  TypeOK' /\ Roles'
  <1> USE DEF settings, shared, locks, history
  <1>s. {"asking", "entering", "invalidating"} \subseteq Phases \ Locking
    BY DEF Phases, Locking
  <1>1. ASSUME NEW t \in Threads, RowLogged(t)
        PROVE  TypeOK' /\ Roles'
    <2> DEFINE n == [Idle EXCEPT !.pc = "asking", !.what = "activity"]
    <2>1. n \in Item /\ n.pc = "asking" /\ n.what = "activity"
      BY <1>s, FreshItem DEF Streams
    <2>2. Role(n) /\ n.pc \notin Locking
      BY <1>s, <2>1 DEF Role
    <2>3. Becomes(t, n)
      BY <1>1 DEF RowLogged
    <2> HIDE DEF n
    <2> QED BY <1>1, <2>1, <2>2, <2>3, StartsTyped DEF RowLogged, TypeOK
  <1>2. ASSUME NEW t \in Threads, TestAsked(t)
        PROVE  TypeOK' /\ Roles'
    <2> DEFINE n == [Idle EXCEPT !.pc = "invalidating", !.what = "test", !.to = collector]
    <2>0. collector \in Collectors \cup {Null} /\ "invalidating" \in Phases
      BY <1>s DEF TypeOK
    <2>1. n \in Item /\ n.pc = "invalidating" /\ n.what = "test"
      BY <2>0 DEF Idle, Item
    <2>2. Role(n) /\ n.pc \notin Locking
      BY <1>s, <2>1 DEF Role
    <2>3. Becomes(t, n)
      BY <1>2 DEF TestAsked
    <2> HIDE DEF n
    <2> QED BY <1>2, <2>1, <2>2, <2>3, StartsTyped DEF TestAsked, TypeOK
  <1>3. ASSUME NEW t \in Threads, NEW h \in Handlers, RecordLogged(t, h)
        PROVE  TypeOK' /\ Roles'
    <2> DEFINE n == [Idle EXCEPT !.pc = "entering", !.what = StreamOf(h), !.handler = h]
    <2>0. StreamOf(h) \in Streams /\ "entering" \in Phases
      BY <1>s DEF StreamOf, Streams, Handlers
    <2>1. n \in Item /\ n.pc = "entering" /\ n.what = StreamOf(h) /\ n.handler = h
      BY <2>0 DEF Idle, Item
    <2>2. Role(n) /\ n.pc \notin Locking
      BY <1>s, <2>0, <2>1 DEF Role, Streams
    <2>3. Becomes(t, n)
      BY <1>3 DEF RecordLogged
    <2> HIDE DEF n
    <2> QED BY <1>3, <2>1, <2>2, <2>3, StartsTyped DEF RecordLogged, TypeOK
  <1>4. ASSUME NEW t \in Threads, NEW c \in Collectors \cup {Null}, NEW on \in Choices,
               SettingsSaved(t, c, on)
        PROVE  TypeOK' /\ Roles'
    <2> DEFINE n == [Idle EXCEPT !.pc = "invalidating", !.what = "save"]
    <2>1. n \in Item /\ n.pc = "invalidating" /\ n.what = "save"
      BY <1>s, FreshItem
    <2>2. Role(n) /\ n.pc \notin Locking
      BY <1>s, <2>1 DEF Role
    <2>3. Becomes(t, n)
      BY <1>4 DEF SettingsSaved
    <2> HIDE DEF n
    <2> QED BY <1>4, <2>1, <2>2, <2>3, StartsTyped DEF SettingsSaved, TypeOK
  <1>5. ASSUME UNCHANGED <<settings, sock, sig, locks, thread, tested, records>>,
               up' \subseteq Collectors, conn' \in [Conns -> Collectors \cup {Null}],
               excused' \in BOOLEAN, warned' \in BOOLEAN
        PROVE  TypeOK' /\ Roles'
    <2>1. Roles'
      BY <1>5 DEF Roles
    <2>2. \A t \in Threads : locker' = t <=> thread'[t].pc \in Locking /\ ~Testing(t)'
      BY <1>5 DEF TypeOK, Testing
    <2> QED BY <1>5, <2>1, <2>2 DEF TypeOK
  <1>6. ASSUME NEW c \in Collectors, WentDown(c) \/ CameUp(c)
        PROVE  TypeOK' /\ Roles'
    <2>1. up' \subseteq Collectors /\ conn' \in [Conns -> Collectors \cup {Null}]
      BY <1>6 DEF WentDown, CameUp, TypeOK
    <2> QED BY <1>5, <1>6, <2>1 DEF WentDown, CameUp, TypeOK
  <1>7. ASSUME MinutePassed
        PROVE  TypeOK' /\ Roles'
    BY <1>5, <1>7 DEF MinutePassed, TypeOK
  <1>8. ASSUME UNCHANGED vars
        PROVE  TypeOK' /\ Roles'
    BY <1>5, <1>8 DEF vars, TypeOK
  <1> QED BY StepTyped, <1>1, <1>2, <1>3, <1>4, <1>6, <1>7, <1>8 DEF Next

\* TypeOK, for every number of threads and collectors: the types, and that a
\* thread holds the lock of the shared connection exactly while it forwards a
\* record over it (_SyslogForwarder._lock).
THEOREM SyslogTyped == Spec => []TypeOK
  <1>1. Init => TypeOK /\ Roles
    BY InitTyped
  <1>2. TypeOK /\ Roles /\ [Next]_vars => TypeOK' /\ Roles'
    BY NextTyped
  <1> QED BY <1>1, <1>2, PTL DEF Spec

-----------------------------------------------------------------------------
(* Where records go, and which are lost *)

\* A step that leaves the shared connection alone, and takes the thread that
\* makes it neither to using a connection nor out of replacing one.
Quiet(t) ==
    /\ UNCHANGED <<conn, sock, sig, excused>>
    /\ tested' \in {tested, tested \ {t}}
    /\ \A u \in Threads \ {t} : thread'[u] = thread[u]
    /\ thread'[t].pc \notin {"taking", "sending"}
    /\ Recovering(thread[t]) => Recovering(thread'[t])

LEMMA QuietKeeps ==
    ASSUME Reaches, Works, NEW t \in Threads, Quiet(t)
    PROVE  Reaches' /\ Works'
  <1>1. \A s : Working(s)' <=> Working(s)
    BY DEF Quiet, Working
  <1>2. ASSUME NEW u \in Threads, thread'[u].pc \in {"taking", "sending"}
        PROVE  thread'[u] = thread[u] /\ (u \notin tested' => u \notin tested)
    BY <1>2 DEF Quiet
  <1>3. SharedReaches'
    BY <1>1 DEF Reaches, SharedReaches, Quiet, Working
  <1>4. MatchKept'
    BY <1>2 DEF Reaches, MatchKept, Quiet, At, Testing
  <1>5. SentWhereConfigured'
    BY <1>2 DEF Reaches, SentWhereConfigured, Quiet, At, Testing, Working
  <1>6. BrokenIsReplaced'
    <2>1. ASSUME NEW u \in Threads, Recovering(thread[u])
          PROVE  Recovering(thread'[u])
      BY <2>1 DEF Quiet
    <2> QED BY <1>1, <2>1 DEF Works, BrokenIsReplaced, Quiet, Working
  <1>7. TakenWorks'
    BY <1>2 DEF Works, TakenWorks, Quiet, At, Testing, Working
  <1>8. UsedWorks'
    BY <1>2 DEF Works, UsedWorks, Quiet, At, Testing, Working
  <1> QED BY <1>3, <1>4, <1>5, <1>6, <1>7, <1>8 DEF Reaches, Works

\* After a step during which no record is about to use the connection, and no
\* record does, only the connection itself is left to look at.
LEMMA NobodyUses ==
    ASSUME \A u \in Threads : thread'[u].pc \in {"taking", "sending"} => thread'[u].what = "test"
    PROVE  /\ MatchKept' /\ SentWhereConfigured'
           /\ TakenWorks' /\ UsedWorks'
  BY DEF MatchKept, SentWhereConfigured, TakenWorks, UsedWorks, At, Testing

\* After a step of a test no other record under way is held to anything.
LEMMA TestExcuses ==
    ASSUME excused', NEW t \in Threads, thread'[t].what = "test" \/ thread'[t].pc = "idle",
           \A u \in Threads \ {t} : thread'[u].pc # "idle" => u \in tested'
    PROVE  MatchKept' /\ SentWhereConfigured' /\ Works'
  <1>1. MatchKept' /\ SentWhereConfigured'
    BY DEF MatchKept, SentWhereConfigured, At, Testing
  <1>2. Works'
    BY DEF Works, BrokenIsReplaced, TakenWorks, UsedWorks
  <1> QED BY <1>1, <1>2

\* While nobody else holds the lock, no other record is on its way.
LEMMA Alone ==
    ASSUME TypeOK, NEW t \in Threads, locker \in {t, Null},
           \A u \in Threads \ {t} : thread'[u] = thread[u],
           thread'[t].pc \in {"taking", "sending"} => thread'[t].what = "test"
    PROVE  \A u \in Threads : thread'[u].pc \in {"taking", "sending"} => thread'[u].what = "test"
  <1> SUFFICES ASSUME NEW u \in Threads \ {t}, thread[u].pc \in {"taking", "sending"}
               PROVE  thread[u].what = "test"
    OBVIOUS
  <1>1. locker # u
    BY SyslogAssumption
  <1> QED BY <1>1 DEF TypeOK, Testing, Locking

LEMMA StepKeeps ==
    ASSUME TypeOK, Roles, Reaches, Works, NEW t \in Threads, Step(t)
    PROVE  Reaches' /\ Works'
  <1> USE DEF shared, locks, history, settings
  <1>k. thread[t] \in Item /\ Role(thread[t])
    BY DEF TypeOK, Item, Roles
  <1>l. locker = t <=> thread[t].pc \in Locking /\ thread[t].what # "test"
    BY DEF TypeOK, Testing
  <1>e. ASSUME NEW k, Becomes(t, k)
        PROVE  thread'[t] = k /\ \A u \in Threads \ {t} : thread'[u] = thread[u]
    BY <1>e DEF Becomes, TypeOK
  <1>g. ASSUME NEW p \in Phases, Goes(t, p)
        PROVE  /\ thread'[t].pc = p /\ thread'[t].what = thread[t].what
               /\ thread'[t].to = thread[t].to /\ thread'[t].using = thread[t].using
               /\ \A u \in Threads \ {t} : thread'[u] = thread[u]
    <2> DEFINE n == [thread[t] EXCEPT !.pc = p]
    <2>1. n.pc = p /\ n.what = thread[t].what /\ n.to = thread[t].to /\ n.using = thread[t].using
      BY <1>k, PhaseChange
    <2>2. Becomes(t, n)
      BY <1>g DEF Goes
    <2> HIDE DEF n
    <2> QED BY <2>1, <2>2, <1>e
  <1>i. ASSUME Left(t)
        PROVE  /\ thread'[t].pc = "idle" /\ thread'[t].what = Null
               /\ \A u \in Threads \ {t} : thread'[u] = thread[u]
    BY <1>i, <1>e, IdleItem DEF Left
  <1>s. ASSUME NEW s \in Conns \cup {Null}, conn' = Closed(s)
        PROVE  \A r : Working(r)' => (r = Null \/ r \notin Conns) \/ (r # s /\ conn'[r] = conn[r] /\ Working(r))
    BY <1>s DEF Closed, Working
  <1>0. sock \in Conns \cup {Null}
    BY DEF TypeOK
  <1>1. CASE HandlerEntered(t)
    BY <1>1, <1>g, QuietKeeps DEF HandlerEntered, Quiet, Recovering, At, Phases
  <1>2. CASE Asked(t)
    <2>1. /\ \A u \in Threads \ {t} : thread'[u] = thread[u]
          /\ thread'[t].pc \in {"locking", "idle"}
      <3>1. CASE Forwarded(thread[t].what)
        <4> DEFINE n == [thread[t] EXCEPT !.pc = "locking", !.to = collector]
        <4>1. n.pc = "locking"
          BY <1>k DEF Item
        <4>2. Becomes(t, n)
          BY <1>2, <3>1 DEF Asked
        <4> HIDE DEF n
        <4> QED BY <4>1, <4>2, <1>e
      <3>2. CASE ~Forwarded(thread[t].what)
        BY <1>2, <3>2, <1>i DEF Asked
      <3> QED BY <3>1, <3>2
    <2> QED BY <1>2, <2>1, QuietKeeps DEF Asked, Quiet, Recovering, At
  <1>3. CASE Locked(t)
    <2>1. thread[t].pc = "locking"
      BY <1>3, <1>k, <1>l, SyslogAssumption DEF Locked, At, Role, Locking
    <2> QED BY <1>3, <1>g, <2>1, QuietKeeps DEF Locked, Quiet, Recovering, Phases
  <1>4. CASE Invalidated(t)
    <2>1. /\ \A u \in Threads \ {t} : thread'[u] = thread[u]
          /\ thread'[t].pc \in {"matching", "idle"}
      BY <1>4, <1>g, <1>e, IdleItem DEF Invalidated, Phases
    <2>2. SharedReaches' /\ BrokenIsReplaced'
      BY <1>4 DEF Invalidated, SharedReaches, Working, BrokenIsReplaced
    <2>3. \A u \in Threads : thread'[u].pc \in {"taking", "sending"} => thread'[u].what = "test"
      BY <1>4, <2>1, Alone DEF Invalidated
    <2> QED BY <2>2, <2>3, NobodyUses DEF Reaches, Works
  <1>5. CASE Matched(t)
    <2>1. /\ thread'[t].pc = "taking" /\ thread'[t].what = thread[t].what
          /\ thread'[t].to = thread[t].to
          /\ \A u \in Threads \ {t} : thread'[u] = thread[u]
      BY <1>5, <1>g DEF Matched, Phases
    <2>2. UNCHANGED <<conn, sock, sig, tested, excused>> /\ sock # Null /\ sig = thread[t].to
      BY <1>5 DEF Matched, Matching
    <2>3. thread[t].pc = "matching"
      BY <1>5 DEF Matched, At
    <2>4. MatchKept'
      BY <2>1, <2>2 DEF Reaches, MatchKept, At, Testing
    <2>5. SharedReaches' /\ SentWhereConfigured'
      BY <2>1, <2>2 DEF Reaches, SharedReaches, SentWhereConfigured, At, Testing, Working
    <2>6. BrokenIsReplaced'
      BY <2>1, <2>2, <2>3 DEF Works, BrokenIsReplaced, Recovering, Working
    <2>7. thread[t].what # "test" => excused \/ Working(sock)
      <3> SUFFICES ASSUME thread[t].what # "test", NEW u \in Threads, Recovering(thread[u])
                   PROVE  FALSE
        BY <2>2 DEF Works, BrokenIsReplaced
      <3>1. u = t
        BY <2>3, OneForwards DEF Recovering, Locking, Testing
      <3> QED BY <3>1, <2>3 DEF Recovering
    <2>8. TakenWorks'
      BY <2>1, <2>2, <2>7 DEF Works, TakenWorks, At, Testing, Working
    <2>9. UsedWorks'
      BY <2>1, <2>2 DEF Works, UsedWorks, At, Testing, Working
    <2> QED BY <2>4, <2>5, <2>6, <2>8, <2>9 DEF Reaches, Works
  <1>6. CASE Mismatched(t)
    <2>1. /\ thread'[t].pc = "connecting" /\ thread'[t].what = thread[t].what
          /\ \A u \in Threads \ {t} : thread'[u] = thread[u]
      BY <1>6, <1>g DEF Mismatched, Phases
    <2>2. SharedReaches'
      <3>1. ~Working(sock)'
        BY <1>6, <1>s, <1>0 DEF Mismatched, Working
      <3> QED BY <3>1 DEF SharedReaches
    <2>3. CASE Testing(t)
      <3>1. excused' /\ \A u \in Threads \ {t} : thread'[u].pc # "idle" => u \in tested'
        BY <1>6, <2>1, <2>3 DEF Mismatched, Meddled, At
      <3> QED BY <2>1, <2>2, <2>3, <3>1, TestExcuses DEF Reaches, Testing
    <2>4. CASE ~Testing(t)
      <3>1. locker = t
        BY <1>6, <1>l, <2>4 DEF Mismatched, At, Locking, Testing
      <3>2. \A u \in Threads : thread'[u].pc \in {"taking", "sending"} => thread'[u].what = "test"
        BY <2>1, <3>1, Alone
      <3>3. BrokenIsReplaced'
        BY <2>1, <2>4 DEF BrokenIsReplaced, Recovering, Testing
      <3> QED BY <2>2, <3>2, <3>3, NobodyUses DEF Reaches, Works
    <2> QED BY <2>3, <2>4
  <1>7. CASE Taken(t)
    <2> DEFINE n == [thread[t] EXCEPT !.pc = "sending", !.using = sock]
    <2>1. n.pc = "sending" /\ n.what = thread[t].what /\ n.to = thread[t].to /\ n.using = sock
      BY <1>k, <1>0 DEF Item
    <2>2. Becomes(t, n)
      BY <1>7 DEF Taken
    <2> HIDE DEF n
    <2>3. thread'[t] = n /\ \A u \in Threads \ {t} : thread'[u] = thread[u]
      BY <2>2, <1>e
    <2>4. UNCHANGED <<conn, sock, sig, tested, excused>> /\ thread[t].pc = "taking"
      BY <1>7 DEF Taken, At
    <2>5. SharedReaches' /\ MatchKept'
      BY <2>1, <2>3, <2>4 DEF Reaches, SharedReaches, MatchKept, At, Testing, Working
    <2>6. SentWhereConfigured'
      BY <2>1, <2>3, <2>4 DEF Reaches, SharedReaches, MatchKept, SentWhereConfigured, At, Testing, Working
    <2>7. BrokenIsReplaced' /\ TakenWorks'
      BY <2>1, <2>3, <2>4 DEF Works, BrokenIsReplaced, TakenWorks, At, Testing, Working, Recovering
    <2>8. UsedWorks'
      BY <2>1, <2>3, <2>4 DEF Works, TakenWorks, UsedWorks, At, Testing, Working
    <2> QED BY <2>5, <2>6, <2>7, <2>8 DEF Reaches, Works
  <1>8. ASSUME NEW s \in Conns, Connected(t, s)
        PROVE  Reaches' /\ Works'
    <2> DEFINE n == [thread[t] EXCEPT !.pc = "sending", !.using = s]
    <2>1. n.pc = "sending" /\ n.what = thread[t].what /\ n.to = thread[t].to /\ n.using = s
      BY <1>k DEF Item
    <2>2. Becomes(t, n)
      BY <1>8 DEF Connected
    <2> HIDE DEF n
    <2>3. thread'[t] = n /\ \A u \in Threads \ {t} : thread'[u] = thread[u]
      BY <2>2, <1>e
    <2>4. /\ thread[t].pc = "connecting" /\ sock' = s /\ sig' = thread[t].to
          /\ conn'[s] = thread[t].to /\ thread[t].to # Null /\ s # Null
      BY <1>8, ConnsAreNumbers, SyslogAssumption DEF Connected, At, TypeOK
    <2>5. SharedReaches' /\ Working(s)'
      BY <2>4 DEF SharedReaches, Working
    <2>6. CASE Testing(t)
      <3>1. excused' /\ \A u \in Threads \ {t} : thread'[u].pc # "idle" => u \in tested'
        BY <1>8, <2>3, <2>6 DEF Connected, Meddled, At
      <3> QED BY <2>1, <2>3, <2>5, <2>6, <3>1, TestExcuses DEF Reaches, Testing
    <2>7. CASE ~Testing(t)
      <3>1. locker = t
        BY <1>l, <2>4, <2>7 DEF Locking, Testing
      <3>2. \A u \in Threads \ {t} : thread'[u].pc \in {"taking", "sending"} => thread'[u].what = "test"
        BY <2>3, <3>1, SyslogAssumption DEF TypeOK, Testing, Locking
      <3>3. MatchKept' /\ TakenWorks'
        BY <2>1, <2>3, <3>2 DEF MatchKept, TakenWorks, At, Testing
      <3>4. SentWhereConfigured'
        BY <2>1, <2>3, <2>4, <3>2 DEF SentWhereConfigured, At, Testing
      <3>5. UsedWorks' /\ BrokenIsReplaced'
        BY <2>1, <2>3, <2>4, <2>5, <3>2 DEF UsedWorks, BrokenIsReplaced, At, Testing, Working
      <3> QED BY <2>5, <3>3, <3>4, <3>5 DEF Reaches, Works
    <2> QED BY <2>6, <2>7
  <1>9. ASSUME Lost(t), thread[t].pc \in {"connecting", "sending"},
               UNCHANGED <<conn, sock, sig, tested>>
        PROVE  Reaches' /\ Works'
    <2>1. /\ thread'[t].pc = Failing(t) /\ thread'[t].what = thread[t].what
          /\ \A u \in Threads \ {t} : thread'[u] = thread[u]
      BY <1>9, <1>g DEF Lost, Failing, Phases
    <2>2. CASE Testing(t)
      <3>1. excused' = excused
        BY <1>9, <2>2 DEF Lost, TypeOK
      <3>2. thread'[t].pc = "tested" /\ ~Recovering(thread[t])
        BY <2>1, <2>2 DEF Failing, Recovering, Testing
      <3>3. Quiet(t)
        BY <1>9, <2>1, <3>1, <3>2 DEF Quiet
      <3> QED BY <3>3, QuietKeeps
    <2>3. CASE ~Testing(t)
      <3>1. locker = t /\ thread'[t].pc = "failed" /\ Recovering(thread'[t])
        BY <1>9, <1>l, <2>1, <2>3 DEF Locking, Testing, Failing, Recovering
      <3>2. \A u \in Threads : thread'[u].pc \in {"taking", "sending"} => thread'[u].what = "test"
        BY <2>1, <3>1, Alone
      <3>3. SharedReaches' /\ BrokenIsReplaced'
        BY <1>9, <3>1 DEF Reaches, SharedReaches, BrokenIsReplaced, Working
      <3> QED BY <3>2, <3>3, NobodyUses DEF Reaches, Works
    <2> QED BY <2>2, <2>3
  <1>10. CASE NotConnected(t) \/ NotSent(t)
    BY <1>9, <1>10 DEF NotConnected, NotSent, At
  <1>11. CASE Sent(t)
    <2>1. thread[t].pc = "sending"
      BY <1>11 DEF Sent, At
    <2>2. /\ thread'[t].pc \in {"tested", "idle"}
          /\ \A u \in Threads \ {t} : thread'[u] = thread[u]
      BY <1>11, <1>g, <1>i DEF Sent, Phases
    <2> QED BY <1>11, <2>1, <2>2, QuietKeeps DEF Sent, Quiet, Recovering
  <1>12. CASE Warned(t) \/ WarnedLately(t)
    <2>1. /\ thread'[t].pc \in {"relocking", "dropping"} /\ thread'[t].what = thread[t].what
          /\ \A u \in Threads \ {t} : thread'[u] = thread[u]
      BY <1>12, <1>g DEF Warned, WarnedLately, Phases
    <2> QED BY <1>12, <2>1, QuietKeeps DEF Warned, WarnedLately, Quiet, Recovering
  <1>13. CASE Dropped(t)
    <2>1. locker = t
      BY <1>13, <1>k, <1>l DEF Dropped, At, Role, Locking
    <2>2. thread'[t].pc = "idle" /\ \A u \in Threads \ {t} : thread'[u] = thread[u]
      BY <1>13, <1>i DEF Dropped
    <2>3. \A u \in Threads : thread'[u].pc \in {"taking", "sending"} => thread'[u].what = "test"
      BY <2>1, <2>2, Alone
    <2>4. SharedReaches' /\ BrokenIsReplaced'
      BY <1>13 DEF Dropped, SharedReaches, BrokenIsReplaced, Working
    <2> QED BY <2>3, <2>4, NobodyUses DEF Reaches, Works
  <1>14. CASE Tested(t)
    <2> DEFINE n == [Idle EXCEPT !.pc = "asking", !.what = "activity"]
    <2>1. n.pc = "asking"
      BY DEF Idle
    <2>2. Becomes(t, n)
      BY <1>14 DEF Tested
    <2> HIDE DEF n
    <2> QED BY <1>14, <1>e, <2>1, <2>2, QuietKeeps DEF Tested, Quiet, Recovering, At
  <1> QED BY <1>1, <1>2, <1>3, <1>4, <1>5, <1>6, <1>7, <1>8, <1>10, <1>11, <1>12, <1>13, <1>14 DEF Step

\* A step that starts something, or that no thread makes.
LEMMA OthersKeep ==
    ASSUME TypeOK, Roles, Reaches, Works, [Next]_vars, ~\E t \in Threads : Step(t)
    PROVE  Reaches' /\ Works'
  <1> USE DEF shared, locks, history, settings
  <1>1. ASSUME NEW t \in Threads, NEW k, Becomes(t, k), k.pc \notin {"taking", "sending"},
               At(t, "idle"), UNCHANGED <<shared, history>>
        PROVE  Reaches' /\ Works'
    <2>1. thread'[t] = k /\ \A u \in Threads \ {t} : thread'[u] = thread[u]
      BY <1>1 DEF Becomes, TypeOK
    <2>2. Quiet(t)
      BY <1>1, <2>1 DEF Quiet, Recovering, At
    <2> QED BY <2>2, QuietKeeps
  <1>2. ASSUME NEW t \in Threads, RowLogged(t)
        PROVE  Reaches' /\ Works'
    <2> DEFINE n == [Idle EXCEPT !.pc = "asking", !.what = "activity"]
    <2>1. n.pc = "asking" /\ Becomes(t, n)
      BY <1>2 DEF RowLogged, Idle
    <2> HIDE DEF n
    <2> QED BY <1>1, <1>2, <2>1 DEF RowLogged
  <1>3. ASSUME NEW t \in Threads, TestAsked(t)
        PROVE  Reaches' /\ Works'
    <2> DEFINE n == [Idle EXCEPT !.pc = "invalidating", !.what = "test", !.to = collector]
    <2>1. n.pc = "invalidating" /\ Becomes(t, n)
      BY <1>3 DEF TestAsked, Idle
    <2> HIDE DEF n
    <2> QED BY <1>1, <1>3, <2>1 DEF TestAsked
  <1>4. ASSUME NEW t \in Threads, NEW h \in Handlers, RecordLogged(t, h)
        PROVE  Reaches' /\ Works'
    <2> DEFINE n == [Idle EXCEPT !.pc = "entering", !.what = StreamOf(h), !.handler = h]
    <2>1. n.pc = "entering" /\ Becomes(t, n)
      BY <1>4 DEF RecordLogged, Idle
    <2> HIDE DEF n
    <2> QED BY <1>1, <1>4, <2>1 DEF RecordLogged
  <1>5. ASSUME NEW t \in Threads, NEW c \in Collectors \cup {Null}, NEW on \in Choices,
               SettingsSaved(t, c, on)
        PROVE  Reaches' /\ Works'
    <2> DEFINE n == [Idle EXCEPT !.pc = "invalidating", !.what = "save"]
    <2>1. n.pc = "invalidating" /\ Becomes(t, n)
      BY <1>5 DEF SettingsSaved, Idle
    <2> HIDE DEF n
    <2> QED BY <1>1, <1>5, <2>1 DEF SettingsSaved
  <1>6. ASSUME UNCHANGED <<sock, sig, tested, thread>>,
               conn' \in [Conns -> Collectors \cup {Null}],
               \A s \in Conns : conn'[s] \in {conn[s], Null},
               conn' = conn \/ excused', excused => excused'
        PROVE  Reaches' /\ Works'
    <2>1. \A s \in Conns \cup {Null} : Working(s)' => Working(s) /\ conn'[s] = conn[s]
      BY <1>6 DEF Working
    <2>2. /\ sock \in Conns \cup {Null}
          /\ \A t \in Threads : thread[t].using \in Conns \cup {Null}
      BY DEF TypeOK
    <2>3. SharedReaches' /\ MatchKept'
      BY <1>6, <2>1, <2>2 DEF Reaches, SharedReaches, MatchKept, At, Testing
    <2>4. SentWhereConfigured'
      BY <1>6, <2>1, <2>2 DEF Reaches, SentWhereConfigured, At, Testing
    <2>5. Works'
      BY <1>6 DEF Works, BrokenIsReplaced, TakenWorks, UsedWorks, At, Testing, Working
    <2> QED BY <2>3, <2>4, <2>5 DEF Reaches
  <1>7. ASSUME NEW c \in Collectors, WentDown(c)
        PROVE  Reaches' /\ Works'
    <2>1. /\ conn' \in [Conns -> Collectors \cup {Null}]
          /\ \A s \in Conns : conn'[s] \in {conn[s], Null}
      BY <1>7 DEF WentDown, TypeOK
    <2> QED BY <1>6, <1>7, <2>1 DEF WentDown
  <1>8. ASSUME (\E c \in Collectors : CameUp(c)) \/ MinutePassed \/ UNCHANGED vars
        PROVE  Reaches' /\ Works'
    <2>1. UNCHANGED <<conn, sock, sig, tested, excused, thread>>
      BY <1>8 DEF CameUp, MinutePassed, vars
    <2> QED BY <1>6, <2>1 DEF TypeOK
  <1> QED BY <1>2, <1>3, <1>4, <1>5, <1>7, <1>8 DEF Next

LEMMA InvInductive ==
    /\ Init => Inv
    /\ Inv /\ [Next]_vars => Inv'
  <1>1. ASSUME Init PROVE Reaches /\ Works
    <2>1. \A t \in Threads : thread[t].pc = "idle"
      BY <1>1, IdleItem DEF Init
    <2> QED BY <1>1, <2>1 DEF Init, Reaches, Works, SharedReaches, MatchKept, SentWhereConfigured,
                              BrokenIsReplaced, TakenWorks, UsedWorks, Working, At
  <1>2. ASSUME Inv, [Next]_vars PROVE Reaches' /\ Works'
    BY <1>2, StepKeeps, OthersKeep DEF Inv
  <1> QED BY <1>1, <1>2, InitTyped, NextTyped DEF Inv

\* SentWhereConfigured: a record reaches the collector it was meant for, however
\* many threads share the connection (_ensure_socket).  A thread matches the
\* connection under the lock, so that only a test can change it under its hands.
THEOREM RecordsReachTheirCollector == Spec => []SentWhereConfigured
  <1>1. Inv => SentWhereConfigured
    BY DEF Inv, Reaches
  <1> QED BY <1>1, InvInductive, PTL DEF Spec

\* A step of one thread leaves the others where they are.
LEMMA OneStepsOnly ==
    ASSUME TypeOK, NEW u \in Threads, NEW t \in Threads \ {u},
           Step(u) \/ RowLogged(u) \/ TestAsked(u) \/ (\E h \in Handlers : RecordLogged(u, h))
           \/ (\E c \in Collectors \cup {Null}, on \in Choices : SettingsSaved(u, c, on))
    PROVE  thread'[t] = thread[t]
  <1>1. ASSUME NEW k, Becomes(u, k) PROVE thread'[t] = thread[t]
    BY <1>1 DEF Becomes, TypeOK
  <1>2. ASSUME NEW p, Goes(u, p) PROVE thread'[t] = thread[t]
    BY <1>1, <1>2 DEF Goes
  <1>3. ASSUME Left(u) PROVE thread'[t] = thread[t]
    BY <1>1, <1>3 DEF Left
  <1>4. CASE HandlerEntered(u) \/ Locked(u) \/ Matched(u) \/ Mismatched(u)
    BY <1>2, <1>4 DEF HandlerEntered, Locked, Matched, Mismatched
  <1>5. CASE Asked(u) \/ Invalidated(u) \/ Taken(u) \/ (\E s \in Conns : Connected(u, s))
    BY <1>1, <1>2, <1>3, <1>5 DEF Asked, Invalidated, Taken, Connected
  <1>6. CASE NotConnected(u) \/ NotSent(u) \/ Sent(u)
    BY <1>2, <1>3, <1>6 DEF NotConnected, NotSent, Lost, Sent
  <1>7. CASE Warned(u) \/ WarnedLately(u) \/ Dropped(u) \/ Tested(u)
    BY <1>1, <1>2, <1>3, <1>7 DEF Warned, WarnedLately, Dropped, Tested
  <1>8. CASE RowLogged(u) \/ TestAsked(u) \/ (\E h \in Handlers : RecordLogged(u, h))
    BY <1>1, <1>8 DEF RowLogged, TestAsked, RecordLogged
  <1>9. CASE \E c \in Collectors \cup {Null}, on \in Choices : SettingsSaved(u, c, on)
    BY <1>1, <1>9 DEF SettingsSaved
  <1> QED BY <1>4, <1>5, <1>6, <1>7, <1>8, <1>9 DEF Step

\* A connection fails by not being made, or when a record is sent over it.
LEMMA FailsBySending ==
    ASSUME TypeOK, [Next]_vars, NEW t \in Threads,
           thread[t].pc \in {"sending", "connecting"}, thread'[t].pc = "failed"
    PROVE  NotSent(t) \/ NotConnected(t)
  <1> USE DEF At
  <1>1. thread'[t] # thread[t]
    OBVIOUS
  <1>2. Step(t)
    <2>1. ASSUME NEW u \in Threads,
                 Step(u) \/ RowLogged(u) \/ TestAsked(u) \/ (\E h \in Handlers : RecordLogged(u, h))
                 \/ (\E c \in Collectors \cup {Null}, on \in Choices : SettingsSaved(u, c, on))
          PROVE  u = t
      BY <1>1, <2>1, OneStepsOnly
    <2>2. ~(RowLogged(t) \/ TestAsked(t) \/ (\E h \in Handlers : RecordLogged(t, h))
            \/ (\E c \in Collectors \cup {Null}, on \in Choices : SettingsSaved(t, c, on)))
      BY DEF RowLogged, TestAsked, RecordLogged, SettingsSaved
    <2>3. ~((\E c \in Collectors : WentDown(c) \/ CameUp(c)) \/ MinutePassed \/ UNCHANGED vars)
      BY <1>1 DEF WentDown, CameUp, MinutePassed, vars
    <2> QED BY <2>1, <2>2, <2>3 DEF Next
  <1>3. ~(\/ HandlerEntered(t) \/ Asked(t) \/ Locked(t) \/ Invalidated(t) \/ Matched(t)
          \/ Mismatched(t) \/ Taken(t) \/ Warned(t) \/ WarnedLately(t) \/ Dropped(t) \/ Tested(t))
    BY DEF HandlerEntered, Asked, Locked, Invalidated, Matched, Mismatched, Taken, Warned,
           WarnedLately, Dropped, Tested
  <1>4. thread[t] \in Item
    BY DEF TypeOK, Item
  <1>5. ASSUME NEW k, Becomes(t, k) PROVE thread'[t] = k
    BY <1>5 DEF Becomes, TypeOK
  <1>6. ~\E s \in Conns : Connected(t, s)
    <2> SUFFICES ASSUME NEW s \in Conns, Connected(t, s) PROVE FALSE
      OBVIOUS
    <2> DEFINE n == [thread[t] EXCEPT !.pc = "sending", !.using = s]
    <2>1. n.pc = "sending" /\ Becomes(t, n)
      BY <1>4 DEF Connected, Item
    <2> HIDE DEF n
    <2> QED BY <1>5, <2>1
  <1>7. ~Sent(t)
    <2> SUFFICES ASSUME Sent(t) PROVE FALSE
      OBVIOUS
    <2> DEFINE n == [thread[t] EXCEPT !.pc = "tested"]
    <2>1. n.pc = "tested"
      BY <1>4 DEF Item
    <2>2. Becomes(t, n) \/ Becomes(t, Idle)
      BY DEF Sent, Goes, Left
    <2> HIDE DEF n
    <2> QED BY <1>5, <2>1, <2>2, IdleItem
  <1> QED BY <1>2, <1>3, <1>6, <1>7 DEF Step

\* OneLossPerFailure: a connection that broke fails one record, then emit drops
\* it and the next record opens a new one.
THEOREM FailuresCostOneRecord == Spec => OneLossPerFailure
  <1> DEFINE Excused(t) ==
        /\ thread[t].pc \in {"sending", "connecting"} /\ thread'[t].pc = "failed"
        /\ thread[t].to \in up
        => excused
  <1>1. ASSUME Inv, [Next]_vars, NEW t \in Threads,
               thread[t].pc \in {"sending", "connecting"}, thread'[t].pc = "failed",
               thread[t].to \in up
        PROVE  excused
    <2>1. NotSent(t)
      BY <1>1, FailsBySending DEF NotConnected, Inv
    <2>2. thread[t].pc = "sending" /\ ~Working(thread[t].using)
      BY <2>1 DEF NotSent, At
    <2>3. ~Testing(t)
      <3> SUFFICES ASSUME Testing(t) PROVE FALSE
        OBVIOUS
      <3> DEFINE n == [thread[t] EXCEPT !.pc = "tested"]
      <3>1. thread[t] \in Item
        BY <1>1 DEF Inv, TypeOK, Item
      <3>2. n.pc = "tested"
        BY <3>1 DEF Item
      <3>3. thread'[t] = n
        BY <1>1, <2>1 DEF NotSent, Lost, Failing, Goes, Becomes, Inv, TypeOK
      <3> QED BY <1>1, <3>2, <3>3
    <2> QED BY <1>1, <2>2, <2>3 DEF Inv, Works, UsedWorks, At
  <1>2. Inv /\ [Next]_vars => \A t \in Threads : Excused(t)
    BY <1>1
  <1>3. Inv /\ [Next]_vars => [\A t \in Threads : Excused(t)]_vars
    BY <1>2
  <1> QED BY <1>3, InvInductive, PTL DEF Spec, OneLossPerFailure
==============================================================================
