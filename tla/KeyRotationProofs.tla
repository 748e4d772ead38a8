-------------------------- MODULE KeyRotationProofs --------------------------
(***************************************************************************)
(* Proofs about the rotation of API keys, for any keys, registers, tasks   *)
(* and bounds: that markers expire, that only refused keys are retired,    *)
(* and that a query or a refresh gives up only after it should.            *)
(***************************************************************************)
EXTENDS KeyRotationProps, FiniteSetTheorems, SequenceTheorems, TLAPS

Refusals == {"quota", "quiet", "drained"}

\* Which registers a task uses, and what it is waiting for.
Shape(k) ==
    /\ k.pc # "idle" => k.reg \in Registers
    /\ k.pc \in {"asking", "answered"} => k.todo # <<>>
    /\ k.pc = "gave up" => k.todo = <<>>
    /\ k.job = "bulk" => k.reg = "abuse"
    /\ k.job \in {"probe", "check"} => k.reg = "hash"
    /\ k.pc = "answered" => k.reply \in Answers(k.reg)
    /\ k.pc = "listing" => /\ k.tier \in {"fresh", "limited", "exhausted", "again"}
                           /\ k.reg = "abuse" => k.tier \in {"fresh", "exhausted"}
    /\ k.pc # "listing" => k.tier = "none" /\ k.ahead = <<>> /\ k.found = <<>>

\* Every key a task began with has failed, is on its list, has yet to be looked
\* at, or may be passed over: it was found resting and, by AbuseIPDB, also not,
\* unless the second pass has yet to look at it.
Accounted(k, todo) ==
    \A key \in k.listed \ (k.failed \cup Elements(todo) \cup Elements(k.found)) :
        \/ key \in Elements(k.ahead) /\ k.tier \in {"fresh", "again"}
        \/ /\ key \in k.rested
           /\ k.reg = "abuse" => \/ key \in k.awake
                                 \/ k.tier = "fresh" \/ key \in Elements(k.ahead)

\* What a refresh found to fail or to rest, and the key of a refusal at hand, are
\* in R.
Progress(k, R) ==
    /\ k.pc = "answered" /\ k.reply \in Refusals => Head(k.todo) \in R
    /\ k.pc # "idle" /\ k.job \in {"lookup", "bulk"} => Accounted(k, k.todo)
    /\ k.pc # "idle" /\ k.job = "bulk" => k.failed \subseteq R /\ k.rested \subseteq R

RetiredWasRefused ==
    \A r \in Registers \ {"hash"}, k \in Keys : exhausted[r][k] # Null => k \in refused

TasksFine == \A t \in Tasks : Shape(task[t]) /\ Progress(task[t], refused)

Inv == TypeOK /\ MarkersExpire /\ RetiredWasRefused /\ TasksFine

USE KeyAssumption
-----------------------------------------------------------------------------
(* Lists of keys and resets *)

LEMMA KeysAreFinite == \A S \in SUBSET Keys : IsFiniteSet(S) /\ Cardinality(S) \in Nat
  BY FS_Subset, FS_CardinalityType

LEMMA ListingsAre ==
    ASSUME NEW S \in SUBSET Keys, NEW q \in Listings(S)
    PROVE  q \in Seq(Keys) /\ Elements(q) = S
  <1>1. Cardinality(S) \in Nat
    BY KeysAreFinite
  <1>2. q \in [1 .. Cardinality(S) -> S] /\ \A k \in S : \E i \in DOMAIN q : q[i] = k
    BY DEF Listings
  <1>3. q \in Seq(Keys)
    <2>1. q \in [1 .. Cardinality(S) -> Keys]
      BY <1>2
    <2> DEFINE same == [i \in 1 .. Cardinality(S) |-> q[i]]
    <2>2. q = same
      BY <2>1
    <2>3. same \in Seq(Keys)
      BY <1>1, <2>1
    <2> HIDE DEF same
    <2> QED BY <2>2, <2>3
  <1>4. ASSUME NEW i \in DOMAIN q PROVE q[i] \in S
    BY <1>2
  <1>5. S \subseteq Elements(q)
    BY <1>2 DEF Elements
  <1>6. Elements(q) \subseteq S
    BY <1>4 DEF Elements
  <1> QED BY <1>3, <1>5, <1>6

LEMMA Joined ==
    ASSUME NEW a \in Seq(Keys), NEW b \in Seq(Keys)
    PROVE  a \o b \in Seq(Keys) /\ Elements(a \o b) = Elements(a) \cup Elements(b)
  <1> DEFINE c == a \o b
  <1>1. /\ c \in Seq(Keys) /\ Len(c) = Len(a) + Len(b)
        /\ \A i \in 1 .. Len(a) + Len(b) : c[i] = IF i <= Len(a) THEN a[i] ELSE b[i - Len(a)]
    BY ConcatProperties
  <1>2. /\ Len(a) \in Nat /\ DOMAIN a = 1 .. Len(a)
        /\ Len(b) \in Nat /\ DOMAIN b = 1 .. Len(b)
        /\ DOMAIN c = 1 .. Len(a) + Len(b)
    BY <1>1, LenProperties
  <1> HIDE DEF c
  <1>3. ASSUME NEW k \in Elements(c) PROVE k \in Elements(a) \cup Elements(b)
    <2>1. PICK i \in 1 .. Len(a) + Len(b) : k = c[i]
      BY <1>2 DEF Elements
    <2>2. CASE i <= Len(a)
      BY <1>1, <1>2, <2>1, <2>2 DEF Elements
    <2>3. CASE ~(i <= Len(a))
      <3>1. i - Len(a) \in 1 .. Len(b) /\ k = b[i - Len(a)]
        BY <1>1, <1>2, <2>1, <2>3
      <3> QED BY <1>2, <3>1 DEF Elements
    <2> QED BY <2>2, <2>3
  <1>4. ASSUME NEW k \in Elements(a) PROVE k \in Elements(c)
    <2>1. PICK i \in 1 .. Len(a) : k = a[i]
      BY <1>2 DEF Elements
    <2>2. i \in 1 .. Len(a) + Len(b) /\ c[i] = k
      BY <1>1, <1>2, <2>1
    <2> QED BY <1>2, <2>2 DEF Elements
  <1>5. ASSUME NEW k \in Elements(b) PROVE k \in Elements(c)
    <2>1. PICK i \in 1 .. Len(b) : k = b[i]
      BY <1>2 DEF Elements
    <2>2. /\ Len(a) + i \in 1 .. Len(a) + Len(b) /\ (Len(a) + i) - Len(a) = i
          /\ ~(Len(a) + i <= Len(a))
      BY <1>2
    <2>3. c[Len(a) + i] = k
      BY <1>1, <2>1, <2>2
    <2> QED BY <1>2, <2>2, <2>3 DEF Elements
  <1> QED BY <1>1, <1>3, <1>4, <1>5 DEF c

LEMMA HeadAndTail ==
    ASSUME NEW q \in Seq(Keys), q # <<>>
    PROVE  /\ Head(q) \in Keys /\ Tail(q) \in Seq(Keys)
           /\ Elements(q) = {Head(q)} \cup Elements(Tail(q))
  <1> DEFINE u == Tail(q)
  <1>1. /\ Head(q) \in Keys /\ u \in Seq(Keys)
        /\ Len(u) = Len(q) - 1 /\ \A i \in 1 .. Len(u) : u[i] = q[i + 1]
    BY HeadTailProperties
  <1>2. /\ Len(q) \in Nat \ {0} /\ DOMAIN q = 1 .. Len(q)
        /\ Len(u) \in Nat /\ DOMAIN u = 1 .. Len(u)
    BY <1>1, EmptySeq, LenProperties
  <1>3. Head(q) = q[1]
    OBVIOUS
  <1> HIDE DEF u
  <1>4. ASSUME NEW k \in Elements(q) PROVE k \in {Head(q)} \cup Elements(u)
    <2>1. PICK i \in 1 .. Len(q) : k = q[i]
      BY <1>2 DEF Elements
    <2>2. CASE i = 1
      BY <1>3, <2>1, <2>2
    <2>3. CASE i # 1
      <3>1. i - 1 \in 1 .. Len(u) /\ u[i - 1] = k
        BY <1>1, <1>2, <2>1, <2>3
      <3> QED BY <1>2, <3>1 DEF Elements
    <2> QED BY <2>2, <2>3
  <1>5. ASSUME NEW k \in Elements(u) PROVE k \in Elements(q)
    <2>1. PICK i \in 1 .. Len(u) : k = u[i]
      BY <1>2 DEF Elements
    <2>2. i + 1 \in 1 .. Len(q) /\ q[i + 1] = k
      BY <1>1, <1>2, <2>1
    <2> QED BY <1>2, <2>2 DEF Elements
  <1>6. Head(q) \in Elements(q)
    BY <1>2, <1>3 DEF Elements
  <1> QED BY <1>1, <1>4, <1>5, <1>6 DEF u

LEMMA NoElements == Elements(<<>>) = {} /\ <<>> \in Seq(Keys)
  BY EmptySeq DEF Elements

LEMMA Appended ==
    ASSUME NEW q \in Seq(Keys), NEW k \in Keys
    PROVE  Append(q, k) \in Seq(Keys) /\ Elements(Append(q, k)) = Elements(q) \cup {k}
  <1> DEFINE c == Append(q, k)
  <1>1. /\ c \in Seq(Keys) /\ Len(c) = Len(q) + 1 /\ c[Len(q) + 1] = k
        /\ \A i \in 1 .. Len(q) : c[i] = q[i]
    BY AppendProperties
  <1>2. /\ Len(q) \in Nat /\ DOMAIN q = 1 .. Len(q) /\ DOMAIN c = 1 .. Len(q) + 1
    BY <1>1, LenProperties
  <1> HIDE DEF c
  <1>3. ASSUME NEW j \in Elements(c) PROVE j \in Elements(q) \cup {k}
    <2>1. PICK i \in 1 .. Len(q) + 1 : j = c[i]
      BY <1>2 DEF Elements
    <2>2. CASE i = Len(q) + 1
      BY <1>1, <2>1, <2>2
    <2>3. CASE i # Len(q) + 1
      <3>1. i \in 1 .. Len(q) /\ q[i] = j
        BY <1>1, <1>2, <2>1, <2>3
      <3> QED BY <1>2, <3>1 DEF Elements
    <2> QED BY <2>2, <2>3
  <1>4. ASSUME NEW j \in Elements(q) PROVE j \in Elements(c)
    <2>1. PICK i \in 1 .. Len(q) : j = q[i]
      BY <1>2 DEF Elements
    <2>2. i \in 1 .. Len(q) + 1 /\ c[i] = j
      BY <1>1, <1>2, <2>1
    <2> QED BY <1>2, <2>2 DEF Elements
  <1>5. k \in Elements(c)
    <2>1. Len(q) + 1 \in 1 .. Len(q) + 1
      BY <1>2
    <2> QED BY <1>1, <1>2, <2>1 DEF Elements
  <1> QED BY <1>1, <1>3, <1>4, <1>5 DEF c

LEMMA ElementsAreKeys == \A q \in Seq(Keys) : Elements(q) \subseteq Keys
  <1> SUFFICES ASSUME NEW q \in Seq(Keys), NEW i \in DOMAIN q PROVE q[i] \in Keys
    BY DEF Elements
  <1>1. DOMAIN q = 1 .. Len(q)
    BY LenProperties
  <1> QED BY <1>1, ElementOfSeq

LEMMA ResetIs == \A t \in Nat : NextReset(t) \in Nat /\ NextReset(t) <= t + Day
  <1> SUFFICES ASSUME NEW t \in Nat
               PROVE  NextReset(t) \in Nat /\ NextReset(t) <= t + Day
    OBVIOUS
  <1>1. t \div Day \in Nat /\ Day * (t \div Day) <= t
    OBVIOUS
  <1> DEFINE q == t \div Day
  <1> HIDE DEF q
  <1>2. (q + 1) * Day = Day * q + Day /\ (q + 1) * Day \in Nat
    BY <1>1 DEF q
  <1> QED BY <1>1, <1>2 DEF NextReset, q

-----------------------------------------------------------------------------
(* The steps of a task *)

LEMMA IdleTask == Idle \in Task /\ Shape(Idle) /\ \A R : Progress(Idle, R)
  BY NoElements DEF Idle, Task, Jobs, Replies, Shape, Progress

\* A task goes on with a list, and keeps what it knows.
LEMMA GoesFine ==
    ASSUME NEW k \in Task, NEW todo \in Seq(Keys), NEW R,
           k.reg \in Registers, k.job = "bulk" => k.reg = "abuse",
           k.job \in {"probe", "check"} => k.reg = "hash",
           k.tier = "none", k.ahead = <<>>, k.found = <<>>,
           k.job \in {"lookup", "bulk"} => Accounted(k, todo),
           k.job = "bulk" => k.failed \subseteq R /\ k.rested \subseteq R
    PROVE  Going(k, todo) \in Task /\ Shape(Going(k, todo)) /\ Progress(Going(k, todo), R)
  <1> DEFINE g == Going(k, todo)
  <1>1. /\ g \in Task
        /\ \/ g = Idle
           \/ /\ g.pc = IF todo = <<>> THEN "gave up" ELSE "asking"
              /\ g.todo = todo /\ g.reg = k.reg /\ g.job = k.job
              /\ g.tier = k.tier /\ g.ahead = k.ahead /\ g.found = k.found
              /\ g.rested = k.rested /\ g.awake = k.awake
              /\ g.listed = k.listed /\ g.failed = k.failed
    <2> DEFINE pc == IF todo = <<>> THEN "gave up" ELSE "asking"
               n == [k EXCEPT !.todo = todo, !.reply = "error", !.pc = pc]
    <2>1. pc \in {"gave up", "asking"}
      OBVIOUS
    <2>2. /\ n \in Task /\ n.pc = pc /\ n.todo = todo /\ n.reg = k.reg /\ n.job = k.job
          /\ n.tier = k.tier /\ n.ahead = k.ahead /\ n.found = k.found
          /\ n.rested = k.rested /\ n.awake = k.awake
          /\ n.listed = k.listed /\ n.failed = k.failed
      <3> HIDE DEF pc
      <3> QED BY <2>1 DEF Task, Replies
    <2>3. g = Idle \/ g = n
      BY DEF Going
    <2> HIDE DEF n, g
    <2> QED BY <2>2, <2>3, IdleTask
  <1> HIDE DEF g
  <1>2. CASE g = Idle
    BY <1>1, <1>2, IdleTask DEF g
  <1>3. CASE g # Idle
    <2>1. g.pc \notin {"answered", "listing"}
          /\ (g.pc = "gave up" => g.todo = <<>>) /\ (g.pc = "asking" => g.todo # <<>>)
      BY <1>1, <1>3
    <2>2. Shape(g)
      BY <1>1, <1>3, <2>1 DEF Shape
    <2>3. Progress(g, R)
      BY <1>1, <1>3, <2>1 DEF Progress, Accounted
    <2> QED BY <1>1, <2>2, <2>3 DEF g
  <1> QED BY <1>2, <1>3

LEMMA MoreRefused ==
    ASSUME NEW k, NEW R, NEW S, R \subseteq S, Progress(k, R)
    PROVE  Progress(k, S)
  BY DEF Progress

\* One task moves, the others stay as they are.
LEMMA TaskMoves ==
    ASSUME TypeOK, TasksFine, NEW t \in Tasks, NEW n \in Task,
           task' = [task EXCEPT ![t] = n], refused \subseteq refused',
           Shape(n), Progress(n, refused')
    PROVE  /\ task' \in [Tasks -> Task] /\ TasksFine'
           /\ \A u \in Tasks : /\ task'[u].pc # "idle" => task'[u].reg \in Registers
                               /\ task'[u].pc \in {"asking", "answered"} => task'[u].todo # <<>>
  <1>1. /\ task' \in [Tasks -> Task] /\ task'[t] = n
        /\ \A u \in Tasks \ {t} : task'[u] = task[u]
    BY DEF TypeOK
  <1>2. TasksFine'
    <2> SUFFICES ASSUME NEW u \in Tasks
                 PROVE  Shape(task'[u]) /\ Progress(task'[u], refused')
      BY DEF TasksFine
    <2>1. CASE u = t
      BY <1>1, <2>1
    <2>2. CASE u # t
      BY <1>1, <2>2, MoreRefused DEF TasksFine
    <2> QED BY <2>1, <2>2
  <1> QED BY <1>1, <1>2 DEF TasksFine, Shape

\* How the registers may change: markers of the day for keys that were refused,
\* or anyhow in the register of the hash list; markers of a throttle.
Marking ==
    \/ UNCHANGED <<exhausted, limited>>
    \/ \E r \in Registers, k \in Keys :
         \/ MarkExhausted(r, k) /\ (r = "hash" \/ k \in refused)
         \/ MarkRateLimited(r, k)
         \/ exhausted' = Set(exhausted, r, k, Null) /\ UNCHANGED limited
         \/ limited' = Set(limited, r, k, Null) /\ UNCHANGED exhausted

LEMMA SetIs ==
    \A m \in Marker, u \in Times \cup {Null} : \A r \in Registers, k \in Keys :
        /\ Set(m, r, k, u) \in Marker
        /\ Set(m, r, k, u)[r][k] = u
        /\ \A s \in Registers, j \in Keys : s # r \/ j # k => Set(m, r, k, u)[s][j] = m[s][j]
  <1> TAKE m \in Marker, u \in Times \cup {Null}
  <1> TAKE r \in Registers, k \in Keys
  <1>1. [m[r] EXCEPT ![k] = u] \in [Keys -> Times \cup {Null}]
    BY DEF Marker
  <1> QED BY <1>1 DEF Set, Marker

LEMMA MarkingKeeps ==
    ASSUME TypeOK, MarkersExpire, RetiredWasRefused, Marking, now' = now, refused \subseteq refused'
    PROVE  exhausted' \in Marker /\ limited' \in Marker /\ MarkersExpire' /\ RetiredWasRefused'
  <1>0. exhausted \in Marker /\ limited \in Marker
    BY DEF TypeOK
  <1>2. /\ now \in Nat /\ now + Cooldown \in Times \cup {Null} /\ Null \in Times \cup {Null}
        /\ NextReset(now) \in Times \cup {Null} /\ NextReset(now) <= now + Day
    BY ResetIs DEF TypeOK, Times
  <1>3. ASSUME NEW r \in Registers, NEW k \in Keys, NEW u \in Times \cup {Null},
               exhausted' = Set(exhausted, r, k, u) \/ exhausted' = exhausted,
               u = Null \/ (u <= now + Day /\ (r = "hash" \/ k \in refused))
        PROVE  exhausted' \in Marker /\ RetiredWasRefused'
               /\ \A s \in Registers, j \in Keys : exhausted'[s][j] # Null => exhausted'[s][j] <= now + Day
    <2>1. CASE exhausted' = exhausted
      BY <1>0, <2>1 DEF MarkersExpire, RetiredWasRefused
    <2>2. CASE exhausted' = Set(exhausted, r, k, u)
      <3>1. /\ exhausted' \in Marker /\ exhausted'[r][k] = u
            /\ \A s \in Registers, j \in Keys : s # r \/ j # k => exhausted'[s][j] = exhausted[s][j]
        BY <1>0, <2>2, SetIs
      <3>2. ASSUME NEW s \in Registers, NEW j \in Keys, exhausted'[s][j] # Null
            PROVE  exhausted'[s][j] <= now + Day /\ (s # "hash" => j \in refused)
        <4>1. CASE s = r /\ j = k
          BY <1>3, <3>1, <3>2, <4>1
        <4>2. CASE s # r \/ j # k
          BY <3>1, <3>2, <4>2 DEF MarkersExpire, RetiredWasRefused
        <4> QED BY <4>1, <4>2
      <3> QED BY <3>1, <3>2 DEF RetiredWasRefused
    <2> QED BY <1>3, <2>1, <2>2
  <1>4. ASSUME NEW r \in Registers, NEW k \in Keys, NEW u \in Times \cup {Null},
               limited' = Set(limited, r, k, u) \/ limited' = limited,
               u = Null \/ u <= now + Cooldown
        PROVE  limited' \in Marker
               /\ \A s \in Registers, j \in Keys : limited'[s][j] # Null => limited'[s][j] <= now + Cooldown
    <2>1. CASE limited' = limited
      BY <1>0, <2>1 DEF MarkersExpire
    <2>2. CASE limited' = Set(limited, r, k, u)
      <3>1. /\ limited' \in Marker /\ limited'[r][k] = u
            /\ \A s \in Registers, j \in Keys : s # r \/ j # k => limited'[s][j] = limited[s][j]
        BY <1>0, <2>2, SetIs
      <3>2. ASSUME NEW s \in Registers, NEW j \in Keys, limited'[s][j] # Null
            PROVE  limited'[s][j] <= now + Cooldown
        <4>1. CASE s = r /\ j = k
          BY <1>4, <3>1, <3>2, <4>1
        <4>2. CASE s # r \/ j # k
          BY <3>1, <3>2, <4>2 DEF MarkersExpire
        <4> QED BY <4>1, <4>2
      <3> QED BY <3>1, <3>2
    <2> QED BY <1>4, <2>1, <2>2
  <1>5. CASE UNCHANGED <<exhausted, limited>>
    BY <1>0, <1>5 DEF MarkersExpire, RetiredWasRefused
  <1>6. ASSUME NEW r \in Registers, NEW k \in Keys,
               \/ MarkExhausted(r, k) /\ (r = "hash" \/ k \in refused)
               \/ MarkRateLimited(r, k)
               \/ exhausted' = Set(exhausted, r, k, Null) /\ UNCHANGED limited
               \/ limited' = Set(limited, r, k, Null) /\ UNCHANGED exhausted
        PROVE  exhausted' \in Marker /\ limited' \in Marker /\ MarkersExpire' /\ RetiredWasRefused'
    <2>1. exhausted' \in Marker /\ RetiredWasRefused'
          /\ \A s \in Registers, j \in Keys : exhausted'[s][j] # Null => exhausted'[s][j] <= now + Day
      <3>1. CASE MarkExhausted(r, k) /\ (r = "hash" \/ k \in refused)
        <4>1. exhausted' = Set(exhausted, r, k, NextReset(now))
          BY <3>1 DEF MarkExhausted
        <4> QED BY <1>2, <1>3, <3>1, <4>1
      <3>2. CASE exhausted' = Set(exhausted, r, k, Null) \/ exhausted' = exhausted
        BY <1>2, <1>3, <3>2
      <3> QED BY <1>6, <3>1, <3>2 DEF MarkRateLimited
    <2>2. limited' \in Marker
          /\ \A s \in Registers, j \in Keys : limited'[s][j] # Null => limited'[s][j] <= now + Cooldown
      <3>1. CASE limited' = Set(limited, r, k, now + Cooldown)
        <4> DEFINE rest == now + Cooldown
        <4>1. rest \in Times \cup {Null} /\ rest <= now + Cooldown /\ limited' = Set(limited, r, k, rest)
          BY <1>2, <3>1
        <4> HIDE DEF rest
        <4> QED BY <1>4, <4>1
      <3>2. CASE limited' = Set(limited, r, k, Null) \/ limited' = limited
        BY <1>2, <1>4, <3>2
      <3> QED BY <1>6, <3>1, <3>2 DEF MarkRateLimited, MarkExhausted
    <2> QED BY <2>1, <2>2 DEF MarkersExpire
  <1> QED BY <1>5, <1>6 DEF Marking

\* What is left to show of the step of a task.
LEMMA StepFine ==
    ASSUME Inv, NEW t \in Tasks, NEW n \in Task, task' = [task EXCEPT ![t] = n],
           refused \subseteq refused', refused' \subseteq Keys,
           Shape(n), Progress(n, refused'), Marking,
           UNCHANGED <<now, configured, dropping>>
    PROVE  Inv'
  <1>1. /\ task' \in [Tasks -> Task] /\ TasksFine'
        /\ \A u \in Tasks : /\ task'[u].pc # "idle" => task'[u].reg \in Registers
                            /\ task'[u].pc \in {"asking", "answered"} => task'[u].todo # <<>>
    BY TaskMoves DEF Inv
  <1>2. exhausted' \in Marker /\ limited' \in Marker /\ MarkersExpire' /\ RetiredWasRefused'
    BY MarkingKeeps DEF Inv
  <1> QED BY <1>1, <1>2 DEF Inv, TypeOK

\* A task that only moves on by itself.
LEMMA MovesFine ==
    ASSUME Inv, NEW t \in Tasks, NEW n \in Task, Moves(t, n), Shape(n), Progress(n, refused)
    PROVE  Inv'
  <1>1. /\ task' = [task EXCEPT ![t] = n]
        /\ UNCHANGED <<now, configured, refused, exhausted, limited, dropping>>
    BY DEF Moves
  <1>2. Marking
    BY <1>1 DEF Marking
  <1>3. refused \subseteq refused' /\ refused' \subseteq Keys /\ Progress(n, refused')
    BY <1>1 DEF Inv, TypeOK
  <1> QED BY <1>1, <1>2, <1>3, StepFine

LEMMA BeginningIs ==
    ASSUME TypeOK, NEW r \in Registers, NEW job \in Jobs, NEW rows \in 0 .. MaxRows
    PROVE  LET k == Beginning(r, job, rows)
           IN  /\ k \in Task /\ k.reg = r /\ k.job = job /\ k.tier = "none"
               /\ k.ahead = <<>> /\ k.found = <<>> /\ k.todo = <<>>
               /\ k.listed = configured \cap KeysOf(r)
               /\ k.failed = {} /\ k.rested = {}
  <1> DEFINE keys == configured \cap KeysOf(r)
  <1>1. keys \subseteq Keys
    BY DEF TypeOK
  <1> HIDE DEF keys
  <1>2. Beginning(r, job, rows) = [Idle EXCEPT !.reg = r, !.job = job, !.rows = rows, !.listed = keys]
    BY DEF Beginning, keys
  <1>3. keys = configured \cap KeysOf(r)
    BY DEF keys
  <1>4. /\ Idle \in Task /\ Idle.tier = "none" /\ Idle.ahead = <<>> /\ Idle.found = <<>>
        /\ Idle.todo = <<>> /\ Idle.failed = {} /\ Idle.rested = {}
    BY IdleTask DEF Idle
  <1>5. r \in {"abuse", "hash", "url"}
    OBVIOUS
  <1> DEFINE k == [Idle EXCEPT !.reg = r, !.job = job, !.rows = rows, !.listed = keys]
  <1>6. k \in Task
    BY <1>1, <1>4, <1>5 DEF Task
  <1>7. /\ k.reg = r /\ k.job = job /\ k.tier = "none" /\ k.ahead = <<>> /\ k.found = <<>>
        /\ k.todo = <<>> /\ k.listed = keys /\ k.failed = {} /\ k.rested = {}
    BY <1>4 DEF Task
  <1> HIDE DEF k
  <1>8. Beginning(r, job, rows) = k
    BY <1>2 DEF k
  <1> QED BY <1>3, <1>6, <1>7, <1>8

\* A query or a refresh begins with all its keys to look at.
LEMMA ListBeganFine ==
    ASSUME Inv, NEW t \in Tasks, NEW r \in Registers, NEW job \in {"lookup", "bulk"},
           NEW rows \in 0 .. MaxRows, ListBegan(t, r, job, rows), job = "bulk" => r = "abuse"
    PROVE  Inv'
  <1> DEFINE k == Beginning(r, job, rows)
  <1>1. /\ k \in Task /\ k.reg = r /\ k.job = job /\ k.found = <<>> /\ k.todo = <<>>
        /\ k.failed = {} /\ k.rested = {}
        /\ k.listed \subseteq Keys
    <2>1. TypeOK /\ job \in Jobs
      BY DEF Inv, Jobs
    <2>2. /\ k \in Task /\ k.reg = r /\ k.job = job /\ k.found = <<>> /\ k.todo = <<>>
          /\ k.failed = {} /\ k.rested = {}
      BY <2>1, BeginningIs
    <2> HIDE DEF k
    <2> QED BY <2>2 DEF Task
  <1> HIDE DEF k
  <1>2. PICK keys \in Stored(k.listed) :
          Moves(t, [k EXCEPT !.pc = "listing", !.tier = "fresh", !.ahead = keys])
    BY DEF ListBegan, k
  <1>3. keys \in Seq(Keys) /\ Elements(keys) = k.listed
    BY <1>1, ListingsAre DEF Stored
  <1> DEFINE n == [k EXCEPT !.pc = "listing", !.tier = "fresh", !.ahead = keys]
  <1>4. /\ n \in Task /\ n.pc = "listing" /\ n.tier = "fresh" /\ n.ahead = keys
        /\ n.reg = k.reg /\ n.job = k.job /\ n.found = k.found /\ n.todo = k.todo
        /\ n.failed = k.failed /\ n.rested = k.rested /\ n.listed = k.listed
    BY <1>1, <1>3 DEF Task
  <1>5. Moves(t, n)
    BY <1>2
  <1> HIDE DEF n
  <1>6. Shape(n)
    BY <1>1, <1>4 DEF Shape
  <1>7. Progress(n, refused)
    BY <1>1, <1>3, <1>4 DEF Progress, Accounted
  <1> QED BY <1>4, <1>5, <1>6, <1>7, MovesFine

\* A probe or a check begins with the keys it asks.
LEMMA AskersBegan ==
    ASSUME Inv, NEW t \in Tasks, "hash" \in Registers, NEW job \in {"probe", "check"},
           NEW todo \in Seq(Keys), Moves(t, Going(Beginning("hash", job, 1), todo))
    PROVE  Inv'
  <1> DEFINE k == Beginning("hash", job, 1)
  <1>1. k \in Task /\ k.reg = "hash" /\ k.job = job /\ k.tier = "none"
        /\ k.ahead = <<>> /\ k.found = <<>>
    BY BeginningIs DEF Inv, Jobs
  <1> HIDE DEF k
  <1> DEFINE n == Going(k, todo)
  <1>2. n \in Task /\ Shape(n) /\ Progress(n, refused)
    BY <1>1, GoesFine
  <1>3. Moves(t, n)
    BY DEF k
  <1> HIDE DEF n
  <1> QED BY <1>2, <1>3, MovesFine

\* A look at a key of the pass under way.
LEMMA LookFine ==
    ASSUME Inv, NEW t \in Tasks, KeyLooked(t)
    PROVE  Inv'
  <1> DEFINE k == task[t]
             key == Head(k.ahead)
             rests == key \in Resting(k.reg)
             ahead == Tail(k.ahead)
             found == IF Fits(k.reg, k.tier, key) THEN Append(k.found, key) ELSE k.found
             rested == IF rests THEN k.rested \cup {key} ELSE k.rested
             awake == IF rests THEN k.awake ELSE k.awake \cup {key}
             n == [k EXCEPT !.ahead = ahead, !.found = found, !.rested = rested, !.awake = awake]
  <1>1. k \in Task /\ Shape(k) /\ Progress(k, refused)
    BY DEF Inv, TypeOK, TasksFine
  <1>2. k.pc = "listing" /\ k.ahead # <<>> /\ Moves(t, n)
    BY DEF KeyLooked
  <1>3. k.ahead \in Seq(Keys) /\ k.found \in Seq(Keys) /\ k.todo \in Seq(Keys)
    BY <1>1 DEF Task
  <1>4. key \in Keys /\ ahead \in Seq(Keys) /\ Elements(k.ahead) = {key} \cup Elements(ahead)
    BY <1>2, <1>3, HeadAndTail
  <1>5. /\ found \in Seq(Keys)
        /\ Elements(found) = IF Fits(k.reg, k.tier, key) THEN Elements(k.found) \cup {key}
                             ELSE Elements(k.found)
    BY <1>3, <1>4, Appended
  <1>6. /\ k.reg \in Registers
        /\ k.tier \in {"fresh", "limited", "exhausted", "again"}
        /\ k.reg = "abuse" => k.tier \in {"fresh", "exhausted"}
    BY <1>1, <1>2 DEF Shape
  <1>7. ~Fits(k.reg, k.tier, key) =>
          IF k.tier \in {"fresh", "again"} THEN rests
          ELSE k.reg = "abuse" => ~rests
    BY <1>6 DEF Fits, Resting, Limited
  <1>8. k.reg = "abuse" /\ rests => key \in refused
    BY <1>4, <1>6 DEF Resting, Exhausted, Limited, Inv, RetiredWasRefused
  <1>9. /\ n \in Task /\ n.pc = k.pc /\ n.reg = k.reg /\ n.job = k.job /\ n.tier = k.tier
        /\ n.todo = k.todo /\ n.listed = k.listed /\ n.failed = k.failed
        /\ n.ahead = ahead /\ n.found = found /\ n.rested = rested /\ n.awake = awake
    <2>1. rested \subseteq Keys /\ awake \subseteq Keys
      BY <1>1, <1>4 DEF Task
    <2> HIDE DEF rested, awake, found, ahead, k
    <2> QED BY <1>1, <1>4, <1>5, <2>1 DEF Task
  <1> HIDE DEF n, found, ahead
  <1>10. Shape(n)
    BY <1>1, <1>2, <1>9 DEF Shape
  <1>11. k.job \in {"lookup", "bulk"} => Accounted(n, n.todo)
    <2> SUFFICES ASSUME k.job \in {"lookup", "bulk"},
                        NEW j \in k.listed \ (k.failed \cup Elements(k.todo) \cup Elements(found))
                 PROVE  \/ j \in Elements(ahead) /\ k.tier \in {"fresh", "again"}
                        \/ /\ j \in rested
                           /\ k.reg = "abuse" => \/ j \in awake
                                                 \/ k.tier = "fresh" \/ j \in Elements(ahead)
      BY <1>9 DEF Accounted
    <2>1. \/ j \in Elements(k.ahead) /\ k.tier \in {"fresh", "again"}
          \/ /\ j \in k.rested
             /\ k.reg = "abuse" => \/ j \in k.awake
                                   \/ k.tier = "fresh" \/ j \in Elements(k.ahead)
      BY <1>1, <1>2, <1>5 DEF Progress, Accounted
    <2>2. CASE j # key
      BY <1>4, <2>1, <2>2
    <2>3. CASE j = key
      <3>1. ~Fits(k.reg, k.tier, key)
        BY <1>5, <2>3
      <3> HIDE DEF k, key
      <3> QED BY <1>6, <1>7, <2>1, <2>3, <3>1
    <2> QED BY <2>2, <2>3
  <1>12. k.job = "bulk" => rested \subseteq refused /\ k.failed \subseteq refused
    BY <1>1, <1>2, <1>8 DEF Progress, Shape
  <1>13. Progress(n, refused)
    BY <1>2, <1>9, <1>11, <1>12 DEF Progress
  <1> QED BY <1>2, <1>9, <1>10, <1>13, MovesFine

LEMMA TiersAre ==
    ASSUME NEW k \in Task, NEW tier \in Tiers(k)
    PROVE  tier \in Seq(Keys) /\ Elements(tier) = Elements(k.found)
  <1>1. k.found \in Seq(Keys) /\ Elements(k.found) \in SUBSET Keys
    BY ElementsAreKeys DEF Task
  <1>2. tier = k.found \/ tier \in Listings(Elements(k.found))
    BY DEF Tiers
  <1> QED BY <1>1, <1>2, ListingsAre

\* The end of a pass.
LEMMA PassFine ==
    ASSUME Inv, NEW t \in Tasks, PassEnded(t)
    PROVE  Inv'
  <1> DEFINE k == task[t]
             next == NextTier(k.reg, k.tier)
  <1>1. k \in Task /\ Shape(k) /\ Progress(k, refused)
    BY DEF Inv, TypeOK, TasksFine
  <1>2. k.pc = "listing" /\ k.ahead = <<>>
    BY DEF PassEnded
  <1>3. PICK tier \in Tiers(k) :
          \/ /\ next \in {"limited", "exhausted"}
             /\ \E keys \in Stored(k.listed) :
                  Moves(t, [k EXCEPT !.tier = next, !.ahead = keys, !.found = <<>>,
                                     !.todo = k.todo \o tier])
          \/ /\ next = "again"
             /\ Moves(t, [k EXCEPT !.tier = next, !.ahead = k.todo \o tier,
                                   !.found = <<>>, !.todo = <<>>])
          \/ /\ next = "none"
             /\ Moves(t, Listed(k, k.todo \o tier))
    BY DEF PassEnded
  <1> DEFINE list == k.todo \o tier
  <1>4. k.todo \in Seq(Keys) /\ k.listed \in SUBSET Keys
    BY <1>1 DEF Task
  <1>5. list \in Seq(Keys) /\ Elements(list) = Elements(k.todo) \cup Elements(k.found)
    BY <1>1, <1>3, <1>4, TiersAre, Joined
  <1>6. /\ k.reg \in Registers
        /\ k.tier \in {"fresh", "limited", "exhausted", "again"}
        /\ k.reg = "abuse" => k.tier \in {"fresh", "exhausted"}
    BY <1>1, <1>2 DEF Shape
  <1>7. k.job \in {"lookup", "bulk"} =>
          \A key \in k.listed \ (k.failed \cup Elements(list)) :
              key \in k.rested /\ (k.reg = "abuse" => key \in k.awake \/ k.tier = "fresh")
    BY <1>1, <1>2, <1>5, NoElements DEF Progress, Accounted
  <1>8. k.job = "bulk" => k.failed \subseteq refused /\ k.rested \subseteq refused
    BY <1>1, <1>2 DEF Progress
  <1>9. <<>> \in Seq(Keys)
    BY NoElements
  <1> HIDE DEF list
  <1>10. ASSUME next \in {"limited", "exhausted"}, NEW keys \in Stored(k.listed),
                Moves(t, [k EXCEPT !.tier = next, !.ahead = keys, !.found = <<>>, !.todo = list])
         PROVE  Inv'
    <2> DEFINE n == [k EXCEPT !.tier = next, !.ahead = keys, !.found = <<>>, !.todo = list]
    <2>1. keys \in Seq(Keys) /\ Elements(keys) = k.listed
      BY <1>4, <1>10, ListingsAre DEF Stored
    <2>2. k.reg = "abuse" => next = "exhausted"
      BY <1>6, <1>10 DEF NextTier
    <2>3. /\ n \in Task /\ n.pc = k.pc /\ n.reg = k.reg /\ n.job = k.job /\ n.tier = next
          /\ n.todo = list /\ n.listed = k.listed /\ n.failed = k.failed
          /\ n.ahead = keys /\ n.found = <<>> /\ n.rested = k.rested /\ n.awake = k.awake
      <3> HIDE DEF k, next
      <3> QED BY <1>1, <1>5, <1>9, <1>10, <2>1 DEF Task
    <2>4. Moves(t, n)
      BY <1>10
    <2> HIDE DEF n
    <2>5. Shape(n)
      BY <1>1, <1>2, <1>10, <2>2, <2>3 DEF Shape
    <2>6. k.job \in {"lookup", "bulk"} => Accounted(n, n.todo)
      BY <1>7, <2>1, <2>3 DEF Accounted
    <2>7. Progress(n, refused)
      BY <1>2, <1>8, <2>3, <2>6 DEF Progress
    <2> QED BY <2>3, <2>4, <2>5, <2>7, MovesFine
  <1>11. ASSUME next = "again",
                Moves(t, [k EXCEPT !.tier = next, !.ahead = list, !.found = <<>>, !.todo = <<>>])
         PROVE  Inv'
    <2> DEFINE n == [k EXCEPT !.tier = next, !.ahead = list, !.found = <<>>, !.todo = <<>>]
    <2>2. k.reg # "abuse"
      BY <1>6, <1>11 DEF NextTier
    <2>3. /\ n \in Task /\ n.pc = k.pc /\ n.reg = k.reg /\ n.job = k.job /\ n.tier = next
          /\ n.todo = <<>> /\ n.listed = k.listed /\ n.failed = k.failed
          /\ n.ahead = list /\ n.found = <<>> /\ n.rested = k.rested /\ n.awake = k.awake
      <3> HIDE DEF k, next
      <3> QED BY <1>1, <1>5, <1>9, <1>11 DEF Task
    <2>4. Moves(t, n)
      BY <1>11
    <2> HIDE DEF n
    <2>5. Shape(n)
      BY <1>1, <1>2, <1>11, <2>2, <2>3 DEF Shape
    <2>6. k.job \in {"lookup", "bulk"} => Accounted(n, n.todo)
      BY <1>7, <1>11, <2>2, <2>3 DEF Accounted
    <2>7. Progress(n, refused)
      BY <1>2, <1>8, <2>3, <2>6 DEF Progress
    <2> QED BY <2>3, <2>4, <2>5, <2>7, MovesFine
  <1>12. ASSUME next = "none", Moves(t, Listed(k, list))
         PROVE  Inv'
    <2> DEFINE rested == k.rested \ Elements(list)
               awake == k.awake \ Elements(list)
               j == [k EXCEPT !.tier = "none", !.found = <<>>, !.rested = rested, !.awake = awake]
    <2>1. k.reg = "abuse" => k.tier # "fresh"
      BY <1>6, <1>12 DEF NextTier
    <2>2. rested \subseteq Keys /\ awake \subseteq Keys
      BY <1>1 DEF Task
    <2>3. /\ j \in Task /\ j.reg = k.reg /\ j.job = k.job /\ j.tier = "none"
          /\ j.listed = k.listed /\ j.failed = k.failed
          /\ j.ahead = <<>> /\ j.found = <<>> /\ j.rested = rested /\ j.awake = awake
      <3> HIDE DEF k, rested, awake
      <3> QED BY <1>1, <1>2, <1>9, <2>2 DEF Task
    <2>4. Listed(k, list) = Going(j, list)
      BY DEF Listed
    <2> HIDE DEF j
    <2>5. k.job \in {"lookup", "bulk"} => Accounted(j, list)
      BY <1>7, <2>1, <2>3 DEF Accounted
    <2> DEFINE n == Going(j, list)
    <2>6. n \in Task /\ Shape(n) /\ Progress(n, refused)
      BY <1>1, <1>5, <1>6, <1>8, <2>3, <2>5, GoesFine DEF Shape
    <2>7. Moves(t, n)
      BY <1>12, <2>4
    <2> HIDE DEF n
    <2> QED BY <2>6, <2>7, MovesFine
  <1> QED BY <1>3, <1>10, <1>11, <1>12 DEF list

\* A key that failed is taken off the list of its task.
LEMMA FailedFine ==
    ASSUME NEW k \in Task, NEW R, Shape(k), Progress(k, R), k.pc \in {"asking", "answered"},
           k.job = "bulk" => Head(k.todo) \in R
    PROVE  LET n == Going([k EXCEPT !.failed = k.failed \cup {Head(k.todo)}], Tail(k.todo))
           IN  n \in Task /\ Shape(n) /\ Progress(n, R)
  <1> DEFINE more == k.failed \cup {Head(k.todo)}
             j == [k EXCEPT !.failed = more]
  <1>1. /\ k.todo \in Seq(Keys) /\ k.todo # <<>> /\ k.failed \subseteq Keys
        /\ k.reg \in Registers /\ k.tier = "none" /\ k.ahead = <<>> /\ k.found = <<>>
    BY DEF Task, Shape
  <1>2. /\ Head(k.todo) \in Keys /\ Tail(k.todo) \in Seq(Keys)
        /\ Elements(k.todo) = {Head(k.todo)} \cup Elements(Tail(k.todo))
    BY <1>1, HeadAndTail
  <1>3. more \subseteq Keys /\ more \cup Elements(Tail(k.todo)) = k.failed \cup Elements(k.todo)
    BY <1>1, <1>2
  <1>m. k.job = "bulk" => more \subseteq R /\ k.rested \subseteq R
    BY DEF Progress
  <1>4. /\ j \in Task /\ j.reg = k.reg /\ j.job = k.job /\ j.listed = k.listed
        /\ j.tier = "none" /\ j.ahead = <<>> /\ j.found = <<>>
        /\ j.rested = k.rested /\ j.awake = k.awake /\ j.failed = more
    <2> HIDE DEF more
    <2> QED BY <1>1, <1>3 DEF Task
  <1>a. k.job \in {"lookup", "bulk"} => Accounted(j, Tail(k.todo))
    <2> HIDE DEF j, more
    <2>1. k.job \in {"lookup", "bulk"} => Accounted(k, k.todo)
      BY DEF Progress
    <2>2. more \cup Elements(Tail(k.todo)) \cup Elements(k.found)
            = k.failed \cup Elements(k.todo) \cup Elements(k.found)
      BY <1>3
    <2> QED BY <1>1, <1>4, <2>1, <2>2 DEF Accounted
  <1> HIDE DEF j, more
  <1>5. Going(j, Tail(k.todo)) \in Task /\ Shape(Going(j, Tail(k.todo)))
        /\ Progress(Going(j, Tail(k.todo)), R)
    BY <1>1, <1>2, <1>m, <1>4, <1>a, GoesFine DEF Shape
  <1> QED BY <1>5 DEF j, more

LEMMA FailedIs ==
    ASSUME NEW k \in Task, NEW R, Shape(k), Progress(k, R), k.pc = "answered",
           k.job = "bulk" => Head(k.todo) \in R
    PROVE  Failed(k) \in Task /\ Shape(Failed(k)) /\ Progress(Failed(k), R)
  <1>1. CASE k.job = "probe"
    BY <1>1, IdleTask DEF Failed
  <1>2. CASE k.job # "probe"
    BY <1>2, FailedFine DEF Failed
  <1> QED BY <1>1, <1>2

LEMMA ServedFine ==
    ASSUME NEW k \in Task, NEW R, Shape(k), Progress(k, R), k.pc = "answered"
    PROVE  Served(k) \in Task /\ Shape(Served(k)) /\ Progress(Served(k), R)
  <1>1. CASE k.job = "bulk" /\ k.rows > 1
    <2> DEFINE less == k.rows - 1
               n == [k EXCEPT !.pc = "asking", !.reply = "error", !.rows = less]
    <2>1. less \in 0 .. MaxRows
      <3>1. k.rows \in 0 .. MaxRows
        BY DEF Task
      <3> QED BY <1>1, <3>1
    <2>2. /\ n \in Task /\ n.pc = "asking" /\ n.reg = k.reg /\ n.job = k.job /\ n.todo = k.todo
          /\ n.tier = k.tier /\ n.ahead = k.ahead /\ n.found = k.found
          /\ n.rested = k.rested /\ n.awake = k.awake
          /\ n.listed = k.listed /\ n.failed = k.failed
      <3> HIDE DEF less
      <3> QED BY <2>1 DEF Task, Replies
    <2>3. Served(k) = n
      BY <1>1 DEF Served
    <2> HIDE DEF n
    <2>4. Shape(n) /\ Progress(n, R)
      BY <1>1, <2>2 DEF Shape, Progress, Accounted
    <2> QED BY <2>2, <2>3, <2>4
  <1>2. CASE k.job = "check"
    <2>1. /\ k.todo \in Seq(Keys) /\ k.todo # <<>> /\ k.reg \in Registers /\ k.reg = "hash"
          /\ k.tier = "none" /\ k.ahead = <<>> /\ k.found = <<>>
      BY <1>2 DEF Task, Shape
    <2> DEFINE todo == Tail(k.todo)
    <2>2. todo \in Seq(Keys)
      BY <2>1, HeadAndTail
    <2>3. Served(k) = Going(k, todo)
      BY <1>2 DEF Served
    <2> HIDE DEF todo
    <2>4. Going(k, todo) \in Task /\ Shape(Going(k, todo)) /\ Progress(Going(k, todo), R)
      BY <1>2, <2>1, <2>2, GoesFine
    <2> QED BY <2>3, <2>4
  <1>3. CASE ~(k.job = "bulk" /\ k.rows > 1) /\ k.job # "check"
    BY <1>3, IdleTask DEF Served
  <1> QED BY <1>1, <1>2, <1>3

LEMMA StepKeeps ==
    ASSUME Inv, NEW t \in Tasks, Step(t)
    PROVE  Inv'
  <1> DEFINE k == task[t]
  <1>k. k \in Task /\ Shape(k) /\ Progress(k, refused)
    BY DEF Inv, TypeOK, TasksFine
  <1>c. configured \cap KeysOf("abuse") \subseteq Keys /\ configured \in SUBSET Keys
        /\ refused \subseteq Keys
    BY DEF Inv, TypeOK
  <1>b. 1 \in 0 .. MaxRows /\ {"lookup", "bulk", "probe", "check"} \subseteq Jobs
    BY DEF Jobs
  <1>q. UNCHANGED <<exhausted, limited>> => Marking
    BY DEF Marking
  <1>h. k.pc \in {"asking", "answered"} =>
          /\ k.reg \in Registers /\ k.todo \in Seq(Keys) /\ k.todo # <<>> /\ Head(k.todo) \in Keys
    <2> SUFFICES ASSUME k.pc \in {"asking", "answered"}
                 PROVE  k.reg \in Registers /\ k.todo \in Seq(Keys) /\ k.todo # <<>> /\ Head(k.todo) \in Keys
      OBVIOUS
    <2>1. k.reg \in Registers /\ k.todo \in Seq(Keys) /\ k.todo # <<>>
      BY <1>k DEF Shape, Task
    <2> QED BY <2>1, HeadAndTail
  <1> HIDE DEF k
  <1>1. ASSUME NEW r \in Registers, LookupBegan(t, r)
        PROVE  Inv'
    BY <1>1, <1>b, ListBeganFine DEF LookupBegan
  <1>2. ASSUME BulkBegan(t)
        PROVE  Inv'
    <2>1. PICK rows \in 1 .. MaxRows : "abuse" \in Registers /\ ListBegan(t, "abuse", "bulk", rows)
      BY <1>2 DEF BulkBegan
    <2>2. rows \in 0 .. MaxRows
      OBVIOUS
    <2> QED BY <2>1, <2>2, ListBeganFine
  <1>3. ASSUME ProbeBegan(t)
        PROVE  Inv'
    <2>1. PICK key \in Keys : "hash" \in Registers /\ Moves(t, Going(Beginning("hash", "probe", 1), <<key>>))
      BY <1>3, <1>c DEF ProbeBegan
    <2> DEFINE todo == <<key>>
    <2>2. todo \in Seq(Keys)
      OBVIOUS
    <2> HIDE DEF todo
    <2>3. Moves(t, Going(Beginning("hash", "probe", 1), todo))
      BY <2>1 DEF todo
    <2> QED BY <2>1, <2>2, <2>3, AskersBegan
  <1>4. ASSUME CheckBegan(t)
        PROVE  Inv'
    <2> DEFINE keys == configured \cap VtKeys
    <2>1. PICK todo \in Stored(keys) : Moves(t, Going(Beginning("hash", "check", 1), todo))
      BY <1>4 DEF CheckBegan
    <2>2. todo \in Listings(keys) /\ keys \in SUBSET Keys
      BY <1>c DEF Stored
    <2>3. todo \in Seq(Keys) /\ "hash" \in Registers
      BY <1>4, <2>2, ListingsAre DEF CheckBegan
    <2> QED BY <2>1, <2>3, AskersBegan
  <1>5. ASSUME KeySkipped(t)
        PROVE  Inv'
    <2> DEFINE n == Going([k EXCEPT !.failed = k.failed \cup {Head(k.todo)}], Tail(k.todo))
    <2>1. k.pc = "asking" /\ Exhausted(k.reg, Head(k.todo)) /\ Moves(t, n)
      BY <1>5 DEF KeySkipped, k
    <2>2. k.job = "bulk" => Head(k.todo) \in refused
      BY <1>k, <1>h, <2>1 DEF Shape, Exhausted, Inv, RetiredWasRefused
    <2>3. n \in Task /\ Shape(n) /\ Progress(n, refused)
      BY <1>k, <2>1, <2>2, FailedFine
    <2> HIDE DEF n
    <2> QED BY <2>1, <2>3, MovesFine
  <1>6. ASSUME NEW reply \in Replies, Asked(t, reply)
        PROVE  Inv'
    <2> DEFINE n == [k EXCEPT !.pc = "answered", !.reply = reply]
    <2>1. /\ k.pc = "asking" /\ reply \in Answers(k.reg) /\ task' = [task EXCEPT ![t] = n]
          /\ refused' = IF reply \in Refusals THEN refused \cup {Head(k.todo)} ELSE refused
          /\ UNCHANGED <<now, configured, exhausted, limited, dropping>>
      BY <1>6 DEF Asked, k, Refusals
    <2>2. /\ n \in Task /\ n.pc = "answered" /\ n.reply = reply /\ n.todo = k.todo /\ n.job = k.job
          /\ n.reg = k.reg /\ n.failed = k.failed /\ n.listed = k.listed
          /\ n.tier = k.tier /\ n.ahead = k.ahead /\ n.found = k.found
          /\ n.rested = k.rested /\ n.awake = k.awake
      BY <1>k DEF Task
    <2> HIDE DEF n
    <2>3. refused \subseteq refused' /\ refused' \subseteq Keys
      BY <1>c, <1>h, <2>1
    <2>4. Shape(n)
      BY <1>k, <2>1, <2>2 DEF Shape
    <2>5. Progress(n, refused')
      BY <1>k, <2>1, <2>2, <2>3 DEF Progress, Accounted, Refusals
    <2> QED BY <1>q, <2>1, <2>2, <2>3, <2>4, <2>5, StepFine
  <1>7. ASSUME NEW n \in Task, Continues(t, n), Shape(n), Progress(n, refused), Marking
        PROVE  Inv'
    BY <1>7, <1>c, StepFine DEF Continues
  <1>8. ASSUME AnswerHandled(t)
        PROVE  Inv'
    <2> DEFINE n == Served(k)
    <2>1. n \in Task /\ Shape(n) /\ Progress(n, refused)
      BY <1>8, <1>k, ServedFine DEF AnswerHandled, k
    <2>2. Continues(t, n) /\ Marking
      BY <1>8, <1>q DEF AnswerHandled, k
    <2> HIDE DEF n
    <2> QED BY <1>7, <2>1, <2>2
  <1>9. ASSUME ErrorHandled(t)
        PROVE  Inv'
    <2> DEFINE n == IF k.job = "bulk" THEN Served(k) ELSE Failed(k)
    <2>1. k.pc = "answered"
      BY <1>9 DEF ErrorHandled, k
    <2>2. n \in Task /\ Shape(n) /\ Progress(n, refused)
      BY <1>k, <2>1, ServedFine, FailedIs
    <2>3. Continues(t, n) /\ Marking
      BY <1>9, <1>q DEF ErrorHandled, k
    <2> HIDE DEF n
    <2> QED BY <1>7, <2>2, <2>3
  <1>10. ASSUME QuotaHandled(t)
         PROVE  Inv'
    <2> DEFINE n == Failed(k)
    <2>1. k.pc = "answered" /\ k.reply \in Refusals
      BY <1>10 DEF QuotaHandled, k, Refusals
    <2>2. Head(k.todo) \in refused
      BY <1>k, <2>1 DEF Progress
    <2>3. n \in Task /\ Shape(n) /\ Progress(n, refused)
      BY <1>k, <2>1, <2>2, FailedIs
    <2>4. Continues(t, n) /\ MarkExhausted(k.reg, Head(k.todo))
      BY <1>10 DEF QuotaHandled, k
    <2>5. Marking
      BY <1>h, <2>1, <2>2, <2>4 DEF Marking
    <2> HIDE DEF n
    <2> QED BY <1>7, <2>3, <2>4, <2>5
  <1>11. ASSUME ThrottleHandled(t)
         PROVE  Inv'
    <2> DEFINE n == Failed(k)
    <2>1. k.pc = "answered" /\ k.reply \in {"quiet", "throttle"} /\ Continues(t, n)
      BY <1>11 DEF ThrottleHandled, k
    <2>2. k.job # "bulk"
      BY <1>k, <2>1 DEF Shape, Answers
    <2>3. n \in Task /\ Shape(n) /\ Progress(n, refused)
      BY <1>k, <2>1, <2>2, FailedIs
    <2>4. k.job # "lookup" => k.reg = "hash"
      BY <1>k, <2>2 DEF Shape, Task, Jobs
    <2>5. \/ MarkRateLimited(k.reg, Head(k.todo))
          \/ MarkExhausted(k.reg, Head(k.todo)) /\ k.reg = "hash"
          \/ UNCHANGED <<exhausted, limited>>
      BY <1>11, <2>4 DEF ThrottleHandled, k
    <2>6. Marking
      BY <1>h, <2>1, <2>5 DEF Marking
    <2> HIDE DEF n
    <2> QED BY <1>7, <2>1, <2>3, <2>6
  <1>12. ASSUME Returned(t)
         PROVE  Inv'
    BY <1>12, IdleTask, MovesFine DEF Returned
  <1> QED BY <1>1, <1>2, <1>3, <1>4, <1>5, <1>6, <1>8, <1>9, <1>10, <1>11, <1>12,
             LookFine, PassFine DEF Step

LEMMA EnvironmentKeeps ==
    ASSUME Inv, Environment
    PROVE  Inv'
  <1>1. ASSUME UNCHANGED <<refused, task>>, Marking, now' = now, configured' \in SUBSET Keys,
               dropping' \in SUBSET ({"exhausted", "limited"} \X Registers \X Keys)
        PROVE  Inv'
    <2>1. exhausted' \in Marker /\ limited' \in Marker /\ MarkersExpire' /\ RetiredWasRefused'
      BY <1>1, MarkingKeeps DEF Inv
    <2>2. TasksFine'
      BY <1>1 DEF Inv, TasksFine
    <2> QED BY <1>1, <2>1, <2>2 DEF Inv, TypeOK
  <1>2. ASSUME NEW r \in Registers, NEW k \in Keys,
               MarkerFoundExpired(r, k) \/ LimitFoundExpired(r, k) \/ MarkerDropped(r, k)
        PROVE  Inv'
    <2>1. Marking
      BY <1>2 DEF MarkerFoundExpired, LimitFoundExpired, MarkerDropped, Marking
    <2>2. dropping' \in SUBSET ({"exhausted", "limited"} \X Registers \X Keys)
      BY <1>2 DEF MarkerFoundExpired, LimitFoundExpired, MarkerDropped, Inv, TypeOK
    <2> QED BY <1>1, <1>2, <2>1, <2>2 DEF MarkerFoundExpired, LimitFoundExpired, MarkerDropped, Inv, TypeOK
  <1>3. ASSUME NEW keys \in KeySettings, KeysSaved(keys)
        PROVE  Inv'
    BY <1>1, <1>3 DEF KeysSaved, Marking, Inv, TypeOK
  <1>4. ASSUME Tick
        PROVE  Inv'
    <2>1. /\ UNCHANGED <<configured, refused, exhausted, limited, dropping, task>>
          /\ now \in Nat /\ now' = now + 1 /\ now' \in 0 .. MaxTime
      BY <1>4 DEF Tick, Inv, TypeOK
    <2>2. MarkersExpire'
      <3>1. /\ \A r \in Registers, k \in Keys : exhausted[r][k] # Null => exhausted[r][k] \in Nat
            /\ \A r \in Registers, k \in Keys : limited[r][k] # Null => limited[r][k] \in Nat
        BY DEF Inv, TypeOK, Marker, Times
      <3> QED BY <2>1, <3>1 DEF Inv, MarkersExpire
    <2> QED BY <2>1, <2>2 DEF Inv, TypeOK, TasksFine, RetiredWasRefused
  <1>5. ASSUME Restart
        PROVE  Inv'
    <2>1. exhausted' \in Marker /\ limited' \in Marker
      BY <1>5 DEF Restart, Marker
    <2>2. \A r \in Registers, k \in Keys : exhausted'[r][k] = Null /\ limited'[r][k] = Null
      BY <1>5 DEF Restart
    <2>3. task' \in [Tasks -> Task] /\ \A t \in Tasks : task'[t] = Idle
      BY <1>5, IdleTask DEF Restart
    <2>4. TasksFine'
      BY <2>3, IdleTask DEF TasksFine
    <2>5. Idle.pc = "idle"
      BY DEF Idle
    <2> QED BY <1>5, <2>1, <2>2, <2>3, <2>4, <2>5
            DEF Restart, Inv, TypeOK, MarkersExpire, RetiredWasRefused
  <1> QED BY <1>2, <1>3, <1>4, <1>5 DEF Environment

LEMMA InvInductive ==
    /\ Init => Inv
    /\ Inv /\ [Next]_vars => Inv'
  <1>1. ASSUME Init PROVE Inv
    <2>1. exhausted \in Marker /\ limited \in Marker
      BY <1>1 DEF Init, Marker
    <2>2. \A r \in Registers, k \in Keys : exhausted[r][k] = Null /\ limited[r][k] = Null
      BY <1>1 DEF Init
    <2>3. task \in [Tasks -> Task] /\ \A t \in Tasks : task[t] = Idle
      BY <1>1, IdleTask DEF Init
    <2>4. TasksFine
      BY <2>3, IdleTask DEF TasksFine
    <2>5. Idle.pc = "idle"
      BY DEF Idle
    <2> QED BY <1>1, <2>1, <2>2, <2>3, <2>4, <2>5
            DEF Init, Inv, TypeOK, MarkersExpire, RetiredWasRefused
  <1>2. ASSUME Inv, Next PROVE Inv'
    BY <1>2, StepKeeps, EnvironmentKeeps DEF Next
  <1>3. ASSUME Inv, UNCHANGED vars PROVE Inv'
    BY <1>3 DEF vars, Inv, TypeOK, MarkersExpire, RetiredWasRefused, TasksFine
  <1> QED BY <1>1, <1>2, <1>3

-----------------------------------------------------------------------------
(* The theorems *)

\* TypeOK, for any keys, registers and tasks: a task that asks has a key left.
THEOREM RotationTyped == Spec => []TypeOK
  <1>1. Inv => TypeOK
    BY DEF Inv
  <1> QED BY <1>1, InvInductive, PTL DEF Spec

\* MarkersExpire: no marker outlasts the next quota reset or a cooldown from
\* now, however threads set and remove markers (_next_utc_reset).
THEOREM KeysComeBack == Spec => []MarkersExpire
  <1>1. Inv => MarkersExpire
    BY DEF Inv
  <1> QED BY <1>1, InvInductive, PTL DEF Spec

\* RetiredOnlyIfRefused: what retires a key is a refusal its task has seen.
THEOREM RetiredKeysWereRefused == Spec => []RetiredOnlyIfRefused
  <1>1. Inv => RetiredOnlyIfRefused
    BY DEF Inv, RetiredOnlyIfRefused, RetiredWasRefused, Exhausted
  <1> QED BY <1>1, InvInductive, PTL DEF Spec

\* A task that gave up has nothing on its list: what it was to work through has
\* failed, or may be passed over.
LEMMA GaveUp ==
    ASSUME Inv, NEW t \in Tasks, task[t].pc = "gave up", task[t].job \in {"lookup", "bulk"}
    PROVE  \A key \in task[t].listed : TriedOrPassedOver(task[t], key)
  <1>1. Shape(task[t]) /\ Progress(task[t], refused)
    BY DEF Inv, TasksFine
  <1>2. /\ task[t].todo = <<>> /\ task[t].ahead = <<>> /\ task[t].found = <<>>
        /\ task[t].tier = "none" /\ Accounted(task[t], task[t].todo)
    BY <1>1 DEF Shape, Progress
  <1> QED BY <1>2, NoElements DEF Accounted, TriedOrPassedOver

\* NoneOnlyAfterAll: a query gives up when every key stored as it began has failed
\* or was left out of its list, for VirusTotal's by a look that found it resting,
\* for AbuseIPDB's by two looks of which only the first did.
THEOREM QueriesTryAll == Spec => []NoneOnlyAfterAll
  <1>1. Inv => NoneOnlyAfterAll
    BY GaveUp DEF NoneOnlyAfterAll
  <1> QED BY <1>1, InvInductive, PTL DEF Spec

\* AbortsOnlyIfRefused: what a refresh found to fail or to rest was refused, by an
\* answer to itself or by one that marked the key.
THEOREM RefreshesAbortOutOfQuota == Spec => []AbortsOnlyIfRefused
  <1>1. ASSUME Inv, NEW t \in Tasks, task[t].pc = "gave up", task[t].job = "bulk"
        PROVE  task[t].listed \subseteq refused
    <2>1. Progress(task[t], refused)
      BY <1>1 DEF Inv, TasksFine
    <2> QED BY <1>1, <2>1, GaveUp DEF Progress, TriedOrPassedOver
  <1>2. Inv => AbortsOnlyIfRefused
    BY <1>1, GaveUp DEF AbortsOnlyIfRefused
  <1> QED BY <1>2, InvInductive, PTL DEF Spec
==============================================================================
