----------------------------- MODULE AccessProofs -----------------------------
(***************************************************************************)
(* Proofs about the accounts, the sign-in and the limiter, for any callers, *)
(* workers, limits and bounds.  A step moves the traffic of the API or the  *)
(* accounts and the sign-in, never both: each side has an invariant of its  *)
(* own, and they meet where a worker is free and where a call is admitted.  *)
(***************************************************************************)
EXTENDS AccessProps, FiniteSetTheorems, TLAPS

-----------------------------------------------------------------------------
(* The invariant of the traffic *)

Entry == [n : Nat \ {0}, start : Nat]
Call == [pc : {"idle", "counting", "counted", "refused", "serving"},
         who : Counters \cup {Null}, key : Counters \cup {Null},
         at : Time, read : Entry \cup {Null}]

\* What a call under way holds: who calls, which counter it is at, and what it
\* read there, no later than time t.
Holds(c, t) ==
    /\ c.pc # "idle" => c.who \in Counters
    /\ c.pc \in {"counting", "counted"} => c.key \in Counters
    /\ c.pc = "counted" => c.at <= t /\ (c.read # Null => c.read.start <= c.at)

TrafficTyped ==
    /\ now \in Time /\ calls \in 0 .. MaxCalls
    /\ entry \in [Counters -> Entry \cup {Null}]
    /\ \A k \in Counters : entry[k] # Null => entry[k].start <= now
    /\ call \in [Workers -> Call] /\ \A w \in Workers : Holds(call[w], now)
    /\ raced \subseteq Counters /\ lost \in [Counters -> Nat] /\ begun \in [Counters -> SUBSET Time]
    /\ passed \in [Counters -> [Time -> Nat]]

\* The calls that counter k may still let through.
Uncounted(k) == {w \in Workers : call[w].pc \in {"counting", "counted"} /\ (call[w].key = k \/ k = Address)}

\* No counter lets through more than there are calls.
Budgeted == \A k \in Counters, t \in Time : passed[k][t] + Cardinality(Uncounted(k)) <= calls

\* What a worker read, like what is stored, was let through.
Reading(c) == c.read # Null => c.read.n <= PassedFrom(c.key, c.read.start)
ReadsCount == \A w \in Workers : call[w].pc = "counted" => Reading(call[w])

\* What the losses of counter k may have let through, beside what it holds.
Excess(k) == LimitOf(k) * lost[k]
Held(k) == IF entry[k] = Null THEN 0 ELSE entry[k].n

\* All that counter k let through by time t was in a window that had begun.
Windowed(k, t) ==
    /\ begun[k] \subseteq 0 .. t
    /\ \A u \in Time : passed[k][u] > 0 => u <= t /\ \E i \in begun[k] : i <= u /\ u < i + Window

\* The windows of counter k that are not over at time t let through no more than
\* n calls and the excess.
Within(k, t, n) == \A i \in begun[k] : i + Window <= t \/ PassedFrom(k, i) <= Excess(k) + n

\* The window of entry e is the last that counter k began.
Latest(k, e) == e.start \in begun[k] /\ \A i \in begun[k] : i <= e.start

\* What was read of a counter that nobody overwrites counts the windows not over
\* then, but for the excess: all is as it was, or the entry was dropped since.
Judged(c) ==
    /\ Windowed(c.key, c.at)
    /\ Within(c.key, c.at, IF Over(c.read, c.at) THEN 0 ELSE c.read.n)
    /\ ~Over(c.read, c.at) => Latest(c.key, c.read) /\ c.read.n < LimitOf(c.key)

Stored(k) ==
    /\ Windowed(k, now) /\ Within(k, now, Held(k))
    /\ \A i \in begun[k] : PassedFrom(k, i) <= Excess(k) + LimitOf(k)
    /\ entry[k] # Null => Latest(k, entry[k]) /\ entry[k].n <= LimitOf(k)

\* A counter that nobody overwrote is right but for the excess, and so is whatever
\* was read of it.
Exact(k) ==
    /\ Stored(k)
    /\ \A w \in Workers : call[w].pc = "counted" /\ call[w].key = k => Judged(call[w])

TrafficInv ==
    /\ TrafficTyped /\ Budgeted /\ NeverOvercounts /\ ReadsCount
    /\ \A k \in Counters \ raced : Exact(k)

USE TrafficAssumption
-----------------------------------------------------------------------------
(* Windows *)

LEMMA TimesAreNumbers == Time \subseteq Nat /\ 0 \in Time /\ MaxCalls \in Nat /\ Window \in Nat \ {0}
  BY DEF Time

\* The calls of f in the window that begins at i, one by one.
Cells(f, i) == {p \in (i .. i + Window - 1) \X (1 .. MaxCalls) : p[1] \in Time /\ p[2] <= f[p[1]]}

LEMMA PassedIsCells == \A k, i : PassedFrom(k, i) = Cardinality(Cells(passed[k], i))
  BY DEF PassedFrom, Cells

LEMMA CellsAreFinite ==
    ASSUME NEW f, NEW i \in Nat
    PROVE  IsFiniteSet(Cells(f, i)) /\ Cardinality(Cells(f, i)) \in Nat
  <1>1. IsFiniteSet(i .. i + Window - 1) /\ IsFiniteSet(1 .. MaxCalls)
    BY FS_Interval, TimesAreNumbers
  <1>2. IsFiniteSet((i .. i + Window - 1) \X (1 .. MaxCalls))
    BY <1>1, FS_Product
  <1>3. Cells(f, i) \subseteq (i .. i + Window - 1) \X (1 .. MaxCalls)
    BY DEF Cells
  <1> QED BY <1>2, <1>3, FS_Subset, FS_CardinalityType

\* A call let through at time t is one more in the windows around t, and changes no other.
LEMMA OneMoreCell ==
    ASSUME NEW f \in [Time -> Nat], NEW t \in Time, NEW i \in Nat, f[t] < MaxCalls
    PROVE  LET g == [f EXCEPT ![t] = f[t] + 1] IN
           /\ Cardinality(Cells(f, i)) <= Cardinality(Cells(g, i))
           /\ Cardinality(Cells(g, i)) <= Cardinality(Cells(f, i)) + 1
           /\ i <= t /\ t < i + Window => Cardinality(Cells(g, i)) = Cardinality(Cells(f, i)) + 1
           /\ ~(i <= t /\ t < i + Window) => Cardinality(Cells(g, i)) = Cardinality(Cells(f, i))
  <1> DEFINE g == [f EXCEPT ![t] = f[t] + 1]
             p == <<t, f[t] + 1>>
  <1>0. Time \subseteq Nat /\ MaxCalls \in Nat /\ Window \in Nat
    BY TimesAreNumbers
  <1>1. \A s \in Time : g[s] = IF s = t THEN f[t] + 1 ELSE f[s]
    OBVIOUS
  <1>2. p \notin Cells(f, i)
    BY <1>0 DEF Cells
  <1>3. CASE i <= t /\ t < i + Window
    <2>1. Cells(g, i) = Cells(f, i) \cup {p}
      <3>1. ASSUME NEW s \in i .. i + Window - 1, NEW n \in 1 .. MaxCalls
            PROVE  <<s, n>> \in Cells(g, i) <=> <<s, n>> \in Cells(f, i) \cup {p}
        <4>1. CASE s = t
          BY <1>0, <1>1, <4>1 DEF Cells
        <4>2. CASE s # t
          BY <1>1, <4>2 DEF Cells
        <4> QED BY <4>1, <4>2
      <3>2. p \in (i .. i + Window - 1) \X (1 .. MaxCalls)
        BY <1>0, <1>3
      <3> QED BY <3>1, <3>2 DEF Cells
    <2>2. IsFiniteSet(Cells(f, i)) /\ Cardinality(Cells(f, i)) \in Nat
      BY CellsAreFinite
    <2> HIDE DEF g, p
    <2>3. Cardinality(Cells(f, i) \cup {p}) = Cardinality(Cells(f, i)) + 1
      BY <1>2, <2>2, FS_AddElement
    <2>4. /\ Cardinality(Cells(f, i)) <= Cardinality(Cells(g, i))
          /\ Cardinality(Cells(g, i)) <= Cardinality(Cells(f, i)) + 1
          /\ Cardinality(Cells(g, i)) = Cardinality(Cells(f, i)) + 1
      BY <2>1, <2>2, <2>3
    <2> QED BY <1>3, <2>4 DEF g
  <1>4. CASE ~(i <= t /\ t < i + Window)
    <2>1. Cells(g, i) = Cells(f, i)
      <3>1. t \notin i .. i + Window - 1
        BY <1>0, <1>4
      <3> QED BY <1>1, <3>1 DEF Cells
    <2> QED BY <1>4, <2>1, CellsAreFinite
  <1> QED BY <1>3, <1>4

\* A window that begins after the last call counts none.
LEMMA NoCells ==
    ASSUME NEW f \in [Time -> Nat], NEW i \in Nat, \A t \in Time : f[t] > 0 => t < i
    PROVE  Cardinality(Cells(f, i)) = 0
  <1>1. Cells(f, i) = {}
    BY TimesAreNumbers DEF Cells
  <1> QED BY <1>1, FS_EmptySet
\* The calls of one instant are among those of any window around it.
LEMMA NarrowCells ==
    ASSUME NEW f \in [Time -> Nat], NEW i \in Nat, NEW j \in Nat, j <= i, i < j + Window,
           \A t \in Time : f[t] > 0 => t <= i
    PROVE  Cardinality(Cells(f, i)) <= Cardinality(Cells(f, j))
  <1>1. Cells(f, i) \subseteq Cells(f, j)
    <2> SUFFICES ASSUME NEW t \in i .. i + Window - 1, NEW n \in 1 .. MaxCalls, t \in Time, n <= f[t]
                 PROVE  t \in j .. j + Window - 1
      BY DEF Cells
    <2>1. t \in Nat /\ f[t] > 0
      BY TimesAreNumbers
    <2>2. t <= i
      BY <2>1
    <2> QED BY <2>1, <2>2, TimesAreNumbers
  <1>2. IsFiniteSet(Cells(f, j))
    BY CellsAreFinite
  <1> QED BY <1>1, <1>2, FS_Subset

LEMMA ExcessIs ==
    ASSUME NEW l \in Nat, NEW k
    PROVE  /\ LimitOf(k) \in Nat \ {0} /\ LimitOf(k) * l \in Nat
           /\ LimitOf(k) * (l + 1) = LimitOf(k) * l + LimitOf(k)
           /\ LimitOf(k) * (1 + l) = LimitOf(k) * l + LimitOf(k)
  <1>1. LimitOf(k) \in Nat \ {0}
    BY DEF LimitOf
  <1> QED BY <1>1

\* A counter nobody writes, reads or drops.
LEMMA CountersRest ==
    ASSUME NEW k, passed'[k] = passed[k], lost'[k] = lost[k], begun'[k] = begun[k]
    PROVE  /\ \A i : PassedFrom(k, i)' = PassedFrom(k, i)
           /\ \A t : Windowed(k, t)' <=> Windowed(k, t)
           /\ \A t, n : Within(k, t, n)' <=> Within(k, t, n)
           /\ \A d : Latest(k, d)' <=> Latest(k, d)
           /\ Excess(k)' = Excess(k)
           /\ \A c : c.key = k => (Reading(c)' <=> Reading(c)) /\ (Judged(c)' <=> Judged(c))
  <1>1. \A i : PassedFrom(k, i)' = PassedFrom(k, i)
    BY DEF PassedFrom
  <1>2. Excess(k)' = Excess(k)
    BY DEF Excess
  <1>3. \A t : Windowed(k, t)' <=> Windowed(k, t)
    BY DEF Windowed
  <1>4. \A t, n : Within(k, t, n)' <=> Within(k, t, n)
    BY <1>1, <1>2 DEF Within
  <1>5. \A d : Latest(k, d)' <=> Latest(k, d)
    BY DEF Latest
  <1>6. ASSUME NEW c, c.key = k
        PROVE  (Reading(c)' <=> Reading(c)) /\ (Judged(c)' <=> Judged(c))
    BY <1>1, <1>3, <1>4, <1>5, <1>6 DEF Reading, Judged
  <1> QED BY <1>1, <1>2, <1>3, <1>4, <1>5, <1>6
-----------------------------------------------------------------------------
(* Steps of the traffic *)

LEMMA UncountedIsFinite ==
    \A k : IsFiniteSet(Uncounted(k)) /\ Cardinality(Uncounted(k)) \in Nat
  BY FS_Subset, FS_CardinalityType DEF Uncounted

LEMMA NoCallIs == /\ NoCall \in Call /\ NoCall.pc = "idle" /\ NoCall.who = Null /\ NoCall.key = Null
                  /\ NoCall.at = 0 /\ NoCall.read = Null
  BY TimesAreNumbers DEF NoCall, Call

\* One worker goes on: the calls a counter may let through.
LEMMA UncountedMoves ==
    ASSUME NEW w \in Workers, NEW c, call \in [Workers -> Call], call' = [call EXCEPT ![w] = c], NEW k
    PROVE  /\ Cardinality(Uncounted(k))' \in Nat
           /\ Cardinality(Uncounted(k))' <= Cardinality(Uncounted(k)) + 1
           /\ w \in Uncounted(k) => Cardinality(Uncounted(k))' <= Cardinality(Uncounted(k))
           /\ ~(c.pc \in {"counting", "counted"} /\ (c.key = k \/ k = Address)) =>
                Cardinality(Uncounted(k))' = Cardinality(Uncounted(k)) - IF w \in Uncounted(k) THEN 1 ELSE 0
  <1> DEFINE U == Uncounted(k)
             in == c.pc \in {"counting", "counted"} /\ (c.key = k \/ k = Address)
  <1>1. U' = IF in THEN U \cup {w} ELSE U \ {w}
    BY DEF Uncounted
  <1>2. IsFiniteSet(U) /\ Cardinality(U) \in Nat
    BY UncountedIsFinite
  <1> HIDE DEF U
  <1>3. Cardinality(U \cup {w}) = IF w \in U THEN Cardinality(U) ELSE Cardinality(U) + 1
    BY <1>2, FS_AddElement
  <1>4. Cardinality(U \ {w}) = IF w \in U THEN Cardinality(U) - 1 ELSE Cardinality(U)
    BY <1>2, FS_RemoveElement
  <1>5. w \in U => Cardinality(U) > 0
    BY <1>2, FS_EmptySet
  <1> QED BY <1>1, <1>2, <1>3, <1>4, <1>5 DEF U

\* A worker goes on with its call, and nothing is stored: no counter is touched,
\* and what the worker holds of one is what is stored there.
LEMMA CallMoves ==
    ASSUME TrafficInv, NEW w \in Workers, NEW c \in Call, Holds(c, now),
           call' = [call EXCEPT ![w] = c], UNCHANGED <<now, entry, raced, lost, begun, passed>>,
           calls' \in 0 .. MaxCalls, calls <= calls',
           c.pc \in {"counting", "counted"} =>
               \/ calls' = calls + 1
               \/ call[w].pc = "counting" /\ c.key = call[w].key,
           c.pc = "counted" => Reading(c) /\ (c.key \notin raced => Judged(c))
    PROVE  TrafficInv'
  <1>1. \A v \in Workers : call'[v] = IF v = w THEN c ELSE call[v]
    BY DEF TrafficInv, TrafficTyped
  <1>2. TrafficTyped'
    BY <1>1 DEF TrafficInv, TrafficTyped
  <1>3. Budgeted'
    <2> SUFFICES ASSUME NEW k \in Counters, NEW t \in Time
                 PROVE  passed[k][t] + Cardinality(Uncounted(k))' <= calls'
      BY DEF Budgeted
    <2> DEFINE U == Uncounted(k)
    <2>1. /\ Cardinality(U)' \in Nat
          /\ Cardinality(U)' <= Cardinality(U) + 1
          /\ w \in U => Cardinality(U)' <= Cardinality(U)
          /\ ~(c.pc \in {"counting", "counted"} /\ (c.key = k \/ k = Address)) =>
               Cardinality(U)' = Cardinality(U) - IF w \in U THEN 1 ELSE 0
      BY UncountedMoves DEF TrafficInv, TrafficTyped
    <2>2. passed[k][t] + Cardinality(U) <= calls /\ passed[k][t] \in Nat /\ calls \in Nat /\ calls' \in Nat
          /\ Cardinality(U) \in Nat
      BY UncountedIsFinite, TimesAreNumbers DEF TrafficInv, TrafficTyped, Budgeted
    <2>3. CASE calls' = calls + 1
      BY <2>1, <2>2, <2>3
    <2>4. CASE call[w].pc = "counting" /\ c.key = call[w].key /\ (c.key = k \/ k = Address)
      <3>1. w \in U
        BY <2>4 DEF Uncounted
      <3> QED BY <2>1, <2>2, <3>1
    <2>5. CASE ~(c.pc \in {"counting", "counted"} /\ (c.key = k \/ k = Address))
      BY <2>1, <2>2, <2>5
    <2> QED BY <2>3, <2>4, <2>5
  <1>4. \A k, i : PassedFrom(k, i)' = PassedFrom(k, i)
    BY DEF PassedFrom
  <1>5. NeverOvercounts'
    BY <1>4 DEF TrafficInv, NeverOvercounts
  <1>6. \A d : (Reading(d)' <=> Reading(d)) /\ (Judged(d)' <=> Judged(d))
    BY CountersRest
  <1>7. ReadsCount'
    BY <1>1, <1>6 DEF TrafficInv, TrafficTyped, ReadsCount
  <1>8. \A k \in Counters \ raced : Exact(k)'
    <2> SUFFICES ASSUME NEW k \in Counters \ raced PROVE Exact(k)'
      OBVIOUS
    <2>1. Exact(k)
      BY DEF TrafficInv
    <2>2. Stored(k)'
      BY <2>1 DEF Exact, Stored, Windowed, Within, Latest, Held, Excess, PassedFrom
    <2>3. ASSUME NEW v \in Workers, call'[v].pc = "counted", call'[v].key = k
          PROVE  Judged(call[v])'
      <3>1. CASE v = w
        <4>1. Judged(c)' /\ call'[v] = c
          BY <1>1, <1>6, <2>3, <3>1
        <4> QED BY <4>1 DEF Judged, Windowed, Within, Latest, Excess, PassedFrom
      <3>2. CASE v # w
        <4>1. Judged(call[v]) /\ call'[v] = call[v]
          BY <1>1, <2>1, <2>3, <3>2 DEF Exact
        <4> QED BY <4>1 DEF Judged, Windowed, Within, Latest, Excess, PassedFrom
      <3> QED BY <3>1, <3>2
    <2> QED BY <2>2, <2>3 DEF Exact
  <1> QED BY <1>2, <1>3, <1>5, <1>7, <1>8 DEF TrafficInv

\* A counter lets a call through: what its windows, and those of the others, count.
LEMMA CallPasses ==
    ASSUME NEW w \in Workers, call[w].pc = "counted", NEW k \in Counters, call[w].key = k,
           NEW i \in Time, TrafficInv, passed' = Grown(passed, k, i), NEW j \in Nat
    PROVE  /\ passed[k][i] < MaxCalls
           /\ PassedFrom(k, j) \in Nat /\ PassedFrom(k, j)' \in Nat
           /\ PassedFrom(k, j) <= PassedFrom(k, j)' /\ PassedFrom(k, j)' <= PassedFrom(k, j) + 1
           /\ j <= i /\ i < j + Window => PassedFrom(k, j)' = PassedFrom(k, j) + 1
           /\ ~(j <= i /\ i < j + Window) => PassedFrom(k, j)' = PassedFrom(k, j)
           /\ \A h \in Counters \ {k} : passed'[h] = passed[h] /\ PassedFrom(h, j)' = PassedFrom(h, j)
  <1> DEFINE f == passed[k]
             g == [f EXCEPT ![i] = f[i] + 1]
  <1>1. passed \in [Counters -> [Time -> Nat]] /\ f \in [Time -> Nat]
    BY DEF TrafficInv, TrafficTyped
  <1>2. passed' = [passed EXCEPT ![k] = g]
    BY DEF Grown
  <1>3. g \in [Time -> Nat]
    BY <1>1
  <1>4. f[i] < MaxCalls
    <2>1. w \in Uncounted(k)
      BY DEF Uncounted
    <2>2. Cardinality(Uncounted(k)) > 0
      BY <2>1, UncountedIsFinite, FS_EmptySet
    <2>3. f[i] + Cardinality(Uncounted(k)) <= calls /\ calls <= MaxCalls
      BY DEF TrafficInv, TrafficTyped, Budgeted
    <2> HIDE DEF f
    <2>4. f[i] \in Nat /\ Cardinality(Uncounted(k)) \in Nat /\ calls \in Nat
      BY <1>1, UncountedIsFinite, TimesAreNumbers DEF TrafficInv, TrafficTyped
    <2> QED BY <2>2, <2>3, <2>4, TimesAreNumbers
  <1>5. PassedFrom(k, j) = Cardinality(Cells(f, j)) /\ PassedFrom(k, j)' = Cardinality(Cells(g, j))
    <2>1. passed'[k] = g
      BY <1>1, <1>2
    <2>2. PassedFrom(k, j)' = Cardinality(Cells(passed'[k], j))
      BY DEF PassedFrom, Cells
    <2> QED BY <2>1, <2>2, PassedIsCells
  <1>6. \A h \in Counters \ {k} : passed'[h] = passed[h] /\ PassedFrom(h, j)' = PassedFrom(h, j)
    BY <1>1, <1>2 DEF PassedFrom
  <1> HIDE DEF f
  <1>7. /\ Cardinality(Cells(f, j)) <= Cardinality(Cells(g, j))
        /\ Cardinality(Cells(g, j)) <= Cardinality(Cells(f, j)) + 1
        /\ j <= i /\ i < j + Window => Cardinality(Cells(g, j)) = Cardinality(Cells(f, j)) + 1
        /\ ~(j <= i /\ i < j + Window) => Cardinality(Cells(g, j)) = Cardinality(Cells(f, j))
    BY <1>1, <1>4, OneMoreCell
  <1>8. Cardinality(Cells(f, j)) \in Nat /\ Cardinality(Cells(g, j)) \in Nat
    BY CellsAreFinite
  <1> QED BY <1>4, <1>5, <1>6, <1>7, <1>8 DEF f

\* The windows of counter k and its calls, once it was written with e, as read at
\* time i: x is its excess and l its limit.
WindowsThen(k, i, e, x, l) ==
    /\ e.start \in begun'[k]
    /\ \A j \in begun'[k] :
         /\ j \in Nat /\ j <= i /\ j <= e.start
         /\ (j + Window <= i \/ PassedFrom(k, j)' <= x + e.n) /\ PassedFrom(k, j)' <= x + l
    /\ \A u \in Time : passed'[k][u] > 0 => u <= i /\ \E j \in begun'[k] : j <= u /\ u < j + Window

LEMMA StoredAgain ==
    ASSUME NEW k, NEW i \in Nat, NEW e \in Entry, NEW x \in Nat, NEW l \in Nat, now \in Nat, i <= now, now' = now,
           l = LimitOf(k), e.n <= l, Excess(k)' = x, entry'[k] = e, e # Null, WindowsThen(k, i, e, x, l)
    PROVE  Stored(k)'
  <1> USE DEF WindowsThen
  <1>1. Windowed(k, now)'
    <2>1. begun'[k] \subseteq 0 .. now
      OBVIOUS
    <2>2. \A u \in Time : u <= i => u <= now
      BY TimesAreNumbers
    <2> QED BY <2>1, <2>2 DEF Windowed
  <1>2. Held(k)' = e.n
    BY DEF Held
  <1>3. Within(k, now, Held(k))'
    <2> SUFFICES ASSUME NEW j \in begun'[k] PROVE j + Window <= now \/ PassedFrom(k, j)' <= x + e.n
      BY <1>2 DEF Within, Excess, PassedFrom
    <2>1. j \in Nat /\ (j + Window <= i \/ PassedFrom(k, j)' <= x + e.n)
      OBVIOUS
    <2> QED BY <2>1, TimesAreNumbers
  <1>4. \A j \in begun'[k] : PassedFrom(k, j)' <= Excess(k)' + LimitOf(k)
    OBVIOUS
  <1>5. Latest(k, e)'
    BY DEF Latest
  <1> QED BY <1>1, <1>3, <1>4, <1>5 DEF Stored, PassedFrom, Excess, Latest

\* A counter that is left alone at a time that stands still.
LEMMA ExactRests ==
    ASSUME NEW h, Exact(h), now' = now, entry'[h] = entry[h],
           passed'[h] = passed[h], lost'[h] = lost[h], begun'[h] = begun[h],
           \A v \in Workers : call'[v].pc = "counted" /\ call'[v].key = h => call'[v] = call[v]
    PROVE  Exact(h)'
  <1>1. Stored(h)'
    <2>1. Stored(h)
      BY DEF Exact
    <2> QED BY <2>1 DEF Stored, Windowed, Within, Latest, Held, Excess, PassedFrom
  <1>2. ASSUME NEW v \in Workers, call'[v].pc = "counted", call'[v].key = h
        PROVE  Judged(call[v])'
    <2>1. Judged(call[v]) /\ call'[v] = call[v] /\ call[v].key = h
      BY <1>2 DEF Exact
    <2> QED BY <2>1 DEF Judged, Windowed, Within, Latest, Excess, PassedFrom
  <1> QED BY <1>1, <1>2 DEF Exact

\* A call let through by counter k, as read at time i, is one more in the windows around i.
PassedAgain(k, i, j) ==
    /\ PassedFrom(k, j) \in Nat /\ PassedFrom(k, j)' \in Nat
    /\ PassedFrom(k, j)' = IF j <= i /\ i < j + Window THEN PassedFrom(k, j) + 1 ELSE PassedFrom(k, j)

\* A counter that is written by the only one who had read it stays right.
LEMMA PassKeeps ==
    ASSUME TrafficTyped, NEW k \in Counters, NEW i \in Time, i <= now,
           NEW r \in Entry \cup {Null}, NEW e \in Entry, Stored(k),
           Windowed(k, i), Within(k, i, IF Over(r, i) THEN 0 ELSE r.n),
           ~Over(r, i) => Latest(k, r) /\ r.n < LimitOf(k),
           Over(r, i) => e.n = 1 /\ e.start = i,
           ~Over(r, i) => r \in Entry /\ e.n = r.n + 1 /\ e.start = r.start /\ i < r.start + Window,
           entry'[k] = e, lost' = lost, now' = now,
           begun'[k] = IF Over(r, i) THEN begun[k] \cup {i} ELSE begun[k],
           \A j \in Nat : PassedAgain(k, i, j),
           \A t \in Time : passed'[k][t] = IF t = i THEN passed[k][t] + 1 ELSE passed[k][t]
    PROVE  Stored(k)'
  <1> SUFFICES ASSUME NEW x, x = Excess(k), NEW l, l = LimitOf(k), NEW m, m = IF Over(r, i) THEN 0 ELSE r.n
               PROVE  Stored(k)'
    OBVIOUS
  <1>1. /\ x \in Nat /\ l \in Nat \ {0} /\ m \in Nat /\ e.n = m + 1 /\ m < l /\ Excess(k)' = x
        /\ i \in Nat /\ now \in Nat /\ Window \in Nat \ {0} /\ begun[k] \subseteq Time /\ Time \subseteq Nat
        /\ passed[k] \in [Time -> Nat]
    <2>1. x \in Nat /\ l \in Nat \ {0}
      BY ExcessIs DEF Excess, TrafficTyped
    <2>2. Excess(k)' = x
      BY DEF Excess
    <2>3. m \in Nat /\ e.n = m + 1 /\ m < l
      <3>1. CASE Over(r, i)
        BY <2>1, <3>1
      <3>2. CASE ~Over(r, i)
        BY <2>1, <3>2 DEF Entry
      <3> QED BY <3>1, <3>2
    <2> QED BY <2>1, <2>2, <2>3, TimesAreNumbers DEF TrafficTyped
  <1>2. \A j \in begun[k] : j \in Nat /\ j <= i /\ (j + Window <= i \/ PassedFrom(k, j) <= x + m) /\ PassedFrom(k, j) <= x + l
    BY <1>1 DEF Windowed, Within, Stored
  <1>3. ASSUME NEW j \in begun[k]
        PROVE  (j + Window <= i \/ PassedFrom(k, j)' <= x + e.n) /\ PassedFrom(k, j)' <= x + l
    <2>1. /\ j \in Nat /\ (j + Window <= i \/ PassedFrom(k, j) <= x + m) /\ PassedFrom(k, j) <= x + l
          /\ PassedAgain(k, i, j)
      BY <1>2, <1>3
    <2>2. CASE j + Window <= i
      BY <1>1, <2>1, <2>2 DEF PassedAgain
    <2>3. CASE ~(j + Window <= i)
      BY <1>1, <2>1, <2>3 DEF PassedAgain
    <2> QED BY <2>2, <2>3
  <1>4. e.n \in Nat /\ e.n <= l /\ l \in Nat /\ e # Null
    BY <1>1 DEF Entry
  <1>5. CASE Over(r, i)
    <2>1. PassedFrom(k, i) <= x
      <3>1. CASE \A t \in Time : passed[k][t] > 0 => t < i
        <4>1. PassedFrom(k, i) = 0
          BY <1>1, <3>1, NoCells, PassedIsCells
        <4> QED BY <1>1, <4>1
      <3>2. CASE ~\A t \in Time : passed[k][t] > 0 => t < i
        <4>1. PICK t \in Time : passed[k][t] > 0 /\ ~(t < i)
          BY <3>2
        <4>2. t <= i /\ t \in Nat /\ \E j \in begun[k] : j <= t /\ t < j + Window
          BY <1>1, <4>1 DEF Windowed
        <4>3. PICK j \in begun[k] : j <= t /\ t < j + Window
          BY <4>2
        <4>4. t = i /\ j \in Nat
          <5>1. t = i
            BY <1>1, <4>1, <4>2
          <5> QED BY <1>1, <5>1
        <4>5. PassedFrom(k, i) <= PassedFrom(k, j)
          <5>1. \A u \in Time : passed[k][u] > 0 => u <= i
            BY DEF Windowed
          <5> QED BY <1>1, <4>3, <4>4, <5>1, NarrowCells, PassedIsCells
        <4>6. PassedFrom(k, j) <= x + m /\ m = 0
          BY <1>1, <1>2, <1>5, <4>3, <4>4
        <4>7. PassedFrom(k, i) \in Nat /\ PassedFrom(k, j) \in Nat
          BY <1>1, <4>4 DEF PassedAgain
        <4> QED BY <1>1, <4>5, <4>6, <4>7
      <3> QED BY <3>1, <3>2
    <2>2. PassedFrom(k, i)' <= x + 1 /\ PassedFrom(k, i)' \in Nat
      <3>1. PassedAgain(k, i, i)
        BY <1>1
      <3> QED BY <1>1, <2>1, <3>1 DEF PassedAgain
    <2>3. ASSUME NEW j \in begun'[k]
          PROVE  /\ j \in Nat /\ j <= i
                 /\ (j + Window <= i \/ PassedFrom(k, j)' <= x + e.n) /\ PassedFrom(k, j)' <= x + l
      <3>1. CASE j = i
        BY <1>1, <1>5, <2>2, <3>1 DEF PassedFrom
      <3>2. CASE j \in begun[k]
        BY <1>2, <1>3, <3>2
      <3> QED BY <1>5, <2>3, <3>1, <3>2
    <2>4. e.start = i /\ i \in begun'[k]
      BY <1>5
    <2>5. ASSUME NEW u \in Time, passed'[k][u] > 0
          PROVE  u <= i /\ \E j \in begun'[k] : j <= u /\ u < j + Window
      <3>1. CASE u = i
        BY <1>1, <2>4, <3>1
      <3>2. CASE u # i
        <4>1. passed[k][u] > 0
          BY <2>5, <3>2
        <4>2. u <= i /\ \E j \in begun[k] : j <= u /\ u < j + Window
          BY <4>1 DEF Windowed
        <4> QED BY <1>5, <4>2
      <3> QED BY <3>1, <3>2
    <2>6. WindowsThen(k, i, e, x, l)
      BY <2>3, <2>4, <2>5 DEF WindowsThen
    <2> QED BY <1>1, <1>4, <2>6, StoredAgain
  <1>6. CASE ~Over(r, i)
    <2>1. begun'[k] = begun[k] /\ e.start \in begun[k] /\ \A j \in begun[k] : j <= e.start
      BY <1>6 DEF Latest
    <2>2. ASSUME NEW u \in Time, passed'[k][u] > 0
          PROVE  u <= i /\ \E j \in begun'[k] : j <= u /\ u < j + Window
      <3>1. CASE u = i
        BY <1>1, <1>2, <1>6, <2>1, <3>1
      <3>2. CASE u # i
        <4>1. passed[k][u] > 0
          BY <2>2, <3>2
        <4> QED BY <2>1, <4>1 DEF Windowed
      <3> QED BY <3>1, <3>2
    <2>3. WindowsThen(k, i, e, x, l)
      BY <1>2, <1>3, <2>1, <2>2 DEF WindowsThen, PassedFrom
    <2> QED BY <1>1, <1>4, <2>3, StoredAgain
  <1> QED BY <1>5, <1>6

LEMMA CounterSetKeeps ==
    ASSUME TrafficInv, NEW w \in Workers, CounterSet(w)
    PROVE  TrafficInv'
  <1> SUFFICES ASSUME NEW k, NEW i, NEW r, k = call[w].key, i = call[w].at, r = call[w].read
               PROVE  TrafficInv'
    OBVIOUS
  <1> DEFINE c == IF k = Address THEN [NoCall EXCEPT !.pc = "serving", !.who = call[w].who]
                  ELSE [NoCall EXCEPT !.pc = "counting", !.who = call[w].who, !.key = Address]
             e == Counted(r, i)
  <1>1. /\ call[w].pc = "counted" /\ entry' = [entry EXCEPT ![k] = e]
        /\ passed' = Grown(passed, k, i) /\ call' = [call EXCEPT ![w] = c]
        /\ raced' = IF \E v \in Workers \ {w} : call[v].pc = "counted" /\ call[v].key = k
                    THEN raced \cup {k} ELSE raced
        /\ begun' = IF Over(r, i) THEN [begun EXCEPT ![k] = begun[k] \cup {i}] ELSE begun
        /\ UNCHANGED <<now, lost, calls>>
    BY DEF CounterSet, Becomes
  <1>2. /\ TrafficTyped /\ k \in Counters /\ i \in Time /\ i <= now /\ r \in Entry \cup {Null}
        /\ call[w].who \in Counters /\ now \in Nat /\ i \in Nat /\ (r # Null => r.start <= i)
    BY <1>1, TimesAreNumbers DEF TrafficInv, TrafficTyped, Holds, Call
  <1>3. /\ c \in Call /\ Holds(c, now) /\ c.pc # "counted"
        /\ ~(c.pc \in {"counting", "counted"} /\ c.key # Address)
        /\ c.pc \in {"counting", "counted"} => k # Address
    BY <1>2, NoCallIs DEF Call, Holds, Counters, NoCall
  <1>4. /\ e \in Entry /\ e.start <= i /\ e # Null
        /\ Over(r, i) => e.n = 1 /\ e.start = i
        /\ ~Over(r, i) => r \in Entry /\ e.n = r.n + 1 /\ e.start = r.start /\ i < r.start + Window
    BY <1>2, TimesAreNumbers DEF Counted, Over, Entry
  <1> HIDE DEF c, e
  <1>5. \A v \in Workers : call'[v] = IF v = w THEN c ELSE call[v]
    BY <1>1, <1>2 DEF TrafficTyped
  <1>6. \A h \in Counters : entry'[h] = IF h = k THEN e ELSE entry[h]
    BY <1>1, <1>2 DEF TrafficTyped
  <1>7. \A j \in Nat :
          /\ passed[k][i] < MaxCalls
          /\ PassedFrom(k, j) \in Nat /\ PassedFrom(k, j)' \in Nat
          /\ PassedFrom(k, j) <= PassedFrom(k, j)' /\ PassedFrom(k, j)' <= PassedFrom(k, j) + 1
          /\ j <= i /\ i < j + Window => PassedFrom(k, j)' = PassedFrom(k, j) + 1
          /\ ~(j <= i /\ i < j + Window) => PassedFrom(k, j)' = PassedFrom(k, j)
          /\ \A h \in Counters \ {k} : passed'[h] = passed[h] /\ PassedFrom(h, j)' = PassedFrom(h, j)
    BY <1>1, <1>2, CallPasses
  <1>8. \A h \in Counters, t \in Time :
          /\ passed[h][t] \in Nat
          /\ passed'[h][t] = IF h = k /\ t = i THEN passed[h][t] + 1 ELSE passed[h][t]
    BY <1>1, <1>2 DEF TrafficTyped, Grown
  <1>9. TrafficTyped'
    <2>1. passed' \in [Counters -> [Time -> Nat]]
      BY <1>1, <1>2 DEF TrafficTyped, Grown
    <2>2. /\ now' \in Time /\ calls' \in 0 .. MaxCalls
          /\ entry' \in [Counters -> Entry \cup {Null}] /\ raced' \subseteq Counters
          /\ lost' \in [Counters -> Nat] /\ begun' \in [Counters -> SUBSET Time]
      BY <1>1, <1>2, <1>4 DEF TrafficTyped
    <2>3. \A h \in Counters : entry'[h] # Null => entry'[h].start <= now'
      <3> SUFFICES ASSUME NEW h \in Counters, entry'[h] # Null PROVE entry'[h].start <= now
        BY <1>1
      <3>1. CASE h = k
        BY <1>2, <1>4, <1>6, <3>1 DEF Entry
      <3>2. CASE h # k
        BY <1>2, <1>6, <3>2 DEF TrafficTyped
      <3> QED BY <3>1, <3>2
    <2>4. call' \in [Workers -> Call] /\ \A v \in Workers : Holds(call'[v], now)
      BY <1>1, <1>2, <1>3, <1>5 DEF TrafficTyped
    <2> QED BY <1>1, <2>1, <2>2, <2>3, <2>4 DEF TrafficTyped
  <1>10. Budgeted'
    <2> SUFFICES ASSUME NEW h \in Counters, NEW t \in Time
                 PROVE  passed'[h][t] + Cardinality(Uncounted(h))' <= calls
      BY <1>1 DEF Budgeted
    <2> DEFINE U == Uncounted(h)
    <2>1. /\ Cardinality(U)' \in Nat
          /\ w \in U => Cardinality(U)' <= Cardinality(U)
          /\ ~(c.pc \in {"counting", "counted"} /\ (c.key = h \/ h = Address)) =>
               Cardinality(U)' = Cardinality(U) - IF w \in U THEN 1 ELSE 0
      BY <1>1, <1>2, UncountedMoves DEF TrafficTyped
    <2>2. w \in U <=> h = k \/ h = Address
      BY <1>1 DEF Uncounted
    <2>3. /\ passed[h][t] + Cardinality(U) <= calls /\ calls \in Nat
          /\ Cardinality(U) \in Nat
      BY <1>2, UncountedIsFinite, TimesAreNumbers DEF TrafficInv, TrafficTyped, Budgeted
    <2>4. CASE h = k
      BY <1>3, <1>8, <2>1, <2>2, <2>3, <2>4
    <2>5. CASE h # k /\ h = Address
      BY <1>8, <2>1, <2>2, <2>3, <2>5
    <2>6. CASE h # k /\ h # Address
      BY <1>3, <1>8, <2>1, <2>2, <2>3, <2>6
    <2> QED BY <2>4, <2>5, <2>6
  <1>11. \A h \in Counters, j \in Nat :
           /\ PassedFrom(h, j) <= PassedFrom(h, j)'
           /\ PassedFrom(h, j) \in Nat /\ PassedFrom(h, j)' \in Nat
    <2> SUFFICES ASSUME NEW h \in Counters, NEW j \in Nat, h # k
                 PROVE  PassedFrom(h, j) \in Nat /\ PassedFrom(h, j)' = PassedFrom(h, j)
      BY <1>7
    <2>1. PassedFrom(h, j)' = PassedFrom(h, j)
      BY <1>7
    <2>2. PassedFrom(h, j) \in Nat
      BY PassedIsCells, CellsAreFinite
    <2> QED BY <2>1, <2>2
  <1>12. ~Over(r, i) => r.n <= PassedFrom(k, r.start)
    BY <1>1, <1>2 DEF TrafficInv, ReadsCount, Reading, Over
  <1>13. e.n <= PassedFrom(k, e.start)'
    <2>1. CASE Over(r, i)
      BY <1>2, <1>4, <1>7, TimesAreNumbers, <2>1
    <2>2. CASE ~Over(r, i)
      BY <1>2, <1>4, <1>7, <1>12, <2>2 DEF Entry
    <2> QED BY <2>1, <2>2
  <1>14. NeverOvercounts'
    <2> SUFFICES ASSUME NEW h \in Counters, entry'[h] # Null
                 PROVE  entry'[h].n <= PassedFrom(h, entry[h].start)'
      BY DEF NeverOvercounts
    <2>1. CASE h = k
      BY <1>6, <1>13, <2>1 DEF PassedFrom
    <2>2. CASE h # k
      <3>1. entry'[h] = entry[h] /\ entry[h] \in Entry
        BY <1>2, <1>6, <2>2 DEF TrafficTyped
      <3>2. entry[h].n <= PassedFrom(h, entry[h].start)
        BY <3>1, <1>6 DEF TrafficInv, NeverOvercounts
      <3>3. PassedFrom(h, entry[h].start)' = PassedFrom(h, entry[h].start)
        BY <1>7, <2>2, <3>1 DEF Entry, PassedFrom
      <3> QED BY <3>1, <3>2, <3>3
    <2> QED BY <2>1, <2>2
  <1>15. ReadsCount'
    <2> SUFFICES ASSUME NEW v \in Workers, call'[v].pc = "counted", call'[v].read # Null
                 PROVE  call'[v].read.n <= PassedFrom(call[v].key, call[v].read.start)'
      BY DEF ReadsCount, Reading
    <2>1. call'[v] = call[v]
      BY <1>3, <1>5
    <2>2. call[v].read \in Entry /\ call[v].key \in Counters
      BY <1>2, <2>1 DEF TrafficTyped, Holds, Call
    <2>3. call[v].read.n <= PassedFrom(call[v].key, call[v].read.start)
      BY <2>1 DEF TrafficInv, ReadsCount, Reading
    <2>4. PassedFrom(call[v].key, call[v].read.start) <= PassedFrom(call[v].key, call[v].read.start)'
      BY <1>11, <2>1, <2>2 DEF Entry, PassedFrom
    <2> QED BY <1>11, <2>1, <2>2, <2>3, <2>4 DEF Entry, PassedFrom
  <1>16. \A h \in Counters \ raced' : Exact(h)'
    <2> SUFFICES ASSUME NEW h \in Counters \ raced' PROVE Exact(h)'
      OBVIOUS
    <2>1. h \notin raced /\ Exact(h)
      BY <1>1, <1>2 DEF TrafficInv
    <2>2. CASE h = k
      <3>1. \A v \in Workers : ~(call'[v].pc = "counted" /\ call'[v].key = k)
        BY <1>1, <1>3, <1>5, <2>2
      <3>2. Judged(call[w]) /\ Stored(k)
        BY <1>1, <2>1, <2>2 DEF Exact
      <3>3. /\ Windowed(k, i) /\ Within(k, i, IF Over(r, i) THEN 0 ELSE r.n)
            /\ ~Over(r, i) => Latest(k, r) /\ r.n < LimitOf(k)
        BY <3>2 DEF Judged
      <3>4. /\ entry'[k] = e /\ lost' = lost /\ now' = now
            /\ begun'[k] = IF Over(r, i) THEN begun[k] \cup {i} ELSE begun[k]
        BY <1>1, <1>2, <1>6 DEF TrafficTyped
      <3>5. /\ \A j \in Nat : PassedAgain(k, i, j)
            /\ \A t \in Time : passed'[k][t] = IF t = i THEN passed[k][t] + 1 ELSE passed[k][t]
        BY <1>2, <1>7, <1>8 DEF PassedAgain
      <3>6. Stored(k)'
        BY <1>2, <1>4, <3>2, <3>3, <3>4, <3>5, PassKeeps
      <3> QED BY <2>2, <3>1, <3>6 DEF Exact
    <2>3. CASE h # k
      <3>1. passed'[h] = passed[h] /\ lost'[h] = lost[h] /\ begun'[h] = begun[h]
        BY <1>1, <1>2, <1>7, <2>3, TimesAreNumbers DEF TrafficTyped
      <3>2. ASSUME NEW v \in Workers, call'[v].pc = "counted", call'[v].key = h
            PROVE  call'[v] = call[v]
        BY <1>3, <1>5, <3>2
      <3> QED BY <1>1, <1>6, <2>1, <2>3, <3>1, <3>2, ExactRests
    <2> QED BY <2>2, <2>3
  <1> QED BY <1>9, <1>10, <1>14, <1>15, <1>16 DEF TrafficInv

LEMMA ExpiredKeeps ==
    ASSUME TrafficInv, NEW k \in Counters, EntryExpired(k)
    PROVE  TrafficInv'
  <1>1. /\ entry[k] # Null /\ entry' = [entry EXCEPT ![k] = Null]
        /\ lost' = IF Over(entry[k], now) THEN lost ELSE [lost EXCEPT ![k] = lost[k] + 1]
        /\ UNCHANGED <<now, call, raced, begun, passed, calls>>
    BY DEF EntryExpired
  <1>2. TrafficTyped /\ now \in Nat
    BY TimesAreNumbers DEF TrafficInv, TrafficTyped
  <1>3. \A h \in Counters : entry'[h] = IF h = k THEN Null ELSE entry[h]
    BY <1>1, <1>2 DEF TrafficTyped
  <1>4. TrafficTyped'
    <2>1. lost' \in [Counters -> Nat]
      BY <1>1, <1>2 DEF TrafficTyped
    <2> QED BY <1>1, <1>2, <1>3, <2>1 DEF TrafficTyped
  <1>5. Budgeted'
    BY <1>1 DEF TrafficInv, Budgeted, Uncounted
  <1>6. NeverOvercounts' /\ ReadsCount'
    BY <1>1, <1>3 DEF TrafficInv, NeverOvercounts, ReadsCount, Reading, PassedFrom
  <1>7. \A h \in Counters \ raced' : Exact(h)'
    <2> SUFFICES ASSUME NEW h \in Counters \ raced' PROVE Exact(h)'
      OBVIOUS
    <2>1. Exact(h)
      BY <1>1 DEF TrafficInv
    <2>2. CASE h = k
      <3> SUFFICES ASSUME NEW x, x = Excess(k), NEW y, y = Excess(k)', NEW l, l = LimitOf(k), NEW e, e = entry[k]
                   PROVE  Exact(k)'
        BY <2>2
      <3>1. /\ x \in Nat /\ l \in Nat \ {0} /\ e \in Entry /\ e.n \in Nat /\ e.start \in Nat /\ Stored(k)
            /\ begun[k] \subseteq Time /\ Window \in Nat \ {0} /\ Time \subseteq Nat
        BY <1>1, <1>2, <2>1, <2>2, ExcessIs, TimesAreNumbers DEF Excess, TrafficTyped, Entry, Exact
      <3>2. IF Over(e, now) THEN y = x ELSE y = x + l
        BY <1>1, <1>2, ExcessIs DEF Excess, TrafficTyped
      <3>3. ASSUME NEW j \in begun[k]
            PROVE  /\ j + Window <= now \/ PassedFrom(k, j) <= y
                   /\ PassedFrom(k, j) <= y + l
        <4>1. /\ j \in Nat /\ (j + Window <= now \/ PassedFrom(k, j) <= x + e.n) /\ PassedFrom(k, j) <= x + l
              /\ j <= e.start /\ e.n <= l
          BY <1>1, <3>1, <3>3 DEF Stored, Within, Held, Latest
        <4>2. PassedFrom(k, j) \in Nat
          BY <1>2, <4>1, PassedIsCells, CellsAreFinite
        <4>3. CASE Over(e, now)
          BY <1>1, <1>2, <3>1, <3>2, <4>1, <4>2, <4>3 DEF Over
        <4>4. CASE ~Over(e, now)
          BY <1>2, <3>1, <3>2, <4>1, <4>2, <4>4
        <4> QED BY <4>3, <4>4
      <3>4. entry'[k] = Null /\ Held(k)' = 0
        BY <1>3 DEF Held
      <3>5. Stored(k)'
        <4>1. Windowed(k, now)'
          BY <1>1, <3>1 DEF Stored, Windowed
        <4>2. y + 0 = y
          BY <3>1, <3>2
        <4>3. Within(k, now, Held(k))'
          BY <1>1, <3>3, <3>4, <4>2 DEF Within, Excess, PassedFrom
        <4>4. (\A j \in begun[k] : PassedFrom(k, j) <= Excess(k) + LimitOf(k))'
          BY <1>1, <3>3 DEF PassedFrom, Excess
        <4> QED BY <3>4, <4>1, <4>3, <4>4 DEF Stored
      <3>6. ASSUME NEW v \in Workers, call[v].pc = "counted", call[v].key = k
            PROVE  Judged(call[v])'
        <4> SUFFICES ASSUME NEW c, c = call[v], NEW m, m = IF Over(c.read, c.at) THEN 0 ELSE c.read.n
                     PROVE  Judged(call[v])'
          OBVIOUS
        <4>1. Judged(c) /\ c.key = k /\ c \in Call /\ m \in Nat
          BY <1>2, <2>1, <2>2, <3>6 DEF Exact, TrafficTyped, Call, Over, Entry
        <4>2. Windowed(k, c.at)'
          BY <1>1, <4>1 DEF Judged, Windowed
        <4>3. Within(k, c.at, m)'
          <5> SUFFICES ASSUME NEW j \in begun[k] PROVE j + Window <= c.at \/ PassedFrom(k, j) <= y + m
            BY <1>1 DEF Within, PassedFrom, Excess
          <5>1. j \in Nat /\ (j + Window <= c.at \/ PassedFrom(k, j) <= x + m) /\ PassedFrom(k, j) \in Nat
            BY <1>2, <3>1, <4>1, PassedIsCells, CellsAreFinite DEF Judged, Within
          <5> QED BY <3>1, <3>2, <4>1, <5>1
        <4>4. ~Over(c.read, c.at) => Latest(k, c.read)' /\ c.read.n < LimitOf(k)
          BY <1>1, <4>1 DEF Judged, Latest
        <4> QED BY <1>1, <4>1, <4>2, <4>3, <4>4 DEF Judged, Windowed, Within, Latest, PassedFrom, Excess
      <3> QED BY <1>1, <3>5, <3>6 DEF Exact
    <2>3. CASE h # k
      <3>1. passed'[h] = passed[h] /\ lost'[h] = lost[h] /\ begun'[h] = begun[h]
        BY <1>1, <1>2, <2>3 DEF TrafficTyped
      <3> QED BY <1>1, <1>3, <2>1, <2>3, <3>1, ExactRests
    <2> QED BY <2>2, <2>3
  <1> QED BY <1>4, <1>5, <1>6, <1>7 DEF TrafficInv

LEMMA TickKeeps ==
    ASSUME TrafficInv, Tick
    PROVE  TrafficInv'
  <1>1. now' = now + 1 /\ now' \in Time /\ now' \in Nat /\ now \in Nat /\ UNCHANGED <<entry, call, raced, lost, begun, passed, calls>>
    BY TimesAreNumbers DEF Tick, TrafficInv, TrafficTyped, Time
  <1>2. TrafficTyped'
    <2>1. \A h \in Counters : entry[h] # Null => entry[h].start <= now'
      BY <1>1 DEF TrafficInv, TrafficTyped, Entry
    <2>2. \A v \in Workers : Holds(call[v], now')
      <3> SUFFICES ASSUME NEW v \in Workers PROVE Holds(call[v], now')
        OBVIOUS
      <3>1. call[v] \in Call /\ Holds(call[v], now)
        BY DEF TrafficInv, TrafficTyped
      <3>2. call[v].at \in Nat
        BY <3>1, TimesAreNumbers DEF Call
      <3>3. call[v].at <= now => call[v].at <= now'
        BY <1>1, <3>2
      <3> QED BY <3>1, <3>3 DEF Holds
    <2> QED BY <1>1, <2>1, <2>2 DEF TrafficInv, TrafficTyped
  <1>3. Budgeted'
    BY <1>1 DEF TrafficInv, Budgeted, Uncounted
  <1>4. NeverOvercounts' /\ ReadsCount'
    BY <1>1 DEF TrafficInv, NeverOvercounts, ReadsCount, Reading, PassedFrom
  <1>5. \A h \in Counters \ raced' : Exact(h)'
    <2> SUFFICES ASSUME NEW h \in Counters \ raced' PROVE Exact(h)'
      OBVIOUS
    <2>1. Exact(h)
      BY <1>1 DEF TrafficInv
    <2>2. \A v \in Workers : (call[v].pc = "counted" /\ call[v].key = h => Judged(call[v]))'
      BY <1>1, <2>1 DEF Exact, Judged, Windowed, Within, Latest, Excess, PassedFrom
    <2>3. Windowed(h, now) /\ Within(h, now, Held(h))
      BY <2>1 DEF Exact, Stored
    <2>4. Windowed(h, now)'
      <3>1. begun[h] \subseteq 0 .. now'
        BY <1>1, <2>3 DEF Windowed
      <3>2. \A u \in Time : u <= now => u <= now'
        BY <1>1, TimesAreNumbers
      <3> QED BY <1>1, <2>3, <3>1, <3>2 DEF Windowed
    <2>5. Within(h, now, Held(h))'
      <3> SUFFICES ASSUME NEW j \in begun[h] PROVE j + Window <= now' \/ PassedFrom(h, j) <= Excess(h) + Held(h)
        BY <1>1 DEF Within, Held, Excess, PassedFrom
      <3>1. j \in Nat /\ (j + Window <= now \/ PassedFrom(h, j) <= Excess(h) + Held(h))
        BY <2>3, TimesAreNumbers DEF Within, Windowed
      <3> QED BY <1>1, <3>1, TimesAreNumbers
    <2>6. Stored(h)'
      BY <1>1, <2>1, <2>4, <2>5 DEF Exact, Stored, Latest, Excess, PassedFrom
    <2> QED BY <2>2, <2>6 DEF Exact
  <1> QED BY <1>2, <1>3, <1>4, <1>5 DEF TrafficInv

LEMMA AnsweringKeeps ==
    ASSUME TrafficInv, NEW w \in Workers, Answering(w) \/ ListCalled(w) \/ \E u \in Callers : CallBegan(w, u)
    PROVE  TrafficInv'
  <1>1. /\ TrafficTyped /\ call \in [Workers -> Call] /\ call[w] \in Call /\ Holds(call[w], now)
        /\ calls \in 0 .. MaxCalls /\ calls \in Nat /\ now \in Time /\ now \in Nat
    BY TimesAreNumbers DEF TrafficInv, TrafficTyped
  <1>2. CASE CounterSet(w)
    BY <1>2, CounterSetKeeps
  <1>3. CASE Refused(w) \/ Served(w)
    <2>1. call' = [call EXCEPT ![w] = NoCall] /\ UNCHANGED <<now, entry, raced, lost, begun, passed, calls>>
      BY <1>3 DEF Refused, Served, Becomes
    <2>2. NoCall \in Call /\ Holds(NoCall, now) /\ NoCall.pc = "idle"
      BY NoCallIs DEF Holds
    <2>3. calls' \in 0 .. MaxCalls /\ calls <= calls'
      BY <1>1, <2>1
    <2> QED BY <1>1, <2>1, <2>2, <2>3, CallMoves
  <1>4. CASE ListCalled(w)
    <2> DEFINE c == [NoCall EXCEPT !.pc = "serving", !.who = Address]
    <2>1. /\ call' = [call EXCEPT ![w] = c] /\ UNCHANGED <<now, entry, raced, lost, begun, passed>>
          /\ calls < MaxCalls /\ calls' = calls + 1
      BY <1>4 DEF ListCalled, Becomes
    <2>2. c \in Call /\ Holds(c, now) /\ c.pc = "serving"
      BY NoCallIs DEF Call, Holds, Counters, NoCall
    <2>3. calls' \in 0 .. MaxCalls /\ calls <= calls'
      BY <1>1, <2>1, TimesAreNumbers
    <2> HIDE DEF c
    <2> QED BY <2>1, <2>2, <2>3, CallMoves
  <1>5. ASSUME NEW u \in Callers, CallBegan(w, u) PROVE TrafficInv'
    <2> DEFINE c == [NoCall EXCEPT !.pc = "counting", !.who = u, !.key = u]
    <2>1. /\ call' = [call EXCEPT ![w] = c] /\ UNCHANGED <<now, entry, raced, lost, begun, passed>>
          /\ calls < MaxCalls /\ calls' = calls + 1
      BY <1>5 DEF CallBegan, Becomes
    <2>2. c \in Call /\ Holds(c, now) /\ c.pc = "counting"
      BY NoCallIs DEF Call, Holds, Counters, NoCall
    <2>3. calls' \in 0 .. MaxCalls /\ calls <= calls'
      BY <1>1, <2>1, TimesAreNumbers
    <2> HIDE DEF c
    <2> QED BY <2>1, <2>2, <2>3, CallMoves
  <1>6. CASE CounterRead(w)
    <2> SUFFICES ASSUME NEW k, NEW e, k = call[w].key, e = entry[k] PROVE TrafficInv'
      OBVIOUS
    <2> DEFINE c == [call[w] EXCEPT !.pc = IF Full(e, k, now) THEN "refused" ELSE "counted", !.at = now, !.read = e]
    <2>1. /\ call' = [call EXCEPT ![w] = c] /\ UNCHANGED <<now, entry, raced, lost, begun, passed, calls>>
          /\ call[w].pc = "counting"
      BY <1>6 DEF CounterRead, Becomes
    <2>2. k \in Counters /\ e \in Entry \cup {Null} /\ (e # Null => e.start <= now)
      BY <1>1, <2>1 DEF TrafficTyped, Holds
    <2>3. c \in Call /\ c.key = k /\ c.at = now /\ c.read = e /\ c.pc \in {"refused", "counted"} /\ c.who = call[w].who
      BY <1>1, <2>2 DEF Call
    <2>4. Holds(c, now)
      BY <1>1, <2>1, <2>2, <2>3 DEF Holds
    <2>5. Reading(c)
      BY <2>2, <2>3 DEF TrafficInv, NeverOvercounts, Reading
    <2>6. c.pc = "counted" => ~Full(e, k, now)
      BY <1>1 DEF Call
    <2> HIDE DEF c
    <2>7. c.pc = "counted" /\ k \notin raced => Judged(c)
      <3> SUFFICES ASSUME ~Full(e, k, now), k \notin raced PROVE Judged(c)
        BY <2>6
      <3>1. Stored(k)
        BY <2>2 DEF TrafficInv, Exact
      <3>2. CASE Over(e, now)
        <4>1. Within(k, now, 0)
          <5>1. CASE e = Null
            BY <2>2, <3>1, <5>1 DEF Stored, Held
          <5>2. CASE e # Null
            <6>1. e \in Entry /\ e.start + Window <= now
              BY <1>1, <2>2, <3>2, <5>2, TimesAreNumbers DEF Over, Entry
            <6>2. \A j \in begun[k] : j \in Nat /\ j <= e.start
              BY <2>2, <3>1, <5>2, TimesAreNumbers DEF Stored, Latest, Windowed
            <6>3. \A j \in begun[k] : j + Window <= now
              BY <1>1, <6>1, <6>2, TimesAreNumbers DEF Entry
            <6> QED BY <6>3 DEF Within
          <5> QED BY <5>1, <5>2
        <4> QED BY <2>3, <3>1, <3>2, <4>1 DEF Judged, Stored
      <3>3. CASE ~Over(e, now)
        <4>1. e # Null /\ e \in Entry
          BY <2>2, <3>3 DEF Over
        <4>2. Windowed(k, now) /\ Within(k, now, e.n) /\ Latest(k, e)
          BY <3>1, <4>1 DEF Stored, Held
        <4>3. e.n < LimitOf(k)
          BY <3>3, <4>1 DEF Full, LimitOf, Entry
        <4> QED BY <2>3, <3>3, <4>2, <4>3 DEF Judged
      <3> QED BY <3>2, <3>3
    <2>8. calls' \in 0 .. MaxCalls /\ calls <= calls'
      BY <1>1, <2>1
    <2> QED BY <1>1, <2>1, <2>3, <2>4, <2>5, <2>7, <2>8, CallMoves
  <1> QED BY <1>2, <1>3, <1>4, <1>5, <1>6 DEF Answering

LEMMA TrafficStarts == TrafficInit => TrafficInv
  <1> SUFFICES ASSUME TrafficInit PROVE TrafficInv
    OBVIOUS
  <1>1. \A w \in Workers : call[w] = NoCall
    BY DEF TrafficInit
  <1>2. TrafficTyped
    BY <1>1, TimesAreNumbers, NoCallIs DEF TrafficInit, TrafficTyped, Holds, Time
  <1>3. Budgeted
    <2> SUFFICES ASSUME NEW k \in Counters, NEW t \in Time
                 PROVE  passed[k][t] + Cardinality(Uncounted(k)) <= calls
      BY DEF Budgeted
    <2>1. Uncounted(k) = {}
      BY <1>1, NoCallIs DEF Uncounted
    <2> QED BY <2>1, FS_EmptySet DEF TrafficInit
  <1>4. NeverOvercounts
    BY DEF TrafficInit, NeverOvercounts
  <1>5. ASSUME NEW k \in Counters PROVE Exact(k)
    <2>1. begun[k] = {} /\ entry[k] = Null /\ \A t \in Time : ~(passed[k][t] > 0)
      BY DEF TrafficInit
    <2> QED BY <1>1, <2>1, NoCallIs DEF Exact, Stored, Windowed, Within
  <1>6. ReadsCount
    BY <1>1, NoCallIs DEF ReadsCount
  <1> QED BY <1>2, <1>3, <1>4, <1>5, <1>6 DEF TrafficInv

LEMMA TrafficMoves == TrafficInv /\ [Next]_vars => TrafficInv'
  <1> SUFFICES ASSUME TrafficInv, [Next]_vars PROVE TrafficInv'
    OBVIOUS
  <1>1. CASE UNCHANGED traffic
    <2>1. UNCHANGED <<now, entry, call, raced, lost, begun, passed, calls>>
      BY <1>1 DEF traffic
    <2>2. TrafficTyped' /\ Budgeted'
      BY <2>1 DEF TrafficInv, TrafficTyped, Budgeted, Uncounted
    <2>3. NeverOvercounts' /\ ReadsCount'
      BY <2>1 DEF TrafficInv, NeverOvercounts, ReadsCount, Reading, PassedFrom
    <2>4. \A k \in Counters : Exact(k) => Exact(k)'
      BY <2>1, ExactRests
    <2> QED BY <2>1, <2>2, <2>3, <2>4 DEF TrafficInv
  <1>2. ASSUME NEW w \in Workers, Answering(w) \/ ListCalled(w) \/ \E u \in Callers : CallBegan(w, u)
        PROVE  TrafficInv'
    BY <1>2, AnsweringKeeps
  <1>3. CASE Passing
    BY <1>3, ExpiredKeeps, TickKeeps DEF Passing
  <1> QED BY <1>1, <1>2, <1>3 DEF Next, vars, CallAdmitted

\* Whatever the workers' order and whatever the cache drops, a counter holds no
\* more than its window let through, and one that nobody overwrote all of it but
\* for the excess of its losses (check_rate_limit).
THEOREM CountersCount == Spec => []TrafficInv
  BY TrafficStarts, TrafficMoves, PTL DEF Spec, Init

\* No counter ever holds more than it let through in its window, for any number
\* of callers and workers and any limits: nobody is refused for calls that were
\* not made (check_rate_limit).
THEOREM NobodyOvercounted == Spec => []NeverOvercounts
  <1>1. TrafficInv => NeverOvercounts
    BY DEF TrafficInv
  <1> QED BY <1>1, CountersCount, PTL

\* A counter nobody overwrote lets no more calls through than its limit in any
\* window it began, and for every time the cache dropped it too early its limit
\* again; never losing one, it keeps its limit (check_rate_limit).
THEOREM LimitsKept == Spec => []LimitKept
  <1>1. TrafficInv => LimitKept
    <2> SUFFICES ASSUME TrafficInv, NEW k \in Counters \ raced, NEW i \in begun[k]
                 PROVE  PassedFrom(k, i) <= LimitOf(k) * (1 + lost[k])
      BY DEF LimitKept
    <2>1. PassedFrom(k, i) <= Excess(k) + LimitOf(k)
      BY DEF TrafficInv, Exact, Stored
    <2>2. LimitOf(k) * (1 + lost[k]) = Excess(k) + LimitOf(k)
      BY ExcessIs DEF Excess, TrafficInv, TrafficTyped
    <2> QED BY <2>1, <2>2
  <1> QED BY <1>1, CountersCount, PTL
-----------------------------------------------------------------------------
(* The invariant of the accounts *)

Op == [pc : {"idle", "loaded", "half", "checking", "clearing", "counting", "counted", "locking"},
       what : Pages \cup {"create", "signin", Null},
       who : Callers \cup {Null}, user : UserRow \cup {Null}, profile : ProfileRow \cup {Null},
       arg : Counters \cup Passwords \cup Roles \cup {Null}, n : Nat]

\* What a request under way holds: whose account, copies of both rows as long as
\* it may save them, and what it is to save or to count.
Open(o) ==
    /\ o.pc # "idle" => o.who \in Callers
    /\ o.pc \in {"loaded", "half"} => o.user # Null /\ o.profile # Null
    /\ o.pc = "half" => o.what = "update"
    /\ o.pc = "loaded" => /\ o.what \in {"role", "update", "create"} => o.arg \in Roles \cup {Null}
                          /\ o.what = "password" => o.arg \in Passwords
    /\ o.pc \in {"checking", "clearing", "counting", "counted", "locking"} => o.what = "signin"
    /\ o.pc \in {"clearing", "counting", "counted", "locking"} => o.arg \in {o.who, Address}

AccountsTyped ==
    /\ ids \in Nat /\ ops \in 0 .. MaxOps
    /\ user \in [Callers -> UserRow \cup {Null}] /\ profile \in [Callers -> ProfileRow \cup {Null}]
    /\ \A u \in Callers : user[u] = Null <=> profile[u] = Null
    /\ op \in [Workers -> Op] /\ \A w \in Workers : Open(op[w]) /\ (call[w].pc = "idle" \/ op[w].pc = "idle")
    /\ suspect \subseteq Callers \X Fields
    /\ DOMAIN decided = Callers /\ \A u \in Callers : decided[u]["exists"] \in BOOLEAN

USE AccountsAssumption, AccessAssumption

LEMMA RowsGrow ==
    ASSUME ids \in Nat, ids' \in Nat, ids <= ids'
    PROVE  /\ UserRow \subseteq UserRow' /\ ProfileRow \subseteq ProfileRow' /\ Op \subseteq Op'
           /\ Null \notin UserRow' /\ Null \notin ProfileRow'
  <1>1. Ids \subseteq Ids' /\ Ids' \subseteq Nat
    BY DEF Ids
  <1>2. UserRow \subseteq UserRow' /\ UserRow' \subseteq [id : Nat, active : BOOLEAN, password : Passwords]
    BY <1>1 DEF UserRow
  <1>3. ProfileRow \subseteq ProfileRow' /\ ProfileRow' \subseteq [id : Nat, role : Roles \cup {Null}, token : Nat \cup {Null}]
    BY <1>1 DEF ProfileRow
  <1>4. Op \subseteq Op'
    BY <1>2, <1>3 DEF Op
  <1> QED BY <1>2, <1>3, <1>4

\* One worker goes on and one account changes.
LEMMA AccountMoves ==
    ASSUME AccountsTyped, NEW w \in Workers, NEW u \in Callers, NEW o, NEW p, NEW q,
           op' = [op EXCEPT ![w] = o], user' = [user EXCEPT ![u] = p], profile' = [profile EXCEPT ![u] = q],
           ids' \in Nat, ids <= ids', ops' \in 0 .. MaxOps, UNCHANGED call,
           o \in Op', Open(o), o.pc = "idle" \/ call[w].pc = "idle",
           p \in UserRow' \cup {Null}, q \in ProfileRow' \cup {Null}, p = Null <=> q = Null,
           suspect' \subseteq Callers \X Fields,
           DOMAIN decided' = Callers, \A x \in Callers : decided'[x]["exists"] \in BOOLEAN
    PROVE  AccountsTyped'
  <1>1. /\ UserRow \subseteq UserRow' /\ ProfileRow \subseteq ProfileRow' /\ Op \subseteq Op'
    BY RowsGrow DEF AccountsTyped
  <1>2. user' \in [Callers -> UserRow' \cup {Null}] /\ profile' \in [Callers -> ProfileRow' \cup {Null}]
    BY <1>1 DEF AccountsTyped
  <1>3. \A x \in Callers : user'[x] = Null <=> profile'[x] = Null
    BY DEF AccountsTyped
  <1>4. op' \in [Workers -> Op']
    BY <1>1 DEF AccountsTyped
  <1>5. \A v \in Workers : Open(op'[v]) /\ (call'[v].pc = "idle" \/ op'[v].pc = "idle")
    BY DEF AccountsTyped
  <1> QED BY <1>2, <1>3, <1>4, <1>5 DEF AccountsTyped, Open

\* A decision of worker w about the columns fs of u, pointwise; it is none if fs is empty.
DecisionsAre(w, u, fs, d) ==
    \A x \in Callers, f \in Fields :
        /\ decided'[x][f] = IF x = u /\ f \in fs THEN d[f] ELSE decided[x][f]
        /\ <<x, f>> \in suspect' <=>
             IF x = u /\ f \in fs THEN \E v \in Workers \ {w} : op[v].who = u /\ Saves(op[v], f)
                                  ELSE <<x, f>> \in suspect

LEMMA DecidesMeans ==
    ASSUME NEW w \in Workers, NEW u \in Callers, NEW fs \in SUBSET Fields, NEW d, Decides(w, u, fs, d),
           DOMAIN decided = Callers, suspect \subseteq Callers \X Fields
    PROVE  /\ DOMAIN decided' = Callers /\ suspect' \subseteq Callers \X Fields
           /\ DecisionsAre(w, u, fs, d)
  <1>1. DOMAIN decided' = Callers
    BY DEF Decides
  <1>2. suspect' \subseteq Callers \X Fields
    BY DEF Decides
  <1>3. \A x \in Callers, f \in Fields : decided'[x][f] = IF x = u /\ f \in fs THEN d[f] ELSE decided[x][f]
    BY DEF Decides
  <1>4. ASSUME NEW x \in Callers, NEW f \in Fields
        PROVE  <<x, f>> \in suspect' <=>
                 IF x = u /\ f \in fs THEN \E v \in Workers \ {w} : op[v].who = u /\ Saves(op[v], f)
                                      ELSE <<x, f>> \in suspect
    BY DEF Decides
  <1> QED BY <1>1, <1>2, <1>3, <1>4 DEF DecisionsAre

Columns == Fields \ {"exists"}

\* What request o would save in column f.
Column(o, f) == IF f \in UserColumns THEN o.user[f] ELSE o.profile[f]

\* What a request is still to save is as it was last decided, or those who
\* decided knew of it; none is left to bring back a row that was deleted.
Agrees(o) ==
    o.pc # "idle" =>
       \/ <<o.who, "exists">> \in suspect
       \/ IF user[o.who] = Null THEN ~Saves(o, "exists")
          ELSE \A f \in Columns : Saves(o, f) /\ <<o.who, f>> \notin suspect => Column(o, f) = decided[o.who][f]

AccountsInv == AccountsTyped /\ DecisionsKept /\ \A w \in Workers : Agrees(op[w])

\* Rows and decisions stay as they are.
LEMMA RowsStay ==
    ASSUME AccountsInv, NEW w \in Workers, NEW o, Agrees(o), op' = [op EXCEPT ![w] = o],
           UNCHANGED <<user, profile, decided, suspect>>
    PROVE  DecisionsKept' /\ \A v \in Workers : Agrees(op[v])'
  <1>1. DecisionsKept'
    BY DEF AccountsInv, DecisionsKept, Value
  <1>2. ASSUME NEW v \in Workers PROVE Agrees(op[v])'
    <2>1. op'[v] = IF v = w THEN o ELSE op[v]
      BY DEF AccountsInv, AccountsTyped
    <2>2. Agrees(op'[v])
      BY <2>1 DEF AccountsInv
    <2> QED BY <2>2 DEF Agrees, Saves, Column
  <1> QED BY <1>1, <1>2

\* A request that saves nothing agrees with everything.
LEMMA SavesNothing ==
    \A o : (\A f \in Fields : ~Saves(o, f)) => Agrees(o)
  BY DEF Agrees, Columns, Fields

\* What worker w still has to save as o: nothing of fs, and nothing new.
Leaves(w, fs, o) == \A f \in Fields : Saves(o, f) => f \notin fs /\ Saves(op[w], f) /\ Column(o, f) = Column(op[w], f)

\* The rows of u take the columns fs from d, and others from the copy of worker w
\* at most; a row that is gone comes back only if this worker may insert it.
RowsAre(w, u, fs, d) ==
    /\ \A x \in Callers \ {u} : user'[x] = user[x] /\ profile'[x] = profile[x]
    /\ user[u] = Null => Saves(op[w], "exists")
    /\ user[u] # Null => user'[u] # Null
    /\ user[u] # Null =>
         \A f \in Columns : \/ f \in fs /\ Value(u, f)' = d[f]
                            \/ f \notin fs /\ Value(u, f)' = Value(u, f)
                            \/ f \notin fs /\ Value(u, f)' = Column(op[w], f) /\ Saves(op[w], f)

\* Worker w saves its copy of columns of u, or what it decides about columns fs,
\* and goes on as o, which has none of these to save any more.
LEMMA RowSaved ==
    ASSUME AccountsInv, NEW w \in Workers, NEW u \in Callers, NEW fs \in SUBSET Columns, NEW d, NEW o,
           op[w].pc # "idle", op[w].who = u, op' = [op EXCEPT ![w] = o],
           o.pc # "idle" => o.who = u,
           Leaves(w, fs, o), DecisionsAre(w, u, fs, d),
           RowsAre(w, u, fs, d)
    PROVE  DecisionsKept' /\ \A v \in Workers : Agrees(op[v])'
  <1> USE DEF DecisionsAre, Leaves, RowsAre
  <1>1. "exists" \in Fields /\ Columns \subseteq Fields /\ "exists" \notin fs
    BY DEF Fields, Columns
  <1>2. \A v \in Workers : op'[v] = IF v = w THEN o ELSE op[v]
    BY DEF AccountsInv, AccountsTyped
  <1>3. \A v \in Workers : op[v].pc # "idle" => op[v].who \in Callers
    BY DEF AccountsInv, AccountsTyped, Open
  <1>4. \A x \in Callers : /\ decided'[x]["exists"] = decided[x]["exists"]
                           /\ <<x, "exists">> \in suspect' <=> <<x, "exists">> \in suspect
    BY <1>1
  <1>5. ASSUME NEW x \in Callers \ {u}
        PROVE  /\ \A f \in Fields : decided'[x][f] = decided[x][f] /\ (<<x, f>> \in suspect' <=> <<x, f>> \in suspect)
               /\ \A f \in Columns : Value(x, f)' = Value(x, f)
    BY DEF Value
  <1>6. <<u, "exists">> \notin suspect => user[u] # Null
    BY DEF AccountsInv, Agrees
  <1>7. \A f \in Columns : <<u, "exists">> \notin suspect /\ <<u, f>> \notin suspect =>
            /\ Value(u, f) = decided[u][f]
            /\ Saves(op[w], f) => Column(op[w], f) = decided[u][f]
    BY <1>6 DEF AccountsInv, Agrees, DecisionsKept, Columns
  <1>8. DecisionsKept'
    <2> SUFFICES ASSUME NEW x \in Callers, <<x, "exists">> \notin suspect'
                 PROVE  /\ (user'[x] # Null) = decided'[x]["exists"]
                        /\ user'[x] # Null => \A f \in Columns : <<x, f>> \in suspect' \/ Value(x, f)' = decided'[x][f]
      BY DEF DecisionsKept, Columns
    <2>1. <<x, "exists">> \notin suspect
      BY <1>4
    <2>2. (user[x] # Null) = decided[x]["exists"]
      BY <2>1 DEF AccountsInv, DecisionsKept
    <2>3. (user'[x] # Null) = decided'[x]["exists"]
      <3>1. (user'[x] # Null) = (user[x] # Null)
        BY <1>6, <2>1
      <3> QED BY <1>4, <2>2, <3>1
    <2>4. CASE x = u
      BY <1>1, <1>6, <1>7, <2>1, <2>3, <2>4
    <2>5. CASE x # u
      <3>1. user[x] # Null => \A f \in Columns : <<x, f>> \in suspect \/ Value(x, f) = decided[x][f]
        BY <2>1 DEF AccountsInv, DecisionsKept, Columns
      <3> QED BY <1>1, <1>5, <2>3, <2>5, <3>1
    <2> QED BY <2>4, <2>5
  <1>9. ASSUME NEW v \in Workers PROVE Agrees(op[v])'
    <2> SUFFICES ASSUME NEW n, n = op'[v], n.pc # "idle", <<n.who, "exists">> \notin suspect'
                 PROVE  IF user'[n.who] = Null THEN ~Saves(n, "exists")
                        ELSE \A f \in Columns : Saves(n, f) /\ <<n.who, f>> \notin suspect' => Column(n, f) = decided'[n.who][f]
      BY DEF Agrees, Saves, Column
    <2>1. n.who \in Callers
      BY <1>2, <1>3
    <2>2. <<n.who, "exists">> \notin suspect
      BY <1>4, <2>1
    <2>3. CASE v = w
      <3>1. n = o /\ n.who = u /\ user'[u] # Null
        BY <1>2, <1>6, <2>2, <2>3
      <3> QED BY <1>1, <1>7, <2>2, <3>1
    <2>4. CASE v # w /\ n.who = u
      <3>1. n = op[v] /\ user[u] # Null /\ user'[u] # Null
        BY <1>2, <1>6, <2>2, <2>4
      <3>2. ASSUME NEW f \in Columns, Saves(n, f), <<u, f>> \notin suspect' PROVE Column(n, f) = decided'[u][f]
        <4>1. f \notin fs /\ <<u, f>> \notin suspect /\ decided'[u][f] = decided[u][f]
          BY <1>1, <2>4, <3>1, <3>2
        <4>2. Column(n, f) = decided[u][f]
          BY <2>2, <2>4, <3>1, <3>2, <4>1 DEF AccountsInv, Agrees
        <4> QED BY <4>1, <4>2
      <3> QED BY <2>4, <3>1, <3>2
    <2>5. CASE v # w /\ n.who # u
      <3>1. n = op[v]
        BY <1>2, <2>5
      <3>2. Agrees(n)
        BY <3>1 DEF AccountsInv
      <3>3. IF user[n.who] = Null THEN ~Saves(n, "exists")
            ELSE \A f \in Columns : Saves(n, f) /\ <<n.who, f>> \notin suspect => Column(n, f) = decided[n.who][f]
        BY <2>2, <3>1, <3>2 DEF Agrees
      <3> QED BY <1>1, <2>1, <2>5, <3>3
    <2> QED BY <2>3, <2>4, <2>5
  <1> QED BY <1>8, <1>9

\* All columns of u are decided at once, with or without its rows: nobody but
\* those who decided last is left with anything else to save.
LEMMA RowsReplaced ==
    ASSUME AccountsInv, NEW w \in Workers, NEW u \in Callers, NEW fs \in SUBSET Fields, NEW d, NEW o,
           op' = [op EXCEPT ![w] = o], "exists" \in fs, o.pc # "idle" => o.who = u,
           DecisionsAre(w, u, fs, d),
           \A x \in Callers \ {u} : user'[x] = user[x] /\ profile'[x] = profile[x],
           (user'[u] # Null) = d["exists"],
           user'[u] = Null => \A f \in Fields : ~Saves(o, f),
           user'[u] # Null => /\ fs = Fields
                              /\ \A f \in Columns : Value(u, f)' = d[f] /\ (Saves(o, f) => Column(o, f) = d[f])
    PROVE  DecisionsKept' /\ \A v \in Workers : Agrees(op[v])'
  <1> USE DEF DecisionsAre
  <1>1. "exists" \in Fields /\ Columns \subseteq Fields
    BY DEF Fields, Columns
  <1>2. \A v \in Workers : op'[v] = IF v = w THEN o ELSE op[v]
    BY DEF AccountsInv, AccountsTyped
  <1>3. \A v \in Workers : op[v].pc # "idle" => op[v].who \in Callers
    BY DEF AccountsInv, AccountsTyped, Open
  <1>4. ASSUME NEW x \in Callers \ {u}
        PROVE  /\ \A f \in Fields : decided'[x][f] = decided[x][f] /\ (<<x, f>> \in suspect' <=> <<x, f>> \in suspect)
               /\ \A f \in Columns : Value(x, f)' = Value(x, f)
    BY DEF Value
  <1>5. DecisionsKept'
    <2> SUFFICES ASSUME NEW x \in Callers, <<x, "exists">> \notin suspect'
                 PROVE  /\ (user'[x] # Null) = decided'[x]["exists"]
                        /\ user'[x] # Null => \A f \in Columns : <<x, f>> \in suspect' \/ Value(x, f)' = decided'[x][f]
      BY DEF DecisionsKept, Columns
    <2>1. CASE x = u
      BY <1>1, <2>1
    <2>2. CASE x # u
      <3>1. <<x, "exists">> \notin suspect /\ decided'[x]["exists"] = decided[x]["exists"] /\ user'[x] = user[x]
        BY <1>1, <1>4, <2>2
      <3>2. /\ (user[x] # Null) = decided[x]["exists"]
            /\ user[x] # Null => \A f \in Columns : <<x, f>> \in suspect \/ Value(x, f) = decided[x][f]
        BY <3>1 DEF AccountsInv, DecisionsKept, Columns
      <3> QED BY <1>1, <1>4, <2>2, <3>1, <3>2
    <2> QED BY <2>1, <2>2
  <1>6. ASSUME NEW v \in Workers PROVE Agrees(op[v])'
    <2> SUFFICES ASSUME NEW n, n = op'[v], n.pc # "idle", <<n.who, "exists">> \notin suspect'
                 PROVE  IF user'[n.who] = Null THEN ~Saves(n, "exists")
                        ELSE \A f \in Columns : Saves(n, f) /\ <<n.who, f>> \notin suspect' => Column(n, f) = decided'[n.who][f]
      BY DEF Agrees, Saves, Column
    <2>1. n.who \in Callers
      BY <1>2, <1>3
    <2>2. CASE v = w
      BY <1>1, <1>2, <2>2
    <2>3. CASE v # w /\ n.who = u
      BY <1>1, <1>2, <2>3
    <2>4. CASE v # w /\ n.who # u
      <3>1. n = op[v] /\ <<n.who, "exists">> \notin suspect
        BY <1>1, <1>2, <1>4, <2>1, <2>4
      <3>2. Agrees(n)
        BY <3>1 DEF AccountsInv
      <3>3. IF user[n.who] = Null THEN ~Saves(n, "exists")
            ELSE \A f \in Columns : Saves(n, f) /\ <<n.who, f>> \notin suspect => Column(n, f) = decided[n.who][f]
        BY <3>1, <3>2 DEF Agrees
      <3> QED BY <1>1, <1>4, <2>1, <2>4, <3>3
    <2> QED BY <2>2, <2>3, <2>4
  <1> QED BY <1>5, <1>6
-----------------------------------------------------------------------------
(* Steps of the accounts *)

LEMMA NoOpIs == /\ NoOp \in Op /\ Open(NoOp) /\ NoOp.pc = "idle" /\ \A f : ~Saves(NoOp, f)
  BY DEF NoOp, Op, Open, Saves

\* A worker goes on, and no row changes.
LEMMA WorkerMoves ==
    ASSUME AccountsInv, NEW w \in Workers, NEW o \in Op, op' = [op EXCEPT ![w] = o], Open(o), Agrees(o),
           o.pc = "idle" \/ call[w].pc = "idle", ops' \in 0 .. MaxOps,
           UNCHANGED <<user, profile, decided, suspect, ids, call>>
    PROVE  AccountsInv'
  <1>1. \A v \in Workers : op'[v] = IF v = w THEN o ELSE op[v]
    BY DEF AccountsInv, AccountsTyped
  <1>2. op' \in [Workers -> Op'] /\ \A v \in Workers : Open(op'[v]) /\ (call'[v].pc = "idle" \/ op'[v].pc = "idle")
    <2>1. Op' = Op
      BY DEF Op, UserRow, ProfileRow, Ids
    <2> QED BY <1>1, <2>1 DEF AccountsInv, AccountsTyped
  <1>3. AccountsTyped'
    BY <1>2 DEF AccountsInv, AccountsTyped, UserRow, ProfileRow, Ids, Open
  <1>4. DecisionsKept' /\ \A v \in Workers : Agrees(op[v])'
    BY RowsStay
  <1> QED BY <1>3, <1>4 DEF AccountsInv

LEMMA PageOpenedKeeps ==
    ASSUME AccountsInv, NEW w \in Workers, NEW u \in Callers, NEW what \in Pages, NEW arg \in Args(what),
           PageOpened(w, what, u, arg), UNCHANGED call
    PROVE  AccountsInv'
  <1> DEFINE o == [pc |-> "loaded", what |-> what, who |-> u, user |-> user[u], profile |-> profile[u], arg |-> arg, n |-> 0]
  <1>1. /\ op' = [op EXCEPT ![w] = o] /\ call[w].pc = "idle" /\ user[u] # Null
        /\ ops < MaxOps /\ ops' = ops + 1 /\ UNCHANGED <<user, profile, decided, suspect, ids>>
    BY DEF PageOpened, Does, Free
  <1>2. AccountsTyped
    BY DEF AccountsInv
  <1>3. ops' \in 0 .. MaxOps
    BY <1>1, <1>2 DEF AccountsTyped
  <1>4. arg \in Passwords \cup Roles \cup {Null}
        /\ (what \in {"role", "update"} => arg \in Roles \cup {Null}) /\ (what = "password" => arg \in Passwords)
    BY DEF Args
  <1>5. o \in Op
    BY <1>2, <1>4 DEF Op, AccountsTyped
  <1>6. Open(o)
    BY <1>1, <1>2, <1>4 DEF Open, AccountsTyped, Pages, UserPages
  <1>7. Agrees(o)
    <2> SUFFICES ASSUME <<u, "exists">> \notin suspect, NEW f \in Columns, Saves(o, f), <<u, f>> \notin suspect
                 PROVE  Column(o, f) = decided[u][f]
      BY <1>1 DEF Agrees
    <2>1. Value(u, f) = decided[u][f]
      BY <1>1 DEF AccountsInv, DecisionsKept, Columns
    <2>2. Column(o, f) = Value(u, f)
      BY DEF Column, Value, Columns, Fields, UserColumns
    <2> QED BY <2>1, <2>2
  <1> HIDE DEF o
  <1> QED BY <1>1, <1>3, <1>5, <1>6, <1>7, WorkerMoves

LEMMA PageEndedKeeps ==
    ASSUME AccountsInv, NEW w \in Workers, PageEnded(w), UNCHANGED call
    PROVE  AccountsInv'
  <1>1. op' = [op EXCEPT ![w] = NoOp] /\ UNCHANGED <<user, profile, decided, suspect, ids, ops>>
    BY DEF PageEnded, Does
  <1>2. Agrees(NoOp) /\ ops' \in 0 .. MaxOps
    BY <1>1, NoOpIs, SavesNothing DEF AccountsInv, AccountsTyped
  <1> QED BY <1>1, <1>2, NoOpIs, WorkerMoves

LEMMA UserDeletedKeeps ==
    ASSUME AccountsInv, NEW w \in Workers, UserDeleted(w), UNCHANGED call
    PROVE  AccountsInv'
  <1> SUFFICES ASSUME NEW u, u = op[w].who PROVE AccountsInv'
    OBVIOUS
  <1> DEFINE d == [exists |-> FALSE]
  <1>1. /\ op[w].pc = "loaded" /\ op' = [op EXCEPT ![w] = NoOp]
        /\ user' = [user EXCEPT ![u] = Null] /\ profile' = [profile EXCEPT ![u] = Null]
        /\ Decides(w, u, {"exists"}, d) /\ UNCHANGED <<ids, ops>>
    BY DEF UserDeleted, Does
  <1>2. AccountsTyped /\ u \in Callers
    BY <1>1 DEF AccountsInv, AccountsTyped, Open
  <1> DEFINE fs == {"exists"}
  <1>3. fs \in SUBSET Fields /\ "exists" \in fs /\ "exists" \in Fields /\ d["exists"] = FALSE
    BY DEF Fields
  <1> HIDE DEF d, fs
  <1>4. /\ DOMAIN decided' = Callers /\ suspect' \subseteq Callers \X Fields
        /\ DecisionsAre(w, u, fs, d)
    BY <1>1, <1>2, <1>3, DecidesMeans DEF AccountsTyped, fs, d
  <1>5. AccountsTyped'
    <2>1. \A x \in Callers : decided'[x]["exists"] \in BOOLEAN
      BY <1>2, <1>3, <1>4 DEF AccountsTyped, DecisionsAre
    <2>2. NoOp \in Op'
      BY <1>1, <1>2, NoOpIs, RowsGrow DEF AccountsTyped
    <2>3. ids' \in Nat /\ ids <= ids' /\ ops' \in 0 .. MaxOps
      BY <1>1, <1>2 DEF AccountsTyped
    <2> QED BY <1>1, <1>2, <1>4, <2>1, <2>2, <2>3, NoOpIs, AccountMoves
  <1>6. \A x \in Callers \ {u} : user'[x] = user[x] /\ profile'[x] = profile[x]
    BY <1>1, <1>2 DEF AccountsTyped
  <1>7. user'[u] = Null
    BY <1>1, <1>2 DEF AccountsTyped
  <1>8. DecisionsKept' /\ \A v \in Workers : Agrees(op[v])'
    BY <1>1, <1>2, <1>3, <1>4, <1>6, <1>7, NoOpIs, RowsReplaced
  <1> QED BY <1>5, <1>8 DEF AccountsInv

\* Nobody decides on existence: it stays a truth value.
LEMMA ExistenceTyped ==
    ASSUME AccountsTyped, NEW w, NEW u, NEW fs, NEW d, DecisionsAre(w, u, fs, d), "exists" \notin fs
    PROVE  \A x \in Callers : decided'[x]["exists"] \in BOOLEAN
  <1>1. "exists" \in Fields
    BY DEF Fields
  <1>2. \A x \in Callers : decided'[x]["exists"] = decided[x]["exists"]
    BY <1>1 DEF DecisionsAre
  <1> QED BY <1>2 DEF AccountsTyped

\* Worker w still has to save the whole row of the user.
SavesUser(w) == \A f \in UserColumns \cup {"exists"} : Saves(op[w], f)

\* Row c is what worker w decided about columns fs, d, and the rest of its copy,
\* or of what is stored.
UserCopied(c, w, fs, d) == \A f \in UserColumns : c[f] = IF f \in fs THEN d[f] ELSE op[w].user[f]
ProfileCopied(c, w, u, fs, d) ==
    \A f \in {"role", "token"} : \/ f \in fs /\ c[f] = d[f]
                                 \/ f \notin fs /\ c[f] = profile[u][f]
                                 \/ f \notin fs /\ c[f] = op[w].profile[f] /\ Saves(op[w], f)

\* The row c of u's profile is saved: columns that worker w decides on, those of
\* its copy that it still has to save, and those that are stored.
LEMMA ProfileSavedKeeps ==
    ASSUME AccountsInv, NEW w \in Workers, NEW u \in Callers, NEW fs \in SUBSET {"role", "token"}, NEW d, NEW o, NEW c,
           op[w].pc # "idle", op[w].who = u, op' = [op EXCEPT ![w] = o], o.pc # "idle" => o.who = u,
           o \in Op', Open(o), o.pc = "idle" \/ call[w].pc = "idle",
           Leaves(w, fs, o), DecisionsAre(w, u, fs, d), DOMAIN decided' = Callers, suspect' \subseteq Callers \X Fields,
           profile[u] # Null, profile' = [profile EXCEPT ![u] = c], c \in ProfileRow',
           ids' \in Nat, ids <= ids', ops' \in 0 .. MaxOps, UNCHANGED <<user, call>>,
           ProfileCopied(c, w, u, fs, d)
    PROVE  AccountsInv'
  <1>1. AccountsTyped
    BY DEF AccountsInv
  <1>2. user[u] # Null /\ user[u] \in UserRow /\ Null \notin ProfileRow' /\ c # Null /\ UserRow \subseteq UserRow'
    BY <1>1, RowsGrow DEF AccountsTyped
  <1>3. fs \in SUBSET Columns /\ fs \in SUBSET Fields /\ "exists" \notin fs /\ "exists" \in Fields
    BY DEF Columns, Fields
  <1>4. AccountsTyped'
    <2>1. \A x \in Callers : decided'[x]["exists"] \in BOOLEAN
      BY <1>1, <1>3, ExistenceTyped
    <2>2. user' = [user EXCEPT ![u] = user[u]]
      BY <1>1 DEF AccountsTyped
    <2> QED BY <1>1, <1>2, <2>1, <2>2, AccountMoves
  <1>5. \A x \in Callers \ {u} : user'[x] = user[x] /\ profile'[x] = profile[x]
    BY <1>1 DEF AccountsTyped
  <1>6. ASSUME NEW f \in Columns
        PROVE  \/ f \in fs /\ Value(u, f)' = d[f]
               \/ f \notin fs /\ Value(u, f)' = Value(u, f)
               \/ f \notin fs /\ Value(u, f)' = Column(op[w], f) /\ Saves(op[w], f)
    <2>1. CASE f \in UserColumns
      <3>1. Value(u, f)' = Value(u, f)
        BY <2>1 DEF Value
      <3>2. f \notin fs
        BY <2>1 DEF UserColumns
      <3> QED BY <3>1, <3>2
    <2>2. CASE f \in {"role", "token"}
      <3>1. profile'[u] = c
        BY <1>1 DEF AccountsTyped
      <3>2. f \notin UserColumns
        BY <2>2 DEF UserColumns
      <3>3. Value(u, f)' = c[f] /\ Value(u, f) = profile[u][f] /\ Column(op[w], f) = op[w].profile[f]
        BY <2>2, <3>1, <3>2 DEF Value, Column
      <3> QED BY <2>2, <3>3 DEF ProfileCopied
    <2> QED BY <2>1, <2>2 DEF Columns, Fields, UserColumns
  <1>7. DecisionsKept' /\ \A v \in Workers : Agrees(op[v])'
    <2>1. RowsAre(w, u, fs, d)
      BY <1>2, <1>5, <1>6 DEF RowsAre
    <2> QED BY <1>3, <2>1, RowSaved
  <1> QED BY <1>4, <1>7 DEF AccountsInv

\* The row c of user u is saved: what worker w decides on, and the rest of its copy.
LEMMA UserSavedKeeps ==
    ASSUME AccountsInv, NEW w \in Workers, NEW u \in Callers, NEW fs \in SUBSET UserColumns, NEW d, NEW c,
           op[w].pc # "idle", op[w].who = u, op' = [op EXCEPT ![w] = NoOp],
           SavesUser(w), Decides(w, u, fs, d), Saved(c, u), c \in UserRow, UNCHANGED <<ops, call>>,
           UserCopied(c, w, fs, d)
    PROVE  AccountsInv'
  <1>1. AccountsTyped
    BY DEF AccountsInv
  <1>2. fs \in SUBSET Columns /\ fs \in SUBSET Fields /\ "exists" \notin fs /\ "exists" \in Fields
    BY DEF Columns, Fields, UserColumns
  <1>3. DOMAIN decided' = Callers /\ suspect' \subseteq Callers \X Fields /\ DecisionsAre(w, u, fs, d)
    BY <1>1, <1>2, DecidesMeans DEF AccountsTyped
  <1> DEFINE q == IF user[u] # Null THEN profile[u] ELSE NewProfile(ids + 1)
  <1>4. /\ user' = [user EXCEPT ![u] = c] /\ profile' = [profile EXCEPT ![u] = q]
        /\ ids' \in Nat /\ ids <= ids' /\ q \in ProfileRow' /\ c \in UserRow'
    <2>1. CASE user[u] # Null
      <3>1. ids' = ids /\ profile' = profile /\ user' = [user EXCEPT ![u] = c] /\ q = profile[u]
        BY <2>1 DEF Saved
      <3> QED BY <1>1, <2>1, <3>1 DEF AccountsTyped, UserRow, ProfileRow, Ids
    <2>2. CASE user[u] = Null
      <3>1. /\ ids' = ids + 1 /\ profile' = [profile EXCEPT ![u] = NewProfile(ids + 1)] /\ user' = [user EXCEPT ![u] = c]
            /\ ids' \in Nat /\ ids <= ids' /\ ids \in Nat
        BY <1>1, <2>2 DEF Saved, AccountsTyped
      <3>2. UserRow \subseteq UserRow'
        BY <3>1, RowsGrow
      <3>3. NewProfile(ids + 1) \in ProfileRow'
        BY <3>1 DEF NewProfile, ProfileRow, Ids
      <3> QED BY <2>2, <3>1, <3>2, <3>3
    <2> QED BY <2>1, <2>2
  <1> HIDE DEF q
  <1>5. Null \notin UserRow' /\ Null \notin ProfileRow' /\ NoOp \in Op' /\ UNCHANGED call /\ ops' \in 0 .. MaxOps
    BY <1>1, <1>4, RowsGrow, NoOpIs DEF AccountsTyped
  <1>6. AccountsTyped'
    <2>1. \A x \in Callers : decided'[x]["exists"] \in BOOLEAN
      BY <1>1, <1>2, <1>3, ExistenceTyped
    <2>2. c # Null /\ q # Null
      BY <1>4, <1>5
    <2> QED BY <1>1, <1>3, <1>4, <1>5, <2>1, <2>2, NoOpIs, AccountMoves
  <1>7. \A x \in Callers \ {u} : user'[x] = user[x] /\ profile'[x] = profile[x]
    BY <1>1, <1>4 DEF AccountsTyped
  <1>8. user'[u] = c /\ profile'[u] = q /\ c # Null
    BY <1>1, <1>4, <1>5 DEF AccountsTyped
  <1>9. ASSUME NEW f \in Columns, user[u] # Null
        PROVE  \/ f \in fs /\ Value(u, f)' = d[f]
               \/ f \notin fs /\ Value(u, f)' = Value(u, f)
               \/ f \notin fs /\ Value(u, f)' = Column(op[w], f) /\ Saves(op[w], f)
    <2>1. CASE f \in UserColumns
      <3>1. Value(u, f)' = c[f] /\ Column(op[w], f) = op[w].user[f]
        BY <1>8, <2>1 DEF Value, Column, UserColumns
      <3> QED BY <2>1, <3>1 DEF UserCopied, SavesUser
    <2>2. CASE f \in {"role", "token"}
      <3>1. f \notin UserColumns /\ f \notin fs
        BY <2>2 DEF UserColumns
      <3>2. Value(u, f)' = q[f] /\ Value(u, f) = profile[u][f]
        BY <1>8, <2>2, <3>1 DEF Value
      <3> QED BY <1>9, <3>1, <3>2 DEF q
    <2> QED BY <2>1, <2>2 DEF Columns, Fields, UserColumns
  <1>10. DecisionsKept' /\ \A v \in Workers : Agrees(op[v])'
    <2>1. RowsAre(w, u, fs, d)
      BY <1>7, <1>8, <1>9 DEF RowsAre, SavesUser
    <2>2. Leaves(w, fs, NoOp)
      BY NoOpIs DEF Leaves
    <2> QED BY <1>2, <1>3, <2>1, <2>2, NoOpIs, RowSaved
  <1> QED BY <1>6, <1>10 DEF AccountsInv

LEMMA UserSwitchedKeeps ==
    ASSUME AccountsInv, NEW w \in Workers, UserSwitched(w), UNCHANGED call
    PROVE  AccountsInv'
  <1> SUFFICES ASSUME NEW u, u = op[w].who PROVE AccountsInv'
    OBVIOUS
  <1> DEFINE c == [op[w].user EXCEPT !.active = Active(op[w])]
             fs == {"active"}
  <1>1. /\ op[w].pc = "loaded" /\ op[w].what \in {"activate", "deactivate", "toggle"} /\ op' = [op EXCEPT ![w] = NoOp]
        /\ Saved(c, u) /\ Decides(w, u, fs, c) /\ UNCHANGED ops
    BY DEF UserSwitched, Does
  <1>2. u \in Callers /\ op[w].user \in UserRow
    BY <1>1 DEF AccountsInv, AccountsTyped, Open, Op
  <1>3. c \in UserRow /\ UserCopied(c, w, fs, c)
    BY <1>1, <1>2 DEF UserRow, Active, UserColumns, UserCopied
  <1>4. SavesUser(w)
    BY <1>1 DEF SavesUser, Saves, UserPages
  <1>5. fs \in SUBSET UserColumns /\ op[w].pc # "idle"
    BY <1>1 DEF UserColumns
  <1> HIDE DEF c, fs
  <1> QED BY <1>1, <1>2, <1>3, <1>4, <1>5, UserSavedKeeps

LEMMA PasswordSetKeeps ==
    ASSUME AccountsInv, NEW w \in Workers, PasswordSet(w), UNCHANGED call
    PROVE  AccountsInv'
  <1> SUFFICES ASSUME NEW u, u = op[w].who PROVE AccountsInv'
    OBVIOUS
  <1> DEFINE c == [op[w].user EXCEPT !.password = IF op[w].what = "update" THEN "new" ELSE op[w].arg]
             fs == {"password"}
  <1>1. /\ \/ op[w].pc = "loaded" /\ op[w].what = "password"
           \/ op[w].pc = "half" /\ op[w].what = "update"
        /\ op' = [op EXCEPT ![w] = NoOp]
        /\ Saved(c, u) /\ Decides(w, u, fs, c) /\ UNCHANGED ops
    BY DEF PasswordSet, Does
  <1>2. u \in Callers /\ op[w].user \in UserRow /\ op[w].pc # "idle"
        /\ (op[w].what = "update" \/ op[w].arg \in Passwords)
    BY <1>1 DEF AccountsInv, AccountsTyped, Open, Op
  <1>3. c \in UserRow /\ UserCopied(c, w, fs, c)
    BY <1>1, <1>2 DEF UserRow, UserColumns, Passwords, UserCopied
  <1>4. SavesUser(w)
    BY <1>1 DEF SavesUser, Saves, UserPages
  <1>5. fs \in SUBSET UserColumns
    BY DEF UserColumns
  <1> HIDE DEF c, fs
  <1> QED BY <1>1, <1>2, <1>3, <1>4, <1>5, UserSavedKeeps

LEMMA RoleSetKeeps ==
    ASSUME AccountsInv, NEW w \in Workers, RoleSet(w), UNCHANGED call
    PROVE  AccountsInv'
  <1> SUFFICES ASSUME NEW u, u = op[w].who PROVE AccountsInv'
    OBVIOUS
  <1> DEFINE c == [op[w].profile EXCEPT !.role = op[w].arg]
             fs == {"role"}
  <1>1. /\ op[w].pc = "loaded" /\ op[w].what \in {"role", "update", "create"}
        /\ ProfileSaved(c, u) /\ Decides(w, u, fs, c) /\ UNCHANGED ops
    BY DEF RoleSet
  <1>2. PICK o : /\ op' = [op EXCEPT ![w] = o]
                 /\ o = NoOp \/ (op[w].what = "update" /\ o = [op[w] EXCEPT !.pc = "half"])
    BY DEF RoleSet, Does
  <1>3. /\ AccountsTyped /\ u \in Callers /\ op[w] \in Op /\ Open(op[w]) /\ call[w].pc = "idle"
        /\ op[w].profile \in ProfileRow /\ op[w].arg \in Roles \cup {Null}
    BY <1>1 DEF AccountsInv, AccountsTyped, Open, Op
  <1>4. /\ o \in Op /\ Open(o) /\ (o.pc # "idle" => o.who = u)
    BY <1>1, <1>2, <1>3, NoOpIs DEF Open, Op
  <1>5. Leaves(w, fs, o)
    <2>1. CASE o = NoOp
      BY <2>1, NoOpIs DEF Leaves
    <2>2. CASE op[w].what = "update" /\ o = [op[w] EXCEPT !.pc = "half"]
      <3>1. o.pc = "half" /\ o.what = "update" /\ o.user = op[w].user /\ o.profile = op[w].profile
        BY <1>3, <2>2 DEF Op
      <3> QED BY <1>1, <2>2, <3>1 DEF Leaves, Saves, Column, UserColumns
    <2> QED BY <1>2, <2>1, <2>2
  <1>6. /\ profile[u] # Null /\ profile' = [profile EXCEPT ![u] = c] /\ UNCHANGED <<user, ids>>
        /\ ids' \in Nat /\ ids <= ids' /\ ops' \in 0 .. MaxOps
    BY <1>1, <1>3 DEF ProfileSaved, AccountsTyped
  <1>7. c \in ProfileRow' /\ o \in Op'
    <2>1. c \in ProfileRow
      BY <1>3 DEF ProfileRow
    <2> QED BY <1>3, <1>4, <1>6, <2>1, RowsGrow DEF AccountsTyped
  <1>8. fs \in SUBSET {"role", "token"} /\ fs \in SUBSET Fields
    BY DEF Fields
  <1>9. DecisionsAre(w, u, fs, c) /\ DOMAIN decided' = Callers /\ suspect' \subseteq Callers \X Fields
    BY <1>1, <1>3, <1>8, DecidesMeans DEF AccountsTyped
  <1>10. ProfileCopied(c, w, u, fs, c)
    <2>1. c["token"] = op[w].profile["token"]
      BY <1>3 DEF ProfileRow
    <2>2. Saves(op[w], "token")
      BY <1>1 DEF Saves, UserColumns
    <2> QED BY <2>1, <2>2 DEF ProfileCopied
  <1> HIDE DEF c, fs
  <1> QED BY <1>1, <1>2, <1>3, <1>4, <1>5, <1>6, <1>7, <1>8, <1>9, <1>10, ProfileSavedKeeps

LEMMA TokenKeeps ==
    ASSUME AccountsInv, NEW w \in Workers, TokenGenerated(w) \/ TokenRevoked(w), UNCHANGED call
    PROVE  AccountsInv'
  <1> SUFFICES ASSUME NEW u, u = op[w].who PROVE AccountsInv'
    OBVIOUS
  <1> DEFINE fs == {"token"}
  <1>1. PICK t : /\ (t = ids + 1 /\ ids' = ids + 1) \/ (t = Null /\ ids' = ids)
                 /\ op[w].pc = "loaded" /\ profile[u] # Null
                 /\ profile' = [profile EXCEPT ![u] = [profile[u] EXCEPT !.token = t]]
                 /\ Decides(w, u, fs, [profile[u] EXCEPT !.token = t])
                 /\ op' = [op EXCEPT ![w] = NoOp] /\ UNCHANGED <<user, ops>>
    BY DEF TokenGenerated, TokenRevoked, TokenSaved, ProfileSaved, Does
  <1> DEFINE c == [profile[u] EXCEPT !.token = t]
  <1>2. AccountsTyped /\ u \in Callers /\ profile[u] \in ProfileRow /\ ids \in Nat /\ ids' \in Nat /\ ids <= ids'
    BY <1>1 DEF AccountsInv, AccountsTyped, Open
  <1>3. c \in ProfileRow'
    <2>1. t \in Ids' \cup {Null} /\ Ids \subseteq Ids'
      BY <1>1, <1>2 DEF Ids
    <2> QED BY <1>2, <2>1 DEF ProfileRow
  <1>4. NoOp \in Op' /\ Leaves(w, fs, NoOp) /\ ops' \in 0 .. MaxOps
    BY <1>1, <1>2, NoOpIs, RowsGrow DEF Leaves, AccountsTyped
  <1>5. ProfileCopied(c, w, u, fs, c)
    BY <1>2 DEF ProfileRow, ProfileCopied
  <1>6. fs \in SUBSET {"role", "token"} /\ fs \in SUBSET Fields
    BY DEF Fields
  <1> HIDE DEF c, fs
  <1>7. DecisionsAre(w, u, fs, c) /\ DOMAIN decided' = Callers /\ suspect' \subseteq Callers \X Fields
    BY <1>1, <1>2, <1>6, DecidesMeans DEF AccountsTyped, c, fs
  <1>8. profile' = [profile EXCEPT ![u] = c]
    BY <1>1 DEF c
  <1> QED BY <1>1, <1>2, <1>3, <1>4, <1>5, <1>6, <1>7, <1>8, NoOpIs, ProfileSavedKeeps

\* The rows of u are inserted, and worker w goes on with a copy of them.
LEMMA InsertedKeeps ==
    ASSUME AccountsInv, NEW w \in Workers, NEW u \in Callers, NEW password \in Passwords, Inserted(w, u, password),
           NEW o, op' = [op EXCEPT ![w] = o], o \in Op', Open(o), o.pc = "idle" \/ call[w].pc = "idle",
           o.who = u, o.user = user'[u], o.profile = profile'[u], ops' \in 0 .. MaxOps, UNCHANGED call
    PROVE  AccountsInv'
  <1> DEFINE p == NewUser(ids + 1, TRUE, password)
             q == NewProfile(ids + 1)
             d == [exists |-> TRUE, active |-> TRUE, password |-> password, role |-> Null, token |-> Null]
  <1>1. /\ user' = [user EXCEPT ![u] = p] /\ profile' = [profile EXCEPT ![u] = q]
        /\ Decides(w, u, Fields, d) /\ ids' = ids + 1
    BY DEF Inserted
  <1>2. AccountsTyped /\ ids' \in Nat /\ ids <= ids'
    BY <1>1 DEF AccountsInv, AccountsTyped
  <1>3. user'[u] = p /\ profile'[u] = q /\ \A x \in Callers \ {u} : user'[x] = user[x] /\ profile'[x] = profile[x]
    BY <1>1, <1>2 DEF AccountsTyped
  <1>4. p \in UserRow' /\ q \in ProfileRow'
    BY <1>1, <1>2 DEF UserRow, ProfileRow, Ids, NewUser, NewProfile
  <1>5. p # Null /\ q # Null
    BY <1>2, <1>4, RowsGrow DEF AccountsTyped
  <1>6. d["exists"] = TRUE /\ "exists" \in Fields /\ Fields \in SUBSET Fields
    BY DEF Fields
  <1>7. \A f \in Columns : IF f \in UserColumns THEN p[f] = d[f] ELSE q[f] = d[f] /\ f \in {"role", "token"}
    <2>1. /\ p["active"] = d["active"] /\ p["password"] = d["password"]
          /\ q["role"] = d["role"] /\ q["token"] = d["token"]
      BY DEF NewUser, NewProfile
    <2> HIDE DEF p, q, d
    <2> QED BY <2>1 DEF Columns, Fields, UserColumns
  <1> HIDE DEF p, q, d
  <1>8. DOMAIN decided' = Callers /\ suspect' \subseteq Callers \X Fields /\ DecisionsAre(w, u, Fields, d)
    BY <1>1, <1>2, <1>6, DecidesMeans DEF AccountsTyped
  <1>9. AccountsTyped'
    <2>1. \A x \in Callers : decided'[x]["exists"] \in BOOLEAN
      <3>1. \A x \in Callers : decided'[x]["exists"] = IF x = u THEN d["exists"] ELSE decided[x]["exists"]
        BY <1>6, <1>8 DEF DecisionsAre
      <3> QED BY <1>2, <1>6, <3>1 DEF AccountsTyped
    <2> QED BY <1>1, <1>2, <1>4, <1>5, <1>8, <2>1, AccountMoves
  <1>10. \A f \in Columns : Value(u, f)' = d[f] /\ Column(o, f) = d[f]
    <2> SUFFICES ASSUME NEW f \in Columns PROVE Value(u, f)' = d[f] /\ Column(o, f) = d[f]
      OBVIOUS
    <2>1. CASE f \in UserColumns
      BY <1>3, <1>7, <2>1 DEF Value, Column, UserColumns
    <2>2. CASE f \notin UserColumns
      BY <1>3, <1>7, <2>2 DEF Value, Column
    <2> QED BY <2>1, <2>2
  <1>11. /\ (user'[u] # Null) = d["exists"] /\ (user'[u] = Null => \A f \in Fields : ~Saves(o, f))
         /\ user'[u] # Null => /\ Fields = Fields
                               /\ \A f \in Columns : Value(u, f)' = d[f] /\ (Saves(o, f) => Column(o, f) = d[f])
    BY <1>3, <1>5, <1>6, <1>10
  <1>12. DecisionsKept' /\ \A v \in Workers : Agrees(op[v])'
    BY <1>3, <1>6, <1>8, <1>11, RowsReplaced
  <1> QED BY <1>9, <1>12 DEF AccountsInv

LEMMA UserCreatedKeeps ==
    ASSUME AccountsInv, NEW w \in Workers, NEW u \in Callers, NEW role \in Roles \cup {Null},
           UserCreated(w, u, role), UNCHANGED call
    PROVE  AccountsInv'
  <1> SUFFICES ASSUME NEW p, NEW q, p = user'[u], q = profile'[u] PROVE AccountsInv'
    OBVIOUS
  <1> DEFINE o == [pc |-> "loaded", what |-> "create", who |-> u, user |-> p, profile |-> q, arg |-> role, n |-> 0]
  <1>1. /\ op' = [op EXCEPT ![w] = o] /\ Inserted(w, u, "old") /\ call[w].pc = "idle"
        /\ ops < MaxOps /\ ops' = ops + 1
    BY DEF UserCreated, Does, Free
  <1>2. AccountsTyped /\ ops' \in 0 .. MaxOps /\ "old" \in Passwords
    BY <1>1 DEF AccountsInv, AccountsTyped, Passwords
  <1>3. p \in UserRow' /\ q \in ProfileRow' /\ p # Null /\ q # Null
    <2>1. p = NewUser(ids + 1, TRUE, "old") /\ q = NewProfile(ids + 1) /\ ids' = ids + 1
      BY <1>1, <1>2 DEF Inserted, AccountsTyped
    <2>2. p \in UserRow' /\ q \in ProfileRow' /\ ids' \in Nat /\ ids <= ids'
      BY <1>2, <2>1 DEF AccountsTyped, UserRow, ProfileRow, Ids, NewUser, NewProfile
    <2> QED BY <1>2, <2>2, RowsGrow DEF AccountsTyped
  <1>4. o \in Op' /\ Open(o)
    BY <1>3 DEF Op, Open
  <1>5. o.who = u /\ o.user = user'[u] /\ o.profile = profile'[u]
    OBVIOUS
  <1> HIDE DEF o
  <1> QED BY <1>1, <1>2, <1>4, <1>5, InsertedKeeps

LEMMA AccountsMove ==
    ASSUME AccountsInv, NEW w \in Workers, AccountsNext(w), UNCHANGED call
    PROVE  AccountsInv'
  BY PageOpenedKeeps, UserCreatedKeeps, UserSwitchedKeeps, PasswordSetKeeps, RoleSetKeeps, TokenKeeps,
     UserDeletedKeeps, PageEndedKeeps DEF AccountsNext
-----------------------------------------------------------------------------
(* The invariant of the sign-in *)

SigninTyped ==
    /\ attempts \in [Counters -> (Nat \ {0}) \cup {Null}] /\ locked \subseteq Counters
    /\ failures \in [Counters -> Nat] /\ overlapped \subseteq Counters

\* Request o is about a failure that counter k does not count yet: the address
\* comes after the user.
FailsAt(o, k) ==
    \/ o.pc \in {"counting", "counted"} /\ (o.arg = k \/ k = Address)
    \/ o.pc = "locking" /\ o.arg # k /\ k = Address

Failing(k) == {w \in Workers : FailsAt(op[w], k)}
Failures(k) == IF attempts[k] = Null THEN 0 ELSE attempts[k]

\* What counter k counts, with the failures it does not count yet, is covered by
\* failures since the last success; so is what a worker is about to write, and a
\* lock that is set or about to be.
Covered(k) ==
    /\ Failures(k) + Cardinality(Failing(k)) <= failures[k]
    /\ k \in locked => AttemptsOf(k) <= failures[k]
    /\ \A w \in Workers :
         /\ op[w].pc = "counted" /\ op[w].arg = k => op[w].n + Cardinality(Failing(k)) <= failures[k]
         /\ op[w].pc = "locking" /\ op[w].arg = k => AttemptsOf(k) <= failures[k]

SigninInv == SigninTyped /\ \A k \in Counters \ overlapped : Covered(k)

LEMMA FailingIsFinite == \A k : IsFiniteSet(Failing(k)) /\ Cardinality(Failing(k)) \in Nat
  BY FS_Subset, FS_CardinalityType DEF Failing

\* One worker goes on: the failures that counter k does not count yet.
LEMMA FailingMoves ==
    ASSUME NEW w \in Workers, NEW o, op \in [Workers -> Op], op' = [op EXCEPT ![w] = o], NEW k
    PROVE  /\ Cardinality(Failing(k))' \in Nat
           /\ FailsAt(op[w], k) => Cardinality(Failing(k)) > 0
           /\ FailsAt(o, k) /\ ~FailsAt(op[w], k) => Cardinality(Failing(k))' = Cardinality(Failing(k)) + 1
           /\ ~FailsAt(o, k) /\ FailsAt(op[w], k) => Cardinality(Failing(k))' = Cardinality(Failing(k)) - 1
           /\ (FailsAt(o, k) <=> FailsAt(op[w], k)) => Cardinality(Failing(k))' = Cardinality(Failing(k))
  <1> DEFINE F == Failing(k)
  <1>1. F' = IF FailsAt(o, k) THEN F \cup {w} ELSE F \ {w}
    BY DEF Failing, FailsAt
  <1>2. IsFiniteSet(F) /\ Cardinality(F) \in Nat /\ (w \in F <=> FailsAt(op[w], k))
    BY FailingIsFinite DEF Failing
  <1> HIDE DEF F
  <1>3. Cardinality(F \cup {w}) = IF w \in F THEN Cardinality(F) ELSE Cardinality(F) + 1
    BY <1>2, FS_AddElement
  <1>4. Cardinality(F \ {w}) = IF w \in F THEN Cardinality(F) - 1 ELSE Cardinality(F)
    BY <1>2, FS_RemoveElement
  <1>5. w \in F => Cardinality(F) > 0
    BY <1>2, FS_EmptySet
  <1>6. /\ Cardinality(F)' \in Nat
        /\ FailsAt(op[w], k) => Cardinality(F) > 0
        /\ FailsAt(o, k) /\ ~FailsAt(op[w], k) => Cardinality(F)' = Cardinality(F) + 1
        /\ ~FailsAt(o, k) /\ FailsAt(op[w], k) => Cardinality(F)' = Cardinality(F) - 1
        /\ (FailsAt(o, k) <=> FailsAt(op[w], k)) => Cardinality(F)' = Cardinality(F)
    BY <1>1, <1>2, <1>3, <1>4, <1>5
  <1> QED BY <1>6 DEF F

LEMMA AttemptsAre == \A k : AttemptsOf(k) \in Nat \ {0}
  BY DEF AttemptsOf

LEMMA FailuresAre == SigninTyped => \A k \in Counters : Failures(k) \in Nat /\ failures[k] \in Nat
  BY DEF SigninTyped, Failures

\* Counter k is covered after a step of worker w if it is where w leaves it, and
\* the step left the others' room.
LEMMA CoveredMoves ==
    ASSUME SigninTyped, SigninTyped', op \in [Workers -> Op], NEW w \in Workers, NEW o, op' = [op EXCEPT ![w] = o],
           o.n \in Nat, NEW k \in Counters, Covered(k),
           failures[k] <= failures'[k],
           Cardinality(Failing(k))' + Failures(k)' <= failures'[k],
           Cardinality(Failing(k))' + failures[k] <= Cardinality(Failing(k)) + failures'[k],
           k \in locked' => k \in locked \/ AttemptsOf(k) <= failures'[k],
           o.pc = "counted" /\ o.arg = k => o.n + Cardinality(Failing(k))' <= failures'[k],
           o.pc = "locking" /\ o.arg = k => AttemptsOf(k) <= failures'[k]
    PROVE  Covered(k)'
  <1>1. \A v \in Workers : op'[v] = IF v = w THEN o ELSE op[v]
    OBVIOUS
  <1>2. \A v \in Workers : op[v].n \in Nat
    BY DEF Op
  <1>3. failures[k] \in Nat /\ failures'[k] \in Nat /\ Failures(k)' \in Nat
    BY DEF SigninTyped, Failures
  <1>4. Cardinality(Failing(k)) \in Nat /\ Cardinality(Failing(k))' \in Nat
    BY FailingIsFinite, FailingMoves
  <1>5. AttemptsOf(k) \in Nat
    BY AttemptsAre
  <1> DEFINE n == Cardinality(Failing(k))
             m == AttemptsOf(k)
  <1>6. Failures(k)' + Cardinality(Failing(k))' <= failures'[k]
    BY <1>3, <1>4
  <1>7. k \in locked' => m <= failures'[k]
    BY <1>3, <1>5 DEF Covered
  <1>8. ASSUME NEW v \in Workers
        PROVE  /\ op'[v].pc = "counted" /\ op'[v].arg = k => op'[v].n + Cardinality(Failing(k))' <= failures'[k]
               /\ op'[v].pc = "locking" /\ op'[v].arg = k => m <= failures'[k]
    <2>1. CASE v = w
      BY <1>1, <2>1
    <2>2. CASE v # w
      <3>1. /\ op[v].pc = "counted" /\ op[v].arg = k => op[v].n + n <= failures[k]
            /\ op[v].pc = "locking" /\ op[v].arg = k => m <= failures[k]
        BY DEF Covered
      <3> HIDE DEF n, m
      <3> QED BY <1>1, <1>2, <1>3, <1>4, <1>5, <2>2, <3>1 DEF n, m
    <2> QED BY <2>1, <2>2
  <1> QED BY <1>6, <1>7, <1>8 DEF Covered, AttemptsOf
-----------------------------------------------------------------------------
(* Steps of the sign-in *)

\* A worker that has nothing to count goes on.
LEMMA CalmMoves ==
    ASSUME AccountsTyped, SigninInv, NEW w \in Workers, NEW o, op' = [op EXCEPT ![w] = o], o.n \in Nat,
           o.pc \in {"idle", "loaded", "half", "checking", "clearing"}, UNCHANGED signin
    PROVE  SigninInv'
  <1>1. SigninTyped /\ SigninTyped' /\ UNCHANGED <<attempts, locked, failures, overlapped>>
    BY DEF SigninInv, SigninTyped, signin
  <1>2. op \in [Workers -> Op]
    BY DEF AccountsTyped
  <1>3. ASSUME NEW k \in Counters \ overlapped PROVE Covered(k)'
    <2>1. Covered(k)
      BY DEF SigninInv
    <2>2. ~FailsAt(o, k)
      BY DEF FailsAt
    <2>3. /\ Cardinality(Failing(k))' <= Cardinality(Failing(k))
          /\ Cardinality(Failing(k))' \in Nat /\ Cardinality(Failing(k)) \in Nat
      <3>1. Cardinality(Failing(k))' \in Nat /\ Cardinality(Failing(k)) \in Nat
        BY <1>2, FailingMoves, FailingIsFinite
      <3>2. CASE FailsAt(op[w], k)
        <4>1. Cardinality(Failing(k))' = Cardinality(Failing(k)) - 1
          BY <1>2, <2>2, <3>2, FailingMoves
        <4> QED BY <3>1, <4>1
      <3>3. CASE ~FailsAt(op[w], k)
        <4>1. Cardinality(Failing(k))' = Cardinality(Failing(k))
          BY <1>2, <2>2, <3>3, FailingMoves
        <4> QED BY <3>1, <4>1
      <3> QED BY <3>1, <3>2, <3>3
    <2>4. Failures(k)' = Failures(k) /\ Failures(k) \in Nat /\ failures[k] \in Nat
      BY <1>1, FailuresAre DEF Failures
    <2>5. Failures(k) + Cardinality(Failing(k)) <= failures[k]
      BY <2>1 DEF Covered
    <2>6. /\ failures[k] <= failures'[k] /\ (k \in locked' => k \in locked)
          /\ Cardinality(Failing(k))' + Failures(k)' <= failures'[k]
          /\ Cardinality(Failing(k))' + failures[k] <= Cardinality(Failing(k)) + failures'[k]
      BY <1>1, <2>3, <2>4, <2>5
    <2> QED BY <1>1, <1>2, <2>1, <2>6, CoveredMoves
  <1> QED BY <1>1, <1>3 DEF SigninInv

\* A sign-in fails: a failure of the user and one of the address.
LEMMA FailsMoves ==
    ASSUME AccountsTyped, SigninInv, NEW w \in Workers, NEW u \in Callers, op[w].pc \in {"checking", "loaded"},
           NEW o, op' = [op EXCEPT ![w] = o], o.n \in Nat, o.pc = "counting", o.arg = u,
           failures' = [k \in Counters |-> IF k \in {u, Address} THEN failures[k] + 1 ELSE failures[k]],
           UNCHANGED <<attempts, locked, overlapped>>
    PROVE  SigninInv'
  <1>1. SigninTyped /\ SigninTyped'
    BY DEF SigninInv, SigninTyped
  <1>2. op \in [Workers -> Op]
    BY DEF AccountsTyped
  <1>3. ASSUME NEW k \in Counters \ overlapped PROVE Covered(k)'
    <2>1. Covered(k)
      BY DEF SigninInv
    <2>2. ~FailsAt(op[w], k) /\ (FailsAt(o, k) <=> k \in {u, Address})
      BY DEF FailsAt
    <2>3. Cardinality(Failing(k))' = Cardinality(Failing(k)) + (IF k \in {u, Address} THEN 1 ELSE 0)
          /\ Cardinality(Failing(k)) \in Nat
      <3>1. Cardinality(Failing(k)) \in Nat
        BY FailingIsFinite
      <3>2. CASE k \in {u, Address}
        <4>1. Cardinality(Failing(k))' = Cardinality(Failing(k)) + 1
          BY <1>2, <2>2, <3>2, FailingMoves
        <4> QED BY <3>1, <3>2, <4>1
      <3>3. CASE k \notin {u, Address}
        <4>1. Cardinality(Failing(k))' = Cardinality(Failing(k))
          BY <1>2, <2>2, <3>3, FailingMoves
        <4> QED BY <3>1, <3>3, <4>1
      <3> QED BY <3>2, <3>3
    <2>4. Failures(k)' = Failures(k) /\ Failures(k) \in Nat /\ failures[k] \in Nat
          /\ failures'[k] = failures[k] + (IF k \in {u, Address} THEN 1 ELSE 0)
      BY <1>1, FailuresAre DEF Failures, SigninTyped
    <2>5. Failures(k) + Cardinality(Failing(k)) <= failures[k]
      BY <2>1 DEF Covered
    <2>6. /\ failures[k] <= failures'[k] /\ (k \in locked' => k \in locked)
          /\ Cardinality(Failing(k))' + Failures(k)' <= failures'[k]
          /\ Cardinality(Failing(k))' + failures[k] <= Cardinality(Failing(k)) + failures'[k]
      <3>1. CASE k \in {u, Address}
        BY <1>1, <2>3, <2>4, <2>5, <3>1
      <3>2. CASE k \notin {u, Address}
        BY <1>1, <2>3, <2>4, <2>5, <3>2
      <3> QED BY <3>1, <3>2
    <2> QED BY <1>1, <1>2, <2>1, <2>6, CoveredMoves
  <1> QED BY <1>1, <1>3 DEF SigninInv

\* A worker writes a count that its failures cover.
LEMMA CountsMoves ==
    ASSUME AccountsTyped, SigninInv, NEW w \in Workers, op[w].pc \in {"counting", "counted"},
           NEW n \in Nat \ {0}, Counts(w, n),
           op[w].arg \notin overlapped => n + Cardinality(Failing(op[w].arg)) <= failures[op[w].arg] + 1
    PROVE  SigninInv'
  <1> SUFFICES ASSUME NEW c, c = op[w].arg PROVE SigninInv'
    OBVIOUS
  <1>1. op \in [Workers -> Op] /\ c \in Counters
    BY DEF AccountsTyped, Open, Counters
  <1>2. PICK o : /\ op' = [op EXCEPT ![w] = o] /\ o.n \in Nat
                 /\ \/ o.pc = "locking" /\ o.arg = c /\ n >= AttemptsOf(c)
                    \/ o.pc = "idle" /\ c = Address
                    \/ o.pc = "counting" /\ o.arg = Address /\ c # Address
    <2> DEFINE lock == [op[w] EXCEPT !.pc = "locking"]
               next == [op[w] EXCEPT !.pc = "counting", !.arg = Address, !.n = 0]
    <2>1. op[w] \in Op
      BY <1>1
    <2>2. /\ lock.pc = "locking" /\ lock.arg = c /\ lock.n \in Nat
          /\ next.pc = "counting" /\ next.arg = Address /\ next.n \in Nat
          /\ NoOp.pc = "idle" /\ NoOp.n \in Nat
      BY <2>1 DEF Op, NoOp
    <2>3. \/ n >= AttemptsOf(c) /\ op' = [op EXCEPT ![w] = lock]
          \/ c = Address /\ op' = [op EXCEPT ![w] = NoOp]
          \/ c # Address /\ op' = [op EXCEPT ![w] = next]
      BY DEF Counts, Does
    <2> HIDE DEF lock, next
    <2> QED BY <2>2, <2>3
  <1>3. attempts' = [attempts EXCEPT ![c] = n] /\ UNCHANGED <<locked, failures, overlapped>>
    BY DEF Counts
  <1>4. SigninTyped /\ SigninTyped'
    BY <1>1, <1>3 DEF SigninInv, SigninTyped
  <1>5. ASSUME NEW k \in Counters \ overlapped PROVE Covered(k)'
    <2>1. Covered(k)
      BY DEF SigninInv
    <2>2. FailsAt(o, k) <=> k = Address /\ c # Address
      BY <1>2 DEF FailsAt
    <2>3. FailsAt(op[w], k) <=> k = c \/ k = Address
      BY DEF FailsAt
    <2>4. /\ Cardinality(Failing(k)) \in Nat /\ Cardinality(Failing(k))' \in Nat
          /\ Cardinality(Failing(k))' = IF k = c THEN Cardinality(Failing(k)) - 1 ELSE Cardinality(Failing(k))
          /\ k = c => Cardinality(Failing(k)) > 0
      BY <1>1, <1>2, <2>2, <2>3, FailingMoves, FailingIsFinite
    <2>5. Failures(k)' = (IF k = c THEN n ELSE Failures(k)) /\ Failures(k) \in Nat /\ failures[k] \in Nat
      BY <1>3, <1>4, FailuresAre DEF Failures, SigninTyped
    <2>6. Failures(k) + Cardinality(Failing(k)) <= failures[k]
          /\ (k = c => n + Cardinality(Failing(k)) <= failures[k] + 1)
      BY <2>1 DEF Covered
    <2>7. /\ failures[k] <= failures'[k] /\ (k \in locked' => k \in locked)
          /\ Cardinality(Failing(k))' + Failures(k)' <= failures'[k]
          /\ Cardinality(Failing(k))' + failures[k] <= Cardinality(Failing(k)) + failures'[k]
          /\ k = c => n <= failures[k]
      <3>1. CASE k = c
        BY <1>3, <2>4, <2>5, <2>6, <3>1
      <3>2. CASE k # c
        BY <1>3, <2>4, <2>5, <2>6, <3>2
      <3> QED BY <3>1, <3>2
    <2>8. o.pc = "locking" /\ o.arg = k => AttemptsOf(k) <= failures'[k]
      BY <1>2, <1>3, <2>5, <2>7, AttemptsAre
    <2>9. o.pc # "counted"
      BY <1>2
    <2> QED BY <1>1, <1>2, <1>4, <2>1, <2>7, <2>8, <2>9, CoveredMoves
  <1> QED BY <1>3, <1>4, <1>5 DEF SigninInv

\* The failures of counter k that are not counted yet, after a step that leaves
\* worker w as it was for this counter.
LEMMA FailingStays ==
    ASSUME NEW w \in Workers, NEW o, op \in [Workers -> Op], op' = [op EXCEPT ![w] = o], NEW k,
           FailsAt(o, k) <=> FailsAt(op[w], k)
    PROVE  Cardinality(Failing(k))' = Cardinality(Failing(k)) /\ Cardinality(Failing(k)) \in Nat
  BY FailingMoves, FailingIsFinite

LEMMA FailureReadMoves ==
    ASSUME AccountsTyped, SigninInv, NEW w \in Workers, FailureRead(w)
    PROVE  SigninInv'
  <1> SUFFICES ASSUME NEW c, c = op[w].arg PROVE SigninInv'
    OBVIOUS
  <1> DEFINE o == [op[w] EXCEPT !.pc = "counted", !.n = attempts[c]]
  <1>1. /\ op[w].pc = "counting" /\ attempts[c] # Null /\ op' = [op EXCEPT ![w] = o]
        /\ UNCHANGED <<attempts, locked, failures, overlapped>>
    BY DEF FailureRead, Does, signin
  <1>2. op \in [Workers -> Op] /\ op[w] \in Op /\ c \in Counters
    BY <1>1 DEF AccountsTyped, Open, Counters
  <1>3. SigninTyped /\ SigninTyped'
    BY <1>1 DEF SigninInv, SigninTyped
  <1>4. o.pc = "counted" /\ o.arg = c /\ o.n = attempts[c] /\ attempts[c] \in Nat
    BY <1>1, <1>2, <1>3 DEF Op, SigninTyped
  <1> HIDE DEF o
  <1>5. ASSUME NEW k \in Counters \ overlapped PROVE Covered(k)'
    <2>1. Covered(k)
      BY DEF SigninInv
    <2>2. FailsAt(o, k) <=> FailsAt(op[w], k)
      BY <1>1, <1>4 DEF FailsAt
    <2>3. Cardinality(Failing(k))' = Cardinality(Failing(k)) /\ Cardinality(Failing(k)) \in Nat
      BY <1>1, <1>2, <2>2, FailingStays
    <2>4. /\ Failures(k)' = Failures(k) /\ Failures(k) \in Nat /\ failures[k] \in Nat /\ failures'[k] = failures[k]
          /\ k = c => attempts[k] = Failures(k)
      BY <1>1, <1>3, FailuresAre DEF Failures
    <2>5. Failures(k) + Cardinality(Failing(k)) <= failures[k]
      BY <2>1 DEF Covered
    <2>6. /\ failures[k] <= failures'[k] /\ (k \in locked' => k \in locked)
          /\ Cardinality(Failing(k))' + Failures(k)' <= failures'[k]
          /\ Cardinality(Failing(k))' + failures[k] <= Cardinality(Failing(k)) + failures'[k]
      BY <1>1, <2>3, <2>4, <2>5
    <2>7. o.pc = "counted" /\ o.arg = k => o.n + Cardinality(Failing(k))' <= failures'[k]
      BY <1>4, <2>3, <2>4, <2>5
    <2> QED BY <1>1, <1>2, <1>3, <1>4, <2>1, <2>6, <2>7, CoveredMoves
  <1> QED BY <1>1, <1>3, <1>5 DEF SigninInv

LEMMA LockSetMoves ==
    ASSUME AccountsTyped, SigninInv, NEW w \in Workers, LockSet(w)
    PROVE  SigninInv'
  <1> SUFFICES ASSUME NEW c, c = op[w].arg PROVE SigninInv'
    OBVIOUS
  <1> DEFINE o == IF c = Address THEN NoOp ELSE [op[w] EXCEPT !.pc = "counting", !.arg = Address, !.n = 0]
  <1>1. /\ op[w].pc = "locking" /\ op' = [op EXCEPT ![w] = o]
        /\ locked' = locked \cup {c} /\ UNCHANGED <<attempts, failures, overlapped>>
    BY DEF LockSet, Does
  <1>2. op \in [Workers -> Op] /\ op[w] \in Op /\ c \in Counters
    BY <1>1 DEF AccountsTyped, Open, Counters
  <1>3. SigninTyped /\ SigninTyped'
    BY <1>1, <1>2 DEF SigninInv, SigninTyped
  <1>4. o.n \in Nat /\ IF c = Address THEN o.pc = "idle" ELSE o.pc = "counting" /\ o.arg = Address
    BY <1>2 DEF Op, NoOp
  <1> HIDE DEF o
  <1>5. ASSUME NEW k \in Counters \ overlapped PROVE Covered(k)'
    <2>1. Covered(k)
      BY DEF SigninInv
    <2>2. FailsAt(o, k) <=> FailsAt(op[w], k)
      BY <1>1, <1>4 DEF FailsAt
    <2>3. Cardinality(Failing(k))' = Cardinality(Failing(k)) /\ Cardinality(Failing(k)) \in Nat
      BY <1>1, <1>2, <2>2, FailingStays
    <2>4. Failures(k)' = Failures(k) /\ Failures(k) \in Nat /\ failures[k] \in Nat /\ failures'[k] = failures[k]
      BY <1>1, <1>3, FailuresAre DEF Failures
    <2>5. Failures(k) + Cardinality(Failing(k)) <= failures[k]
      BY <2>1 DEF Covered
    <2>6. /\ failures[k] <= failures'[k]
          /\ Cardinality(Failing(k))' + Failures(k)' <= failures'[k]
          /\ Cardinality(Failing(k))' + failures[k] <= Cardinality(Failing(k)) + failures'[k]
      BY <1>1, <2>3, <2>4, <2>5
    <2>7. k \in locked' => k \in locked \/ AttemptsOf(k) <= failures'[k]
      BY <1>1, <2>1, <2>4 DEF Covered
    <2>8. o.pc \notin {"counted", "locking"}
      BY <1>4
    <2> QED BY <1>1, <1>2, <1>3, <1>4, <2>1, <2>6, <2>7, <2>8, CoveredMoves
  <1> QED BY <1>1, <1>3, <1>5 DEF SigninInv

LEMMA ClearedMoves ==
    ASSUME AccountsTyped, SigninInv, NEW w \in Workers, Cleared(w)
    PROVE  SigninInv'
  <1> SUFFICES ASSUME NEW c, c = op[w].arg PROVE SigninInv'
    OBVIOUS
  <1> DEFINE o == IF c = Address THEN NoOp ELSE [op[w] EXCEPT !.arg = Address]
  <1>1. /\ op[w].pc = "clearing" /\ op' = [op EXCEPT ![w] = o]
        /\ attempts' = [attempts EXCEPT ![c] = Null] /\ locked' = locked \ {c} /\ failures' = [failures EXCEPT ![c] = 0]
        /\ overlapped' = IF \E v \in Workers : Counting(v, c) THEN overlapped \cup {c} ELSE overlapped \ {c}
    BY DEF Cleared, Turns, Forgotten, Does
  <1>2. op \in [Workers -> Op] /\ op[w] \in Op /\ c \in Counters
    BY <1>1 DEF AccountsTyped, Open, Counters
  <1>3. SigninTyped /\ SigninTyped'
    BY <1>1, <1>2 DEF SigninInv, SigninTyped
  <1>4. o.n \in Nat /\ o.pc \in {"idle", "clearing"}
    BY <1>1, <1>2 DEF Op, NoOp
  <1> HIDE DEF o
  <1>5. \A v \in Workers : op'[v] = IF v = w THEN o ELSE op[v]
    BY <1>1, <1>2
  <1>6. ASSUME NEW k \in Counters \ overlapped' PROVE Covered(k)'
    <2>1. CASE k = c
      <3>1. \A v \in Workers : ~Counting(v, c)
        BY <1>1, <2>1
      <3>2. \A v \in Workers : ~(op'[v].pc \in {"counting", "counted", "locking"} /\ (op'[v].arg = k \/ k = Address))
        BY <1>4, <1>5, <2>1, <3>1 DEF Counting
      <3>3. Failing(k)' = {}
        BY <3>2 DEF Failing, FailsAt
      <3>4. Cardinality(Failing(k))' = 0
        BY <3>3, FS_EmptySet
      <3>5. Failures(k)' = 0 /\ failures'[k] = 0 /\ k \notin locked'
        BY <1>1, <1>3, <2>1 DEF Failures, SigninTyped
      <3> QED BY <3>2, <3>4, <3>5 DEF Covered
    <2>2. CASE k # c
      <3>1. k \notin overlapped
        BY <1>1, <2>2
      <3>2. Covered(k)
        BY <3>1 DEF SigninInv
      <3>3. FailsAt(o, k) <=> FailsAt(op[w], k)
        BY <1>1, <1>4 DEF FailsAt
      <3>4. Cardinality(Failing(k))' = Cardinality(Failing(k)) /\ Cardinality(Failing(k)) \in Nat
        BY <1>1, <1>2, <3>3, FailingStays
      <3>5. Failures(k)' = Failures(k) /\ Failures(k) \in Nat /\ failures[k] \in Nat /\ failures'[k] = failures[k]
        BY <1>1, <1>3, <2>2, FailuresAre DEF Failures, SigninTyped
      <3>6. Failures(k) + Cardinality(Failing(k)) <= failures[k]
        BY <3>2 DEF Covered
      <3>7. /\ failures[k] <= failures'[k] /\ (k \in locked' => k \in locked)
            /\ Cardinality(Failing(k))' + Failures(k)' <= failures'[k]
            /\ Cardinality(Failing(k))' + failures[k] <= Cardinality(Failing(k)) + failures'[k]
        BY <1>1, <3>4, <3>5, <3>6
      <3> QED BY <1>1, <1>2, <1>3, <1>4, <3>2, <3>7, CoveredMoves
    <2> QED BY <2>1, <2>2
  <1> QED BY <1>3, <1>6 DEF SigninInv

LEMMA ExpiryMoves ==
    ASSUME SigninInv, NEW c \in Counters, AttemptsExpired(c) \/ LockExpired(c)
    PROVE  SigninInv'
  <1>1. /\ attempts' = [attempts EXCEPT ![c] = Null] \/ attempts' = attempts
        /\ locked' \subseteq locked /\ UNCHANGED <<op, failures, overlapped>>
    BY DEF AttemptsExpired, LockExpired, accounts
  <1>2. SigninTyped /\ SigninTyped'
    BY <1>1 DEF SigninInv, SigninTyped
  <1>3. ASSUME NEW k \in Counters \ overlapped PROVE Covered(k)'
    <2>1. Covered(k)
      BY DEF SigninInv
    <2>2. Failing(k)' = Failing(k)
      BY <1>1 DEF Failing, FailsAt
    <2>3. Failures(k)' <= Failures(k) /\ Failures(k)' \in Nat /\ Failures(k) \in Nat
          /\ failures[k] \in Nat /\ Cardinality(Failing(k)) \in Nat
      BY <1>1, <1>2, FailingIsFinite DEF Failures, SigninTyped
    <2>4. Failures(k)' + Cardinality(Failing(k)) <= failures[k]
      BY <2>1, <2>3 DEF Covered
    <2> QED BY <1>1, <2>1, <2>2, <2>4 DEF Covered, AttemptsOf
  <1> QED BY <1>1, <1>2, <1>3 DEF SigninInv
-----------------------------------------------------------------------------
(* Steps of both *)

\* A worker that has no copy left to save goes on with its sign-in.
LEMMA OpTurns ==
    ASSUME AccountsInv, NEW w \in Workers, NEW o \in Op, op' = [op EXCEPT ![w] = o], Open(o),
           o.pc \notin {"loaded", "half"}, o.pc = "idle" \/ call[w].pc = "idle", ops' \in 0 .. MaxOps,
           UNCHANGED <<user, profile, decided, suspect, ids, call>>
    PROVE  AccountsInv'
  <1>1. \A f \in Fields : ~Saves(o, f)
    BY DEF Saves, Op
  <1> QED BY <1>1, SavesNothing, WorkerMoves

LEMMA SignInBeganKeeps ==
    ASSUME AccountsInv, SigninInv, NEW w \in Workers, NEW u \in Callers, SignInBegan(w, u), UNCHANGED call
    PROVE  AccountsInv' /\ SigninInv'
  <1> DEFINE o == [NoOp EXCEPT !.pc = "checking", !.what = "signin", !.who = u]
  <1>1. /\ op' = [op EXCEPT ![w] = o] /\ call[w].pc = "idle" /\ ops < MaxOps /\ ops' = ops + 1
        /\ UNCHANGED <<user, profile, decided, suspect, ids, signin>>
    BY DEF SignInBegan, Does, Free
  <1>2. o \in Op /\ Open(o) /\ o.pc = "checking" /\ o.n \in Nat
    BY DEF NoOp, Op, Open
  <1>3. AccountsTyped /\ ops' \in 0 .. MaxOps
    BY <1>1 DEF AccountsInv, AccountsTyped
  <1> HIDE DEF o
  <1>4. AccountsInv'
    BY <1>1, <1>2, <1>3, OpTurns
  <1>5. SigninInv'
    BY <1>1, <1>2, <1>3, CalmMoves
  <1> QED BY <1>4, <1>5

\* The password is right, or it is wrong: what the request goes on with.
LEMMA Outcomes ==
    ASSUME AccountsTyped, NEW w \in Workers, op[w].pc \in {"checking", "loaded"}, op[w].what = "signin",
           NEW pc \in {"clearing", "counting"}, NEW o,
           o = [op[w] EXCEPT !.pc = pc, !.user = Null, !.profile = Null, !.arg = op[w].who]
    PROVE  o \in Op /\ Open(o) /\ o.pc = pc /\ o.arg = op[w].who /\ o.n \in Nat /\ o.who = op[w].who
           /\ o.what = "signin" /\ o.arg \in Callers
  <1>1. op[w] \in Op /\ op[w].who \in Callers
    BY DEF AccountsTyped, Open
  <1>2. o \in Op /\ o.pc = pc /\ o.arg = op[w].who /\ o.who = op[w].who /\ o.what = "signin" /\ o.n \in Nat
    BY <1>1 DEF Op, Counters
  <1> QED BY <1>1, <1>2 DEF Open

LEMMA LocalCheckedKeeps ==
    ASSUME AccountsInv, SigninInv, NEW w \in Workers, LocalChecked(w), UNCHANGED call
    PROVE  AccountsInv' /\ SigninInv'
  <1>1. /\ op[w].pc = "checking" /\ AccountsTyped /\ ops' \in 0 .. MaxOps /\ op[w].what = "signin" /\ call[w].pc = "idle"
        /\ UNCHANGED <<user, profile, decided, suspect, ids>>
    BY DEF LocalChecked, AccountsInv, AccountsTyped, Open
  <1>2. CASE Knows(w) /\ UNCHANGED signin
    <2> DEFINE o == [op[w] EXCEPT !.pc = "clearing", !.user = Null, !.profile = Null, !.arg = op[w].who]
    <2>1. op' = [op EXCEPT ![w] = o]
      BY <1>2 DEF Knows, Does
    <2>2. o \in Op /\ Open(o) /\ o.pc = "clearing" /\ o.n \in Nat
      BY <1>1, Outcomes
    <2> HIDE DEF o
    <2> QED BY <1>1, <1>2, <2>1, <2>2, OpTurns, CalmMoves
  <1>3. CASE Fails(w) /\ UNCHANGED <<attempts, locked, overlapped>>
    <2> DEFINE o == [op[w] EXCEPT !.pc = "counting", !.user = Null, !.profile = Null, !.arg = op[w].who]
    <2>1. op' = [op EXCEPT ![w] = o]
          /\ failures' = [k \in Counters |-> IF k \in {op[w].who, Address} THEN failures[k] + 1 ELSE failures[k]]
      BY <1>3 DEF Fails, Does
    <2>2. o \in Op /\ Open(o) /\ o.pc = "counting" /\ o.n \in Nat /\ o.arg = op[w].who /\ op[w].who \in Callers
      BY <1>1, Outcomes
    <2> HIDE DEF o
    <2> QED BY <1>1, <1>3, <2>1, <2>2, OpTurns, FailsMoves
  <1> QED BY <1>2, <1>3 DEF LocalChecked

LEMMA DirectoryFailedKeeps ==
    ASSUME AccountsInv, SigninInv, NEW w \in Workers, DirectoryFailed(w), UNCHANGED call
    PROVE  AccountsInv' /\ SigninInv'
  <1> DEFINE o == [op[w] EXCEPT !.pc = "checking", !.user = Null, !.profile = Null]
  <1>1. /\ op[w].pc = "loaded" /\ op[w].what = "signin" /\ AccountsTyped /\ ops' \in 0 .. MaxOps /\ call[w].pc = "idle"
        /\ op' = [op EXCEPT ![w] = o] /\ UNCHANGED <<user, profile, decided, suspect, ids, signin>>
        /\ op[w] \in Op /\ op[w].who \in Callers
    BY DEF DirectoryFailed, Does, AccountsInv, AccountsTyped, Open
  <1>2. o \in Op /\ Open(o) /\ o.pc = "checking" /\ o.n \in Nat
    BY <1>1 DEF Op, Open
  <1> HIDE DEF o
  <1> QED BY <1>1, <1>2, OpTurns, CalmMoves

LEMMA CountingKeeps ==
    ASSUME AccountsInv, SigninInv, NEW w \in Workers, FirstFailure(w) \/ FailureCounted(w), UNCHANGED call
    PROVE  AccountsInv' /\ SigninInv'
  <1> SUFFICES ASSUME NEW c, c = op[w].arg PROVE AccountsInv' /\ SigninInv'
    OBVIOUS
  <1>1. /\ AccountsTyped /\ SigninTyped /\ op[w].pc \in {"counting", "counted"} /\ op[w] \in Op /\ Open(op[w])
        /\ call[w].pc = "idle" /\ c \in Counters
    BY DEF AccountsInv, SigninInv, AccountsTyped, FirstFailure, FailureCounted, Open, Counters
  <1>2. PICK n \in Nat \ {0} : Counts(w, n) /\ (c \notin overlapped => n + Cardinality(Failing(c)) <= failures[c] + 1)
    <2>1. CASE FirstFailure(w)
      <3>1. Counts(w, 1) /\ Failures(c) = 0
        BY <2>1 DEF FirstFailure, Failures
      <3>2. c \notin overlapped => 0 + Cardinality(Failing(c)) <= failures[c]
        BY <1>1, <3>1 DEF SigninInv, Covered
      <3>3. failures[c] \in Nat /\ Cardinality(Failing(c)) \in Nat
        BY <1>1, FailingIsFinite DEF SigninTyped
      <3>4. c \notin overlapped => 1 + Cardinality(Failing(c)) <= failures[c] + 1
        BY <3>2, <3>3
      <3> QED BY <3>1, <3>4
    <2>2. CASE FailureCounted(w)
      <3>1. Counts(w, op[w].n + 1) /\ op[w].pc = "counted" /\ op[w].n \in Nat
        BY <1>1, <2>2 DEF FailureCounted, Op
      <3>2. c \notin overlapped => op[w].n + Cardinality(Failing(c)) <= failures[c]
        BY <1>1, <3>1 DEF SigninInv, Covered
      <3>3. failures[c] \in Nat /\ Cardinality(Failing(c)) \in Nat
        BY <1>1, FailingIsFinite DEF SigninTyped
      <3>4. c \notin overlapped => op[w].n + 1 + Cardinality(Failing(c)) <= failures[c] + 1
        BY <3>1, <3>2, <3>3
      <3>5. op[w].n + 1 \in Nat \ {0}
        BY <3>1
      <3> QED BY <3>1, <3>4, <3>5
    <2> QED BY <2>1, <2>2
  <1>3. SigninInv'
    BY <1>1, <1>2, CountsMoves
  <1>4. AccountsInv'
    <2> DEFINE lock == [op[w] EXCEPT !.pc = "locking"]
               next == [op[w] EXCEPT !.pc = "counting", !.arg = Address, !.n = 0]
    <2>1. /\ lock \in Op /\ Open(lock) /\ lock.pc = "locking"
          /\ next \in Op /\ Open(next) /\ next.pc = "counting"
      BY <1>1 DEF Op, Open, Counters
    <2>2. op' = [op EXCEPT ![w] = lock] \/ op' = [op EXCEPT ![w] = NoOp] \/ op' = [op EXCEPT ![w] = next]
      BY <1>2 DEF Counts, Does
    <2>3. UNCHANGED <<user, profile, decided, suspect, ids>> /\ ops' \in 0 .. MaxOps
      BY <1>1, <1>2 DEF Counts, AccountsTyped
    <2> HIDE DEF lock, next
    <2>4. CASE op' = [op EXCEPT ![w] = lock]
      BY <1>1, <2>1, <2>3, <2>4, OpTurns
    <2>5. CASE op' = [op EXCEPT ![w] = NoOp]
      BY <1>1, <2>3, <2>5, NoOpIs, OpTurns
    <2>6. CASE op' = [op EXCEPT ![w] = next]
      BY <1>1, <2>1, <2>3, <2>6, OpTurns
    <2> QED BY <2>2, <2>4, <2>5, <2>6
  <1> QED BY <1>3, <1>4

LEMMA CountersTurn ==
    ASSUME AccountsInv, SigninInv, NEW w \in Workers, FailureRead(w) \/ LockSet(w) \/ Cleared(w), UNCHANGED call
    PROVE  AccountsInv'
  <1>1. /\ AccountsTyped /\ SigninTyped /\ op[w].pc \in {"counting", "locking", "clearing"} /\ op[w] \in Op /\ Open(op[w])
        /\ call[w].pc = "idle" /\ op[w].arg \in Counters /\ ops' \in 0 .. MaxOps
        /\ UNCHANGED <<user, profile, decided, suspect, ids>>
    BY DEF AccountsInv, SigninInv, AccountsTyped, FailureRead, LockSet, Cleared, Open, Counters
  <1>2. PICK o : op' = [op EXCEPT ![w] = o] /\ \/ FailureRead(w) /\ o = [op[w] EXCEPT !.pc = "counted", !.n = attempts[op[w].arg]]
                                               \/ o = NoOp
                                               \/ o = [op[w] EXCEPT !.pc = "counting", !.arg = Address, !.n = 0]
                                               \/ Cleared(w) /\ o = [op[w] EXCEPT !.arg = Address]
    BY DEF FailureRead, LockSet, Cleared, Turns, Does
  <1>3. o \in Op /\ Open(o) /\ o.pc \notin {"loaded", "half"}
    <2>1. CASE FailureRead(w) /\ o = [op[w] EXCEPT !.pc = "counted", !.n = attempts[op[w].arg]]
      <3>1. attempts[op[w].arg] \in Nat
        BY <1>1, <2>1 DEF FailureRead, SigninTyped
      <3> QED BY <1>1, <2>1, <3>1 DEF Op, Open, FailureRead
    <2>2. CASE o = NoOp
      BY <2>2, NoOpIs
    <2>3. CASE o = [op[w] EXCEPT !.pc = "counting", !.arg = Address, !.n = 0]
      BY <1>1, <2>3 DEF Op, Open, Counters
    <2>4. CASE Cleared(w) /\ o = [op[w] EXCEPT !.arg = Address]
      BY <1>1, <2>4 DEF Op, Open, Counters, Cleared
    <2> QED BY <1>2, <2>1, <2>2, <2>3, <2>4
  <1> QED BY <1>1, <1>2, <1>3, OpTurns

LEMMA DirectoryCheckedKeeps ==
    ASSUME AccountsInv, SigninInv, NEW w \in Workers, DirectoryChecked(w), UNCHANGED call
    PROVE  AccountsInv' /\ SigninInv'
  <1> SUFFICES ASSUME NEW u, u = op[w].who, NEW p, NEW q, p = user'[u], q = profile'[u]
               PROVE  AccountsInv' /\ SigninInv'
    OBVIOUS
  <1> DEFINE o == [op[w] EXCEPT !.pc = "loaded", !.user = p, !.profile = q]
  <1>1. /\ op[w].pc = "checking" /\ op' = [op EXCEPT ![w] = o] /\ UNCHANGED <<ops, signin>>
        /\ \/ Inserted(w, u, "old")
           \/ user[u] # Null /\ UNCHANGED <<user, profile, decided, suspect, ids>>
    BY DEF DirectoryChecked, Does
  <1>2. /\ AccountsTyped /\ u \in Callers /\ op[w] \in Op /\ Open(op[w]) /\ op[w].what = "signin"
        /\ call[w].pc = "idle" /\ ops' \in 0 .. MaxOps /\ "old" \in Passwords
    BY <1>1 DEF AccountsInv, AccountsTyped, Open, Passwords
  <1>3. p \in UserRow' /\ q \in ProfileRow' /\ p # Null /\ q # Null /\ Op \subseteq Op'
    <2>1. CASE Inserted(w, u, "old")
      <3>1. p = NewUser(ids + 1, TRUE, "old") /\ q = NewProfile(ids + 1) /\ ids' = ids + 1
        BY <1>2, <2>1 DEF Inserted, AccountsTyped
      <3>2. p \in UserRow' /\ q \in ProfileRow' /\ ids' \in Nat /\ ids <= ids'
        BY <1>2, <3>1 DEF AccountsTyped, UserRow, ProfileRow, Ids, NewUser, NewProfile
      <3> QED BY <1>2, <3>2, RowsGrow DEF AccountsTyped
    <2>2. CASE user[u] # Null /\ UNCHANGED <<user, profile, decided, suspect, ids>>
      <3>1. ids' \in Nat /\ ids <= ids' /\ ids \in Nat
        BY <1>2, <2>2 DEF AccountsTyped
      <3>2. p \in UserRow /\ q \in ProfileRow
        BY <1>2, <2>2 DEF AccountsTyped
      <3> QED BY <3>1, <3>2, RowsGrow
    <2> QED BY <1>1, <2>1, <2>2
  <1>4. /\ o.pc = "loaded" /\ o.who = u /\ o.user = p /\ o.profile = q /\ o.what = "signin" /\ o.n \in Nat /\ o.arg = op[w].arg
        /\ o \in Op'
    <2>1. op[w] \in Op'
      BY <1>2, <1>3
    <2> QED BY <1>2, <1>3, <2>1 DEF Op
  <1>5. Open(o)
    BY <1>2, <1>3, <1>4 DEF Open
  <1> HIDE DEF o
  <1>6. SigninInv'
    BY <1>1, <1>2, <1>4, CalmMoves
  <1>7. AccountsInv'
    <2>1. CASE Inserted(w, u, "old")
      BY <1>1, <1>2, <1>4, <1>5, <2>1, InsertedKeeps
    <2>2. CASE user[u] # Null /\ UNCHANGED <<user, profile, decided, suspect, ids>>
      <3>1. o \in Op
        BY <1>4, <2>2 DEF Op, UserRow, ProfileRow, Ids
      <3>2. Agrees(o)
        <4> SUFFICES ASSUME <<u, "exists">> \notin suspect, NEW f \in Columns, <<u, f>> \notin suspect
                     PROVE  Column(o, f) = decided[u][f]
          BY <1>4, <2>2 DEF Agrees
        <4>1. Value(u, f) = decided[u][f]
          BY <1>2, <2>2 DEF AccountsInv, DecisionsKept, Columns
        <4>2. Column(o, f) = Value(u, f)
          BY <1>4, <2>2 DEF Column, Value, Columns, Fields, UserColumns
        <4> QED BY <4>1, <4>2
      <3> QED BY <1>1, <1>2, <1>5, <2>2, <3>1, <3>2, WorkerMoves
    <2> QED BY <1>1, <2>1, <2>2
  <1> QED BY <1>6, <1>7

\* The profile the sign-in loaded is saved, with or without a new role.
LEMMA DirectorySavedKeeps ==
    ASSUME AccountsInv, SigninInv, NEW w \in Workers, DirectorySaved(w), UNCHANGED call
    PROVE  AccountsInv' /\ SigninInv'
  <1> SUFFICES ASSUME NEW u, u = op[w].who PROVE AccountsInv' /\ SigninInv'
    OBVIOUS
  <1>1. /\ op[w].pc = "loaded" /\ op[w].what = "signin" /\ UNCHANGED ops
        /\ AccountsTyped /\ u \in Callers /\ op[w] \in Op /\ call[w].pc = "idle"
        /\ op[w].profile \in ProfileRow /\ ops' \in 0 .. MaxOps
    BY DEF DirectorySaved, AccountsInv, AccountsTyped, Open, Op
  <1>2. PICK c, fs : /\ ProfileSaved(c, u) /\ c \in ProfileRow /\ fs \in SUBSET {"role", "token"} /\ fs \in SUBSET Fields
                     /\ c["token"] = op[w].profile["token"] /\ "token" \notin fs
                     /\ c["role"] = op[w].profile["role"] \/ "role" \in fs
                     /\ DecisionsAre(w, u, fs, c) /\ DOMAIN decided' = Callers /\ suspect' \subseteq Callers \X Fields
    <2>1. CASE ProfileSaved(op[w].profile, u) /\ UNCHANGED <<decided, suspect>>
      <3>1. DecisionsAre(w, u, {}, op[w].profile)
        BY <2>1 DEF DecisionsAre
      <3> QED BY <1>1, <2>1, <3>1 DEF AccountsTyped
    <2>2. ASSUME NEW role \in Roles,
                 ProfileSaved([op[w].profile EXCEPT !.role = role], u),
                 Decides(w, u, {"role"}, [op[w].profile EXCEPT !.role = role])
          PROVE  \E c, fs : /\ ProfileSaved(c, u) /\ c \in ProfileRow /\ fs \in SUBSET {"role", "token"} /\ fs \in SUBSET Fields
                            /\ c["token"] = op[w].profile["token"] /\ "token" \notin fs
                            /\ c["role"] = op[w].profile["role"] \/ "role" \in fs
                            /\ DecisionsAre(w, u, fs, c) /\ DOMAIN decided' = Callers /\ suspect' \subseteq Callers \X Fields
      <3> DEFINE c == [op[w].profile EXCEPT !.role = role]
                 fs == {"role"}
      <3>1. c \in ProfileRow /\ c["token"] = op[w].profile["token"]
        BY <1>1 DEF ProfileRow
      <3>2. fs \in SUBSET {"role", "token"} /\ fs \in SUBSET Fields /\ "token" \notin fs /\ "role" \in fs
        BY DEF Fields
      <3>3. ProfileSaved(c, u) /\ Decides(w, u, fs, c)
        BY <2>2
      <3> HIDE DEF c, fs
      <3>4. DecisionsAre(w, u, fs, c) /\ DOMAIN decided' = Callers /\ suspect' \subseteq Callers \X Fields
        BY <1>1, <3>2, <3>3, DecidesMeans DEF AccountsTyped
      <3> QED BY <3>1, <3>2, <3>3, <3>4
    <2> QED BY <2>1, <2>2 DEF DirectorySaved
  <1>3. /\ profile[u] # Null /\ profile' = [profile EXCEPT ![u] = c] /\ UNCHANGED <<user, ids>>
        /\ ids' \in Nat /\ ids <= ids' /\ c \in ProfileRow' /\ Op \subseteq Op'
    <2>1. profile[u] # Null /\ profile' = [profile EXCEPT ![u] = c] /\ UNCHANGED <<user, ids>> /\ ids' \in Nat /\ ids <= ids'
      BY <1>1, <1>2 DEF ProfileSaved, AccountsTyped
    <2>2. ProfileRow \subseteq ProfileRow' /\ Op \subseteq Op'
      BY <1>1, <2>1, RowsGrow DEF AccountsTyped
    <2> QED BY <1>2, <2>1, <2>2
  <1>4. ProfileCopied(c, w, u, fs, c)
    <2>1. Saves(op[w], "role") /\ Saves(op[w], "token")
      BY <1>1 DEF Saves, UserColumns
    <2> QED BY <1>2, <2>1 DEF ProfileCopied
  <1>5. PICK o :
          /\ op' = [op EXCEPT ![w] = o] /\ o \in Op /\ Open(o) /\ o.pc \in {"clearing", "counting"}
          /\ o.n \in Nat /\ o.arg = u /\ o.who = u
          /\ o.pc = "clearing" => UNCHANGED signin
          /\ o.pc = "counting" =>
               /\ UNCHANGED <<attempts, locked, overlapped>>
               /\ failures' = [k \in Counters |-> IF k \in {u, Address} THEN failures[k] + 1 ELSE failures[k]]
    <2>1. CASE Knows(w) /\ UNCHANGED signin
      <3> DEFINE o == [op[w] EXCEPT !.pc = "clearing", !.user = Null, !.profile = Null, !.arg = op[w].who]
      <3>1. op' = [op EXCEPT ![w] = o]
        BY <2>1 DEF Knows, Does
      <3>2. o \in Op /\ Open(o) /\ o.pc = "clearing" /\ o.n \in Nat /\ o.arg = u /\ o.who = u
        BY <1>1, Outcomes
      <3> HIDE DEF o
      <3> QED BY <2>1, <3>1, <3>2
    <2>2. CASE Fails(w) /\ UNCHANGED <<attempts, locked, overlapped>>
      <3> DEFINE o == [op[w] EXCEPT !.pc = "counting", !.user = Null, !.profile = Null, !.arg = op[w].who]
      <3>1. op' = [op EXCEPT ![w] = o]
            /\ failures' = [k \in Counters |-> IF k \in {u, Address} THEN failures[k] + 1 ELSE failures[k]]
        BY <2>2 DEF Fails, Does
      <3>2. o \in Op /\ Open(o) /\ o.pc = "counting" /\ o.n \in Nat /\ o.arg = u /\ o.who = u
        BY <1>1, Outcomes
      <3> HIDE DEF o
      <3> QED BY <2>2, <3>1, <3>2
    <2> QED BY <2>1, <2>2 DEF DirectorySaved
  <1>6. Leaves(w, fs, o)
    BY <1>5 DEF Leaves, Saves
  <1>7. AccountsInv'
    BY <1>1, <1>2, <1>3, <1>4, <1>5, <1>6, ProfileSavedKeeps
  <1>8. SigninInv'
    <2>1. CASE o.pc = "clearing"
      BY <1>1, <1>5, <2>1, CalmMoves
    <2>2. CASE o.pc = "counting"
      BY <1>1, <1>5, <2>2, FailsMoves
    <2> QED BY <1>5, <2>1, <2>2
  <1> QED BY <1>7, <1>8

LEMMA AccountsStay ==
    ASSUME AccountsInv, UNCHANGED <<user, profile, op, decided, suspect, ids, ops>>,
           \A v \in Workers : call'[v].pc = "idle" \/ op[v].pc = "idle"
    PROVE  AccountsInv'
  <1>1. UserRow' = UserRow /\ ProfileRow' = ProfileRow
    BY DEF UserRow, ProfileRow, Ids
  <1>2. Op' = Op
    BY <1>1 DEF Op
  <1>3. AccountsTyped'
    BY <1>1, <1>2 DEF AccountsInv, AccountsTyped, Open
  <1>4. DecisionsKept'
    BY DEF AccountsInv, DecisionsKept, Value
  <1>5. \A w \in Workers : Agrees(op[w])'
    BY DEF AccountsInv, Agrees, Saves, Column
  <1> QED BY <1>3, <1>4, <1>5 DEF AccountsInv

\* A call moves on: the accounts stay, and no worker does two things at once.
LEMMA CallKeeps ==
    ASSUME TrafficInv, AccountsInv, SigninInv, UNCHANGED <<accounts, signin>>,
           \/ UNCHANGED call
           \/ \E w \in Workers : \/ Free(w) /\ (ListCalled(w) \/ \E u \in Callers : CallBegan(w, u))
                                 \/ Answering(w)
    PROVE  AccountsInv' /\ SigninInv'
  <1>1. UNCHANGED <<user, profile, op, decided, suspect, ids, ops, attempts, locked, failures, overlapped>>
    BY DEF accounts, signin
  <1>2. \A v \in Workers : call'[v].pc = "idle" \/ op[v].pc = "idle"
    <2>1. \A v \in Workers : call[v].pc = "idle" \/ op[v].pc = "idle"
      BY DEF AccountsInv, AccountsTyped
    <2>2. ASSUME NEW w \in Workers, op[w].pc = "idle", \A v \in Workers \ {w} : call'[v] = call[v]
          PROVE  \A v \in Workers : call'[v].pc = "idle" \/ op[v].pc = "idle"
      BY <2>1, <2>2
    <2>3. ASSUME NEW w \in Workers, ListCalled(w) \/ (\E u \in Callers : CallBegan(w, u)) \/ Answering(w)
          PROVE  \A v \in Workers \ {w} : call'[v] = call[v]
      <3>1. DOMAIN call = Workers
        BY DEF TrafficInv, TrafficTyped
      <3>2. \A k : Becomes(w, k) => \A v \in Workers \ {w} : call'[v] = call[v]
        BY <3>1 DEF Becomes
      <3>3. \E k : Becomes(w, k)
        <4>1. ListCalled(w) => \E k : Becomes(w, k)
          BY DEF ListCalled
        <4>2. (\E u \in Callers : CallBegan(w, u)) => \E k : Becomes(w, k)
          BY DEF CallBegan
        <4>3. CounterRead(w) => \E k : Becomes(w, k)
          BY DEF CounterRead
        <4>4. CounterSet(w) => \E k : Becomes(w, k)
          BY DEF CounterSet
        <4>5. Refused(w) \/ Served(w) => \E k : Becomes(w, k)
          BY DEF Refused, Served
        <4> QED BY <2>3, <4>1, <4>2, <4>3, <4>4, <4>5 DEF Answering
      <3> QED BY <3>2, <3>3
    <2>4. ASSUME NEW w \in Workers, Answering(w) PROVE call[w].pc # "idle"
      BY <2>4 DEF Answering, CounterRead, CounterSet, Refused, Served
    <2> QED BY <2>1, <2>2, <2>3, <2>4 DEF Free
  <1>3. AccountsInv'
    BY <1>1, <1>2, AccountsStay
  <1>4. SigninInv'
    BY <1>1 DEF SigninInv, SigninTyped, Covered, Failures, Failing, FailsAt, AttemptsOf
  <1> QED BY <1>3, <1>4

LEMMA AccessStarts == Init => AccountsInv /\ SigninInv
  <1> SUFFICES ASSUME Init PROVE AccountsInv /\ SigninInv
    OBVIOUS
  <1>1. \A w \in Workers : op[w] = NoOp /\ call[w] = NoCall
    BY DEF Init, TrafficInit, AccountsInit
  <1>2. AccountsTyped
    <2>1. ids = 0 /\ ops = 0 /\ suspect = {} /\ op \in [Workers -> Op]
      BY NoOpIs DEF Init, AccountsInit
    <2>2. user \in [Callers -> UserRow] /\ profile \in [Callers -> ProfileRow]
      BY <2>1 DEF Init, AccountsInit, NewUser, UserRow, ProfileRow, Ids, Passwords
    <2>3. Null \notin UserRow /\ Null \notin ProfileRow
      BY <2>1 DEF UserRow, ProfileRow, Ids
    <2>4. DOMAIN decided = Callers /\ \A u \in Callers : decided[u]["exists"] \in BOOLEAN
      BY DEF Init, AccountsInit
    <2> QED BY <1>1, <2>1, <2>2, <2>3, <2>4, NoOpIs, NoCallIs DEF AccountsTyped
  <1>3. DecisionsKept
    <2> SUFFICES ASSUME NEW u \in Callers
                 PROVE  /\ (user[u] # Null) = decided[u]["exists"]
                        /\ \A f \in Columns : Value(u, f) = decided[u][f]
      BY DEF DecisionsKept, Columns
    <2>1. user[u] # Null
      BY <1>2 DEF AccountsTyped, Init, AccountsInit, NewUser
    <2>2. decided[u]["exists"] = TRUE
      BY DEF Init, AccountsInit
    <2>3. /\ user[u]["active"] = decided[u]["active"] /\ user[u]["password"] = decided[u]["password"]
          /\ profile[u]["role"] = decided[u]["role"] /\ profile[u]["token"] = decided[u]["token"]
      BY DEF Init, AccountsInit, NewUser
    <2>4. \A f \in Columns : Value(u, f) = decided[u][f]
      BY <2>3 DEF Value, Columns, Fields, UserColumns
    <2> QED BY <2>1, <2>2, <2>4
  <1>4. \A w \in Workers : Agrees(op[w])
    BY <1>1, NoOpIs DEF Agrees
  <1>5. SigninTyped
    BY DEF Init, SigninTyped
  <1>6. ASSUME NEW k \in Counters PROVE Covered(k)
    <2>1. Failing(k) = {}
      BY <1>1, NoOpIs DEF Failing, FailsAt
    <2>2. Failures(k) = 0 /\ failures[k] = 0 /\ k \notin locked
      BY DEF Init, Failures
    <2> QED BY <1>1, <2>1, <2>2, NoOpIs, FS_EmptySet DEF Covered
  <1> QED BY <1>2, <1>3, <1>4, <1>5, <1>6 DEF AccountsInv, SigninInv

LEMMA AccessMoves ==
    ASSUME TrafficInv, AccountsInv, SigninInv, [Next]_vars
    PROVE  AccountsInv' /\ SigninInv'
  <1>1. CASE UNCHANGED vars
    BY <1>1, CallKeeps DEF vars, traffic
  <1>2. ASSUME NEW w \in Workers, UNCHANGED <<accounts, signin>>,
               \/ \E u \in Callers : CallAdmitted(w, u)
               \/ Free(w) /\ ListCalled(w)
               \/ Answering(w)
        PROVE  AccountsInv' /\ SigninInv'
    BY <1>2, CallKeeps DEF CallAdmitted
  <1>3. ASSUME NEW w \in Workers, UNCHANGED traffic, UNCHANGED signin, AccountsNext(w)
        PROVE  AccountsInv' /\ SigninInv'
    <2>1. UNCHANGED call /\ AccountsTyped
      BY <1>3 DEF traffic, AccountsInv
    <2>2. AccountsInv'
      BY <1>3, <2>1, AccountsMove
    <2>3. \E o : op' = [op EXCEPT ![w] = o] /\ o.n \in Nat /\ o.pc \in {"idle", "loaded", "half"}
      <3>1. NoOp.n \in Nat /\ NoOp.pc = "idle"
        BY DEF NoOp
      <3>2. ASSUME NEW u \in Callers, NEW what \in Pages, NEW arg \in Args(what), PageOpened(w, what, u, arg)
            PROVE  \E o : op' = [op EXCEPT ![w] = o] /\ o.n \in Nat /\ o.pc \in {"idle", "loaded", "half"}
        <4> DEFINE o == [pc |-> "loaded", what |-> what, who |-> u, user |-> user[u], profile |-> profile[u],
                         arg |-> arg, n |-> 0]
        <4>1. op' = [op EXCEPT ![w] = o]
          BY <3>2 DEF PageOpened, Does
        <4>2. o.n \in Nat /\ o.pc = "loaded"
          OBVIOUS
        <4> HIDE DEF o
        <4> QED BY <4>1, <4>2
      <3>3. ASSUME NEW u \in Callers, NEW role \in Roles \cup {Null}, UserCreated(w, u, role)
            PROVE  \E o : op' = [op EXCEPT ![w] = o] /\ o.n \in Nat /\ o.pc \in {"idle", "loaded", "half"}
        <4> SUFFICES ASSUME NEW p, NEW q, p = user'[u], q = profile'[u]
                     PROVE  \E o : op' = [op EXCEPT ![w] = o] /\ o.n \in Nat /\ o.pc \in {"idle", "loaded", "half"}
          OBVIOUS
        <4> DEFINE o == [pc |-> "loaded", what |-> "create", who |-> u, user |-> p, profile |-> q, arg |-> role, n |-> 0]
        <4>1. op' = [op EXCEPT ![w] = o]
          BY <3>3 DEF UserCreated, Does
        <4>2. o.n \in Nat /\ o.pc = "loaded"
          OBVIOUS
        <4> HIDE DEF o
        <4> QED BY <4>1, <4>2
      <3>4. CASE Does(w, NoOp)
        BY <3>1, <3>4 DEF Does
      <3>5. CASE RoleSet(w)
        <4>1. op[w] \in Op
          BY <2>1 DEF AccountsTyped
        <4>2. [op[w] EXCEPT !.pc = "half"].n \in Nat /\ [op[w] EXCEPT !.pc = "half"].pc = "half"
          BY <4>1 DEF Op
        <4> QED BY <3>1, <3>5, <4>2 DEF RoleSet, Does
      <3> QED BY <1>3, <3>2, <3>3, <3>4, <3>5 DEF AccountsNext, UserSwitched, PasswordSet, TokenGenerated, TokenRevoked,
                                                  UserDeleted, PageEnded
    <2>4. SigninInv'
      BY <1>3, <2>1, <2>3, CalmMoves
    <2> QED BY <2>2, <2>4
  <1>4. ASSUME NEW w \in Workers, UNCHANGED traffic, SigningIn(w) \/ \E u \in Callers : SignInBegan(w, u)
        PROVE  AccountsInv' /\ SigninInv'
    <2>1. UNCHANGED call /\ AccountsTyped
      BY <1>4 DEF traffic, AccountsInv
    <2>2. CASE FailureRead(w) \/ LockSet(w) \/ Cleared(w)
      BY <2>1, <2>2, CountersTurn, FailureReadMoves, LockSetMoves, ClearedMoves
    <2> QED BY <1>4, <2>1, <2>2, SignInBeganKeeps, LocalCheckedKeeps, DirectoryCheckedKeeps, DirectorySavedKeeps,
               DirectoryFailedKeeps, CountingKeeps DEF SigningIn
  <1>5. CASE Passing /\ UNCHANGED <<accounts, signin>>
    <2>1. UNCHANGED call
      BY <1>5 DEF Passing, Tick, EntryExpired
    <2> QED BY <1>5, <2>1, CallKeeps
  <1>6. ASSUME NEW k \in Counters, AttemptsExpired(k) \/ LockExpired(k), UNCHANGED traffic
        PROVE  AccountsInv' /\ SigninInv'
    <2>1. UNCHANGED <<user, profile, op, decided, suspect, ids, ops, call>>
      BY <1>6 DEF AttemptsExpired, LockExpired, accounts, traffic
    <2>2. AccountsInv'
      <3>1. \A v \in Workers : call'[v].pc = "idle" \/ op[v].pc = "idle"
        BY <2>1 DEF AccountsInv, AccountsTyped
      <3> QED BY <2>1, <3>1, AccountsStay
    <2> QED BY <1>6, <2>2, ExpiryMoves
  <1> QED BY <1>1, <1>2, <1>3, <1>4, <1>5, <1>6 DEF Next
-----------------------------------------------------------------------------
(* The theorems *)

\* In every reachable state the traffic, the accounts and the sign-in are as their
\* invariants say, whatever the workers do in which order.
THEOREM AccessInvariant == Spec => [](TrafficInv /\ AccountsInv /\ SigninInv)
  <1>1. Init => TrafficInv /\ AccountsInv /\ SigninInv
    BY TrafficStarts, AccessStarts DEF Init
  <1>2. (TrafficInv /\ AccountsInv /\ SigninInv) /\ [Next]_vars => (TrafficInv /\ AccountsInv /\ SigninInv)'
    BY TrafficMoves, AccessMoves
  <1> QED BY <1>1, <1>2, PTL DEF Spec

\* Counters, rows, copies and locks have their types; an account has both its rows
\* or none, and no worker answers a call and a page at once.
THEOREM AccessTyped == Spec => []TypeOK
  <1>1. TrafficInv /\ AccountsInv /\ SigninInv => TypeOK
    <2> SUFFICES ASSUME TrafficInv, AccountsInv, SigninInv PROVE TypeOK
      OBVIOUS
    <2>1. /\ now \in Time /\ calls \in 0 .. MaxCalls
          /\ \A k \in Counters : entry[k] # Null => entry[k].n \in Nat \ {0} /\ entry[k].start \in 0 .. now
      <3>1. /\ now \in Time /\ calls \in 0 .. MaxCalls /\ now \in Nat
            /\ entry \in [Counters -> Entry \cup {Null}]
            /\ \A k \in Counters : entry[k] # Null => entry[k].start <= now
        BY TimesAreNumbers DEF TrafficInv, TrafficTyped
      <3> QED BY <3>1 DEF Entry
    <2>2. /\ ops \in 0 .. MaxOps /\ ids \in Nat /\ suspect \subseteq Callers \X Fields
          /\ \A u \in Callers :
               /\ user[u] \in UserRow \cup {Null} /\ profile[u] \in ProfileRow \cup {Null}
               /\ user[u] = Null <=> profile[u] = Null
          /\ \A w \in Workers : call[w].pc = "idle" \/ op[w].pc = "idle"
      BY DEF AccountsInv, AccountsTyped
    <2>3. /\ locked \subseteq Counters /\ overlapped \subseteq Counters
          /\ \A k \in Counters : attempts[k] = Null \/ attempts[k] \in Nat \ {0}
      BY DEF SigninInv, SigninTyped
    <2> QED BY <2>1, <2>2, <2>3 DEF TypeOK
  <1> QED BY <1>1, AccessInvariant, PTL

\* An account is as it was last decided, column by column, whatever pages and
\* directory sign-ins are under way; only a whole row that was loaded before a
\* decision can undo it (accounts/views.py, models.py, backends.py).
THEOREM DecisionsStand == Spec => []DecisionsKept
  <1>1. AccountsInv => DecisionsKept
    BY DEF AccountsInv
  <1> QED BY <1>1, AccessInvariant, PTL

\* Nobody is locked before the limit of failures since the last success, however
\* the counting of failures interleaves (_record_failure, _clear_failures).
THEOREM LocksEarned == Spec => []LockEarned
  <1>1. SigninInv => LockEarned
    <2> SUFFICES ASSUME SigninInv, NEW k \in locked \ overlapped PROVE failures[k] >= AttemptsOf(k)
      BY DEF LockEarned
    <2>1. SigninTyped /\ k \in Counters \ overlapped
      BY DEF SigninInv, SigninTyped
    <2>2. AttemptsOf(k) <= failures[k]
      BY <2>1 DEF SigninInv, Covered
    <2> QED BY <2>1, <2>2, AttemptsAre, FailuresAre
  <1> QED BY <1>1, AccessInvariant, PTL

\* Every call that is let in is of an account last decided to exist, to be active,
\* to be an API user and to hold the token, unless an older copy was saved over
\* that decision (authenticate_token).
THEOREM CallsLetInByRight == Spec => CallsByRight
  <1> DEFINE ByRight(u) ==
        \A f \in Fields \ {"password"} :
           \/ <<u, f>> \in suspect \/ <<u, "exists">> \in suspect
           \/ decided[u][f] = CASE f \in {"exists", "active"} -> TRUE
                                [] f = "role" -> "api_user" [] f = "token" -> profile[u].token
             LetIn == \A w \in Workers, u \in Callers :
                         (call[w].pc = "idle" /\ call'[w].pc = "counting" /\ call'[w].who = u) => ByRight(u)
  <1>1. ASSUME AccountsInv, NEW u \in Callers, MayCall(u) PROVE ByRight(u)
    <2> SUFFICES ASSUME NEW f \in Fields \ {"password"}, <<u, f>> \notin suspect, <<u, "exists">> \notin suspect
                 PROVE  decided[u][f] = CASE f \in {"exists", "active"} -> TRUE
                                          [] f = "role" -> "api_user" [] f = "token" -> profile[u].token
      OBVIOUS
    <2>1. /\ user[u] # Null /\ user[u].active /\ profile[u].role = "api_user"
          /\ user[u] \in UserRow
      BY <1>1 DEF MayCall, AccountsInv, AccountsTyped
    <2>2. /\ (user[u] # Null) = decided[u]["exists"]
          /\ \A g \in Fields \ {"exists"} : <<u, g>> \in suspect \/ Value(u, g) = decided[u][g]
      BY <1>1, <2>1 DEF AccountsInv, DecisionsKept
    <2>3. CASE f = "exists"
      BY <2>1, <2>2, <2>3
    <2>4. CASE f = "active"
      <3>1. Value(u, "active") = decided[u]["active"]
        BY <2>2, <2>4
      <3>2. Value(u, "active") = TRUE
        BY <2>1 DEF Value, UserColumns, UserRow
      <3> QED BY <2>4, <3>1, <3>2
    <2>5. CASE f = "role"
      <3>1. Value(u, "role") = decided[u]["role"]
        BY <2>2, <2>5
      <3>2. Value(u, "role") = "api_user"
        BY <2>1 DEF Value, UserColumns
      <3> QED BY <2>5, <3>1, <3>2
    <2>6. CASE f = "token"
      <3>1. Value(u, "token") = decided[u]["token"]
        BY <2>2, <2>6
      <3>2. Value(u, "token") = profile[u].token
        BY DEF Value, UserColumns
      <3> QED BY <2>6, <3>1, <3>2
    <2> QED BY <2>3, <2>4, <2>5, <2>6 DEF Fields
  <1>2. TrafficInv /\ AccountsInv /\ [Next]_vars => [LetIn]_vars
    <2> SUFFICES ASSUME TrafficInv, AccountsInv, Next, NEW w \in Workers, NEW u \in Callers,
                        call[w].pc = "idle", call'[w].pc = "counting", call'[w].who = u
                 PROVE  ByRight(u)
      OBVIOUS
    <2>1. call \in [Workers -> Call]
      BY DEF TrafficInv, TrafficTyped
    <2>2. PICK v \in Workers : Answering(v) \/ ListCalled(v) \/ \E x \in Callers : CallAdmitted(v, x)
      BY DEF Next, Passing, Tick, EntryExpired, traffic
    <2>3. v = w
      BY <2>1, <2>2 DEF Answering, CounterRead, CounterSet, Refused, Served, ListCalled, CallAdmitted, CallBegan, Becomes
    <2>4. ~Answering(w)
      BY DEF Answering, CounterRead, CounterSet, Refused, Served
    <2>5. ~ListCalled(w)
      BY <2>1, NoCallIs DEF ListCalled, Becomes, NoCall
    <2>6. PICK x \in Callers : CallAdmitted(w, x)
      BY <2>2, <2>3, <2>4, <2>5
    <2>7. x = u
      BY <2>1, <2>6 DEF CallAdmitted, CallBegan, Becomes, NoCall
    <2>8. MayCall(u)
      BY <2>6, <2>7 DEF CallAdmitted
    <2> HIDE DEF ByRight
    <2> QED BY <1>1, <2>8
  <1> QED BY <1>2, AccessInvariant, PTL DEF Spec, CallsByRight
===============================================================================
