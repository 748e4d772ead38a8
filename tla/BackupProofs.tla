---------------------------- MODULE BackupProofs ----------------------------
(***************************************************************************)
(* Proofs about Backup for any number of callers: a call left alone keeps   *)
(* its promise (AloneKept), and calls that prune each other's files leave a *)
(* backup as long as the limit has room (BackupsRemain).                    *)
(***************************************************************************)
EXTENDS BackupProps, FiniteSetTheorems, SequenceTheorems, TLAPS

File == [name : Nat, day : Nat, whole : BOOLEAN, open : SUBSET Runners]
Phase == {"idle", "opening", "copying", "copied", "aging", "expiring", "removing"}
Call == [pc : Phase, name : Nat, extras : SUBSET Nat, since : Nat, stuck : SUBSET Nat,
         alone : BOOLEAN]

(***************************************************************************)
(* A directory s as a set of files and the order they were modified in.    *)
(***************************************************************************)
Unique(s) == \A p, q \in DOMAIN s : s[p].name = s[q].name => p = q
Dir(s) == {s[p] : p \in DOMAIN s}
NamesIn(s) == {f.name : f \in Dir(s)}
WholesIn(s) == {f.name : f \in {g \in Dir(s) : g.whole}}
After(s, n) == {s[p].name : p \in {q \in DOMAIN s : \E o \in DOMAIN s : s[o].name = n /\ q > o}}

(***************************************************************************)
(* The parts of the invariant; s is the directory, c the calls under way.  *)
(***************************************************************************)
Under(c) == {r \in Runners : c[r].pc # "idle"}
Copiers(c) == {r \in Runners : c[r].pc = "copying"}
Doomed(c) == UNION {c[r].extras : r \in Runners}
Safe(s, c) == WholesIn(s) \ Doomed(c)

BackupTyped ==
    /\ clock \in Nat /\ partials \in Nat /\ begun \in Nat
    /\ policy \in Policies
    /\ files \in Seq(File) /\ Unique(files)
    /\ run \in [Runners -> Call]
    /\ shared \in BOOLEAN /\ reported \in BOOLEAN

\* Names are seconds of the past, and only the two pruning loops have a list.
Timely(s, c, now, days) ==
    /\ \A n \in NamesIn(s) : n <= now
    /\ \A r \in Under(c) : c[r].name <= now
    /\ \A r \in Runners : c[r].extras # {} => c[r].pc \in {"expiring", "removing"}
    /\ \A r \in Runners : c[r].pc = "expiring" /\ c[r].extras # {} => days # 0
    /\ \A r \in Runners : c[r].since <= now

\* A call that no other overlapped: where it stands.
AloneOnly(c, r) == c[r].pc # "idle" /\ c[r].alone => Under(c) = {r}
AloneOpen(s, c, r) ==
    c[r].pc = "copying" /\ c[r].alone
      => \E f \in Dir(s) : f.name = c[r].name /\ r \in f.open
AloneWhole(s, c, r, days, now) ==
    /\ c[r].pc \in {"copied", "aging", "expiring", "removing"} /\ c[r].alone
    /\ ~(days # 0 /\ c[r].name + days < now)
    => /\ \E f \in Dir(s) : f.name = c[r].name /\ f.whole /\ f.name <= f.day
       /\ After(s, c[r].name) = {}
       /\ c[r].pc = "removing" => c[r].name \notin c[r].extras
AloneFew(s, c, r, count) ==
    c[r].pc = "removing" /\ c[r].alone /\ count # 0
      => Cardinality((NamesIn(s) \ c[r].extras) \ c[r].stuck) <= count
Alones(s, c, now, days, count) ==
    \A r \in Runners : /\ AloneOnly(c, r)
                       /\ AloneOpen(s, c, r)
                       /\ AloneWhole(s, c, r, days, now)
                       /\ AloneFew(s, c, r, count)

\* Overlapping calls of different seconds: each has its file to itself.
Apart(s, c) ==
    /\ \A q, r \in Under(c) : c[q].name = c[r].name => q = r
    /\ \A r \in Runners : c[r].pc = "opening" => c[r].name \notin NamesIn(s) \cup Doomed(c)
    /\ \A r \in Copiers(c), f \in Dir(s) : f.name = c[r].name => ~f.whole /\ r \in f.open

\* What is listed for removal is older than this second.
ListedPast(c, now) ==
    \A r \in Runners : /\ \A n \in c[r].extras : n < now
                       /\ c[r].extras # {} => c[r].pc = "removing"

\* Partial files nobody copies into were left by calls that were killed, or that
\* failed and were refused the removal.
Orphans(s, c) == {n \in NamesIn(s) \ WholesIn(s) : \A r \in Copiers(c) : c[r].name # n}
OrphansFew(s, c, dead) == Cardinality(Orphans(s, c)) <= dead

\* Since the first copy was finished, some whole file is on nobody's list.
Begun(s, c, told) ==
    \/ told
    \/ \E r \in Runners : c[r].pc \in {"copied", "aging", "expiring", "removing"}
    \/ \E r \in Copiers(c) : c[r].name \notin NamesIn(s)
SafeLeft(s, c, told) == Begun(s, c, told) => Safe(s, c) # {}

\* Calls that were copying when the whole file n was finished, or are listed.
Behind(s, c, n) ==
    {r \in Copiers(c) : /\ c[r].name \in NamesIn(s)
                        /\ c[r].name \notin After(s, n) \/ c[r].name \in Doomed(c)}
\* They and the listed whole files finished since fit into the other callers.
ListedFew(s, c, n) ==
    After(s, n) \cap Safe(s, c) = {}
      => Cardinality(After(s, n) \cap WholesIn(s)) + Cardinality(Behind(s, c, n))
           < Cardinality(Runners)

\* So do the files written after that of this second, and who may yet write.
Pending(s, c, n) ==
    {r \in Runners : /\ c[r].pc \in {"opening", "copying"}
                     /\ c[r].name # n /\ c[r].name \notin After(s, n)}
FreshFew(s, c, now) ==
    now \in NamesIn(s)
      => Cardinality(After(s, now)) + Cardinality(Pending(s, c, now)) < Cardinality(Runners)

Remains(s, c, now, dead, told) ==
    /\ Apart(s, c)
    /\ ListedPast(c, now)
    /\ OrphansFew(s, c, dead)
    /\ SafeLeft(s, c, told)
    /\ \A n \in WholesIn(s) : ListedFew(s, c, n)
    /\ FreshFew(s, c, now)

Orderly == policy.days = 0 /\ ~shared /\ RoomForAll
RemainInv == Orderly => Remains(files, run, clock, partials, reported)

BackupInv ==
    /\ BackupTyped
    /\ Timely(files, run, clock, policy.days)
    /\ Alones(files, run, clock, policy.days, policy.count)
    /\ RemainInv

-----------------------------------------------------------------------------
(***************************************************************************)
(* Removing a file, and writing one, in these terms.                       *)
(***************************************************************************)
Left(s, t, x) ==
    /\ Dir(t) = {f \in Dir(s) : f.name # x}
    /\ \A n \in NamesIn(s) \ {x} : After(t, n) = After(s, n) \ {x}
PutLast(s, t, f) ==
    /\ Dir(t) = {g \in Dir(s) : g.name # f.name} \cup {f}
    /\ After(t, f.name) = {}
    /\ \A n \in NamesIn(s) \ {f.name} : After(t, n) = After(s, n) \cup {f.name}

\* What RemoveAt returns.
LEMMA RemoveAtIs ==
  ASSUME NEW S, NEW s \in Seq(S), NEW i \in 1 .. Len(s)
  PROVE  /\ RemoveAt(s, i) \in Seq(S)
         /\ Len(RemoveAt(s, i)) = Len(s) - 1
         /\ \A q \in 1 .. Len(s) - 1 : RemoveAt(s, i)[q] = IF q < i THEN s[q] ELSE s[q + 1]
<1> DEFINE u == SubSeq(s, 1, i - 1)
           v == SubSeq(s, i + 1, Len(s))
<1>1. /\ u \in Seq(S) /\ Len(u) = i - 1
      /\ \A q \in 1 .. i - 1 : u[q] = s[q]
  <2>1. \A q \in 1 .. i - 1 : s[q] \in S
    BY ElementOfSeq
  <2>2. /\ SubSeq(s, 1, i - 1) \in Seq(S)
        /\ Len(SubSeq(s, 1, i - 1)) = IF 1 <= i - 1 THEN (i - 1) - 1 + 1 ELSE 0
        /\ \A q \in 1 .. (i - 1) - 1 + 1 : SubSeq(s, 1, i - 1)[q] = s[1 + q - 1]
    BY <2>1, SubSeqProperties, LenProperties
  <2> QED
    BY <2>2
<1>2. /\ v \in Seq(S) /\ Len(v) = Len(s) - i
      /\ \A q \in 1 .. Len(s) - i : v[q] = s[i + q]
  <2>1. \A q \in i + 1 .. Len(s) : s[q] \in S
    BY ElementOfSeq
  <2>2. /\ SubSeq(s, i + 1, Len(s)) \in Seq(S)
        /\ Len(SubSeq(s, i + 1, Len(s))) = IF i + 1 <= Len(s) THEN Len(s) - (i + 1) + 1 ELSE 0
        /\ \A q \in 1 .. Len(s) - (i + 1) + 1 : SubSeq(s, i + 1, Len(s))[q] = s[(i + 1) + q - 1]
    BY <2>1, SubSeqProperties, LenProperties
  <2> QED
    BY <2>2
<1>3. RemoveAt(s, i) = u \o v
  BY DEF RemoveAt
<1> HIDE DEF u, v
<1>4. /\ u \o v \in Seq(S)
      /\ Len(u \o v) = Len(u) + Len(v)
      /\ \A q \in 1 .. Len(u) + Len(v) : (u \o v)[q] = IF q <= Len(u) THEN u[q] ELSE v[q - Len(u)]
  BY <1>1, <1>2, ConcatProperties
<1>5. Len(u) + Len(v) = Len(s) - 1
  BY <1>1, <1>2, LenProperties
<1>6. ASSUME NEW q \in 1 .. Len(s) - 1
      PROVE  RemoveAt(s, i)[q] = IF q < i THEN s[q] ELSE s[q + 1]
  <2>1. CASE q < i
    BY <2>1, <1>1, <1>3, <1>4, <1>5
  <2>2. CASE ~(q < i)
    <3>1. RemoveAt(s, i)[q] = v[q - (i - 1)]
      BY <2>2, <1>1, <1>3, <1>4, <1>5
    <3>2. q - (i - 1) \in 1 .. Len(s) - i
      BY <2>2
    <3>3. v[q - (i - 1)] = s[i + (q - (i - 1))]
      BY <3>2, <1>2
    <3>4. i + (q - (i - 1)) = q + 1
      OBVIOUS
    <3> QED
      BY <2>2, <3>1, <3>3, <3>4
  <2> QED
    BY <2>1, <2>2
<1> QED
  BY <1>3, <1>4, <1>5, <1>6

LEMMA AfterIs ==
  ASSUME NEW s, NEW n, NEW x
  PROVE  x \in After(s, n)
           <=> \E o, p \in DOMAIN s : s[o].name = n /\ s[p].name = x /\ p > o
  BY DEF After

\* Removing a file: the others stay, in their order.
LEMMA RemovedLeft ==
  ASSUME NEW s \in Seq(File), Unique(s), NEW i \in DOMAIN s
  PROVE  /\ RemoveAt(s, i) \in Seq(File)
         /\ Unique(RemoveAt(s, i))
         /\ Len(RemoveAt(s, i)) = Len(s) - 1
         /\ Left(s, RemoveAt(s, i), s[i].name)
<1> DEFINE t == RemoveAt(s, i)
           was(q) == IF q < i THEN q ELSE q + 1
<1>0. /\ Len(s) \in Nat /\ DOMAIN s = 1 .. Len(s) /\ i \in 1 .. Len(s)
  BY LenProperties
<1>1. /\ t \in Seq(File) /\ Len(t) = Len(s) - 1
      /\ \A q \in 1 .. Len(s) - 1 : t[q] = IF q < i THEN s[q] ELSE s[q + 1]
  BY <1>0, RemoveAtIs
<1> HIDE DEF t
<1>2. DOMAIN t = 1 .. Len(s) - 1
  BY <1>1, LenProperties
<1>3. \A q \in DOMAIN t : /\ was(q) \in DOMAIN s /\ was(q) # i
                          /\ t[q] = s[was(q)]
  BY <1>0, <1>1, <1>2
<1>4. \A p \in DOMAIN s : p # i => \E q \in DOMAIN t : was(q) = p
  <2> SUFFICES ASSUME NEW p \in DOMAIN s, p # i
               PROVE  \E q \in DOMAIN t : was(q) = p
    OBVIOUS
  <2>1. CASE p < i
    <3>1. p \in DOMAIN t /\ was(p) = p
      BY <2>1, <1>0, <1>2
    <3> QED
      BY <3>1
  <2>2. CASE p > i
    <3>1. p - 1 \in DOMAIN t /\ was(p - 1) = p
      BY <2>2, <1>0, <1>2
    <3> QED
      BY <3>1
  <2> QED
    BY <2>1, <2>2, <1>0
<1>5. \A p, q \in DOMAIN t : p > q <=> was(p) > was(q)
  BY <1>0, <1>2
<1>6. \A p, q \in DOMAIN t : was(p) = was(q) => p = q
  BY <1>0, <1>2
<1> HIDE DEF was
<1>7. Unique(t)
  BY <1>3, <1>6 DEF Unique
<1>8. \A p \in DOMAIN s : s[p].name = s[i].name <=> p = i
  BY DEF Unique
<1>9. Dir(t) = {f \in Dir(s) : f.name # s[i].name}
  BY <1>3, <1>4, <1>8 DEF Dir
<1>10. ASSUME NEW n \in NamesIn(s) \ {s[i].name}
       PROVE  After(t, n) = After(s, n) \ {s[i].name}
  <2>1. ASSUME NEW x, x \in After(t, n)
        PROVE  x \in After(s, n) \ {s[i].name}
    BY <2>1, <1>3, <1>5, <1>8, AfterIs
  <2>2. ASSUME NEW x, x \in After(s, n), x # s[i].name
        PROVE  x \in After(t, n)
    <3>1. PICK o, p \in DOMAIN s : s[o].name = n /\ s[p].name = x /\ p > o
      BY <2>2, AfterIs
    <3>2. o # i /\ p # i
      BY <3>1, <2>2
    <3>3. PICK a, b \in DOMAIN t : was(a) = o /\ was(b) = p
      BY <3>2, <1>4
    <3> QED
      BY <3>1, <3>3, <1>3, <1>5, AfterIs
  <2> QED
    BY <2>1, <2>2
<1> QED
  BY <1>1, <1>7, <1>9, <1>10 DEF Left, t

\* Writing a new file: it comes last.
LEMMA AppendedLast ==
  ASSUME NEW s \in Seq(File), Unique(s), NEW f \in File, f.name \notin NamesIn(s)
  PROVE  /\ Append(s, f) \in Seq(File)
         /\ Unique(Append(s, f))
         /\ PutLast(s, Append(s, f), f)
<1> DEFINE t == Append(s, f)
<1>0. Len(s) \in Nat /\ DOMAIN s = 1 .. Len(s)
  BY LenProperties
<1>1. /\ t \in Seq(File) /\ Len(t) = Len(s) + 1
      /\ \A q \in 1 .. Len(s) : t[q] = s[q]
      /\ t[Len(s) + 1] = f
  BY AppendProperties
<1> HIDE DEF t
<1>2. /\ DOMAIN t = 1 .. Len(s) + 1
      /\ \A q \in DOMAIN t : q \in DOMAIN s \/ q = Len(s) + 1
      /\ \A q \in DOMAIN s : q \in DOMAIN t /\ Len(s) + 1 > q /\ ~(q > Len(s) + 1) /\ q # Len(s) + 1
      /\ Len(s) + 1 \in DOMAIN t /\ ~(Len(s) + 1 > Len(s) + 1)
  BY <1>0, <1>1, LenProperties
<1>3. \A q \in DOMAIN s : t[q] = s[q] /\ s[q].name # f.name
  BY <1>0, <1>1 DEF NamesIn, Dir
<1> DEFINE last == Len(s) + 1
<1>4. t[last] = f
  BY <1>1
<1> HIDE DEF last
<1>5. /\ \A q \in DOMAIN t : q \in DOMAIN s \/ q = last
      /\ \A q \in DOMAIN s : q \in DOMAIN t /\ last > q /\ ~(q > last)
      /\ last \in DOMAIN t /\ ~(last > last)
  BY <1>2 DEF last
<1>6. Unique(t)
  BY <1>3, <1>4, <1>5 DEF Unique
<1>7. Dir(t) = {g \in Dir(s) : g.name # f.name} \cup {f}
  BY <1>3, <1>4, <1>5 DEF Dir
<1>8. After(t, f.name) = {}
  BY <1>3, <1>4, <1>5, AfterIs
<1>9. ASSUME NEW n \in NamesIn(s) \ {f.name}
      PROVE  After(t, n) = After(s, n) \cup {f.name}
  <2>1. ASSUME NEW x, x \in After(t, n)
        PROVE  x \in After(s, n) \cup {f.name}
    BY <2>1, <1>3, <1>4, <1>5, AfterIs
  <2>2. ASSUME NEW x, x \in After(s, n)
        PROVE  x \in After(t, n)
    BY <2>2, <1>3, <1>5, AfterIs
  <2>3. f.name \in After(t, n)
    BY <1>3, <1>4, <1>5, AfterIs DEF NamesIn, Dir
  <2> QED
    BY <2>1, <2>2, <2>3
<1> QED
  BY <1>1, <1>6, <1>7, <1>8, <1>9 DEF PutLast, t

-----------------------------------------------------------------------------
(***************************************************************************)
(* The order of the directory, and how many files it holds.                *)
(***************************************************************************)
\* Different positions, different names: as many names as positions.
LEMMA NamesCounted ==
  ASSUME NEW s \in Seq(File), Unique(s), NEW P \in SUBSET DOMAIN s
  PROVE  /\ IsFiniteSet({s[p].name : p \in P})
         /\ Cardinality({s[p].name : p \in P}) = Cardinality(P)
<1> DEFINE T == {s[p].name : p \in P}
           g == [p \in P |-> s[p].name]
<1>1. IsFiniteSet(P)
  <2>1. DOMAIN s = 1 .. Len(s) /\ Len(s) \in Int
    BY LenProperties
  <2>2. IsFiniteSet(1 .. Len(s))
    BY <2>1, FS_Interval
  <2> QED
    BY <2>1, <2>2, FS_Subset
<1>2. g \in Bijection(P, T)
  BY DEF Bijection, Injection, Surjection, IsInjective, Unique
<1>3. ExistsBijection(P, T)
  BY <1>2 DEF ExistsBijection
<1> QED
  BY <1>1, <1>3, FS_Bijection

LEMMA DirectoryCounted ==
  ASSUME NEW s \in Seq(File), Unique(s)
  PROVE  /\ IsFiniteSet(NamesIn(s))
         /\ Cardinality(NamesIn(s)) = Len(s)
         /\ Len(s) \in Nat
<1>1. DOMAIN s = 1 .. Len(s) /\ Len(s) \in Nat
  BY LenProperties
<1>2. NamesIn(s) = {s[p].name : p \in DOMAIN s}
  BY DEF NamesIn, Dir
<1>3. Cardinality(DOMAIN s) = Len(s)
  BY <1>1, FS_Interval
<1> QED
  BY <1>1, <1>2, <1>3, NamesCounted

LEMMA AfterCounted ==
  ASSUME NEW s \in Seq(File), Unique(s), NEW i \in DOMAIN s
  PROVE  Cardinality(After(s, s[i].name)) = Len(s) - i
<1>1. DOMAIN s = 1 .. Len(s) /\ Len(s) \in Nat /\ i \in Nat /\ i <= Len(s) /\ i >= 1
  BY LenProperties
<1> DEFINE P == i + 1 .. Len(s)
<1>2. P \in SUBSET DOMAIN s
  BY <1>1
<1>3. After(s, s[i].name) = {s[p].name : p \in P}
  <2>1. P = {q \in DOMAIN s : \E o \in DOMAIN s : s[o].name = s[i].name /\ q > o}
    BY <1>1 DEF Unique
  <2> QED
    BY <2>1 DEF After
<1>4. Cardinality(P) = Len(s) - i
  BY <1>1, FS_Interval
<1> QED
  BY <1>2, <1>3, <1>4, NamesCounted

\* Of two files one was modified later, and later goes on.
Ordered(s) ==
    /\ IsFiniteSet(NamesIn(s))
    /\ \A n \in NamesIn(s) : After(s, n) \subseteq NamesIn(s) /\ n \notin After(s, n)
    /\ \A m, n \in NamesIn(s) : m = n \/ m \in After(s, n) \/ n \in After(s, m)
    /\ \A n \in NamesIn(s) : \A m \in After(s, n) : After(s, m) \subseteq After(s, n)

LEMMA DirectoryOrdered ==
  ASSUME NEW s \in Seq(File), Unique(s)
  PROVE  Ordered(s)
<1>1. DOMAIN s = 1 .. Len(s) /\ Len(s) \in Nat
  BY LenProperties
<1>2. \A n, x : x \in After(s, n)
                 <=> \E o, p \in DOMAIN s : s[o].name = n /\ s[p].name = x /\ p > o
  BY AfterIs
<1>3. \A n : n \in NamesIn(s) <=> \E p \in DOMAIN s : s[p].name = n
  BY DEF NamesIn, Dir
<1>4. \A o, p \in DOMAIN s : /\ ~(p > p)
                             /\ p = o \/ p > o \/ o > p
                             /\ \A q \in DOMAIN s : p > o /\ q > p => q > o
  BY <1>1
<1>5. \A n \in NamesIn(s) : After(s, n) \subseteq NamesIn(s)
  BY <1>2, <1>3
<1>6. \A n \in NamesIn(s) : n \notin After(s, n)
  BY <1>2, <1>4 DEF Unique
<1>7. \A m, n \in NamesIn(s) : m = n \/ m \in After(s, n) \/ n \in After(s, m)
  BY <1>2, <1>3, <1>4
<1>8. ASSUME NEW n \in NamesIn(s), NEW m \in After(s, n), NEW x \in After(s, m)
      PROVE  x \in After(s, n)
  <2>1. PICK o, p \in DOMAIN s : s[o].name = n /\ s[p].name = m /\ p > o
    BY <1>2
  <2>2. PICK a, b \in DOMAIN s : s[a].name = m /\ s[b].name = x /\ b > a
    BY <1>2
  <2>3. a = p
    BY <2>1, <2>2 DEF Unique
  <2>4. b > o
    BY <2>1, <2>2, <2>3, <1>4
  <2> QED
    BY <2>1, <2>2, <2>4, <1>2
<1> QED
  BY <1>5, <1>6, <1>7, <1>8, DirectoryCounted DEF Ordered

\* Of some files one was modified last.
LEMMA LastOfSome ==
  ASSUME NEW s, Ordered(s), NEW T \in SUBSET NamesIn(s), T # {}
  PROVE  \E w \in T : After(s, w) \cap T = {}
<1> DEFINE U == NamesIn(s)
           R == StrictSubsetOrdering(U)
           A == {After(s, n) : n \in T}
<1>1. IsFiniteSet(U) /\ FiniteSubsetsOf(U) = SUBSET U
  BY FS_FiniteSubsetsOfFinite DEF Ordered
<1>2. IsWellFoundedOn(R, SUBSET U)
  BY <1>1, FS_StrictSubsetOrderingWellFounded
<1>3. A \subseteq SUBSET U /\ A # {}
  BY DEF Ordered
<1>4. PICK x \in A : \A y \in A : ~(<<y, x>> \in R)
  <2> HIDE DEF A, R, U
  <2> QED
    BY <1>2, <1>3, WFMin
<1>5. PICK w \in T : x = After(s, w)
  OBVIOUS
<1>6. ASSUME NEW z \in T, z \in After(s, w)
      PROVE  FALSE
  <2>1. /\ After(s, z) \subseteq After(s, w) /\ After(s, z) # After(s, w)
        /\ After(s, z) \in SUBSET U /\ After(s, w) \in SUBSET U
    BY <1>6 DEF Ordered
  <2>2. <<After(s, z), After(s, w)>> \in R
    BY <2>1 DEF StrictSubsetOrdering
  <2> QED
    BY <1>4, <1>5, <2>2
<1> QED
  BY <1>6

-----------------------------------------------------------------------------
(***************************************************************************)
(* Counting.                                                               *)
(***************************************************************************)
LEMMA Fewer ==
  ASSUME NEW A, NEW B, IsFiniteSet(A), IsFiniteSet(B),
         NEW C \in SUBSET A, NEW D \in SUBSET B, NEW k \in Nat,
         Cardinality(A) + Cardinality(B) < k
  PROVE  Cardinality(C) + Cardinality(D) < k
<1>1. Cardinality(A) \in Nat /\ Cardinality(B) \in Nat
  BY FS_CardinalityType
<1>2. IsFiniteSet(C) /\ Cardinality(C) <= Cardinality(A)
  BY FS_Subset
<1>3. IsFiniteSet(D) /\ Cardinality(D) <= Cardinality(B)
  BY FS_Subset
<1>4. Cardinality(C) \in Nat /\ Cardinality(D) \in Nat
  BY <1>2, <1>3, FS_CardinalityType
<1> QED
  BY <1>1, <1>2, <1>3, <1>4

\* One comes to the first set as another leaves the second.
LEMMA Moved ==
  ASSUME NEW A, NEW B, IsFiniteSet(A), IsFiniteSet(B), NEW x, NEW y \in B,
         NEW C, NEW D, C \subseteq A \cup {x}, D \subseteq B \ {y}, NEW k \in Nat,
         Cardinality(A) + Cardinality(B) < k
  PROVE  Cardinality(C) + Cardinality(D) < k
<1>1. Cardinality(A) \in Nat /\ Cardinality(B) \in Nat
  BY FS_CardinalityType
<1>2. /\ IsFiniteSet(A \cup {x})
      /\ Cardinality(A \cup {x}) = IF x \in A THEN Cardinality(A) ELSE Cardinality(A) + 1
  BY FS_AddElement
<1>3. IsFiniteSet(B \ {y}) /\ Cardinality(B \ {y}) = Cardinality(B) - 1
  BY FS_RemoveElement
<1>4. Cardinality(A \cup {x}) + Cardinality(B \ {y}) < k
  BY <1>1, <1>2, <1>3
<1> QED
  BY <1>2, <1>3, <1>4, Fewer

\* A set of callers that lacks one has fewer than all.
LEMMA OneLess ==
  ASSUME NEW r \in Runners, NEW D, D \subseteq Runners \ {r}
  PROVE  /\ Cardinality({}) + Cardinality(D) < Cardinality(Runners)
         /\ IsFiniteSet(D) /\ Cardinality(D) \in Nat
         /\ Cardinality(D) <= Cardinality(Runners) - 1
<1>1. IsFiniteSet(Runners) /\ Cardinality(Runners) \in Nat
  BY BackupAssumption, FS_CardinalityType
<1>2. IsFiniteSet(Runners \ {r}) /\ Cardinality(Runners \ {r}) = Cardinality(Runners) - 1
  BY <1>1, FS_RemoveElement
<1>3. IsFiniteSet(D) /\ Cardinality(D) <= Cardinality(Runners \ {r})
  BY <1>2, FS_Subset
<1>4. Cardinality(D) \in Nat
  BY <1>3, FS_CardinalityType
<1>5. Cardinality({}) = 0
  BY FS_EmptySet
<1> QED
  BY <1>1, <1>2, <1>3, <1>4, <1>5

-----------------------------------------------------------------------------
(***************************************************************************)
(* What the parts of the invariant see of a removal and of a write.        *)
(***************************************************************************)
LEMMA LeftNames ==
  ASSUME NEW s, NEW t, NEW x, Left(s, t, x)
  PROVE  NamesIn(t) = NamesIn(s) \ {x} /\ WholesIn(t) = WholesIn(s) \ {x}
  BY DEF Left, NamesIn, WholesIn

LEMMA PutNames ==
  ASSUME NEW s, NEW t, NEW f, PutLast(s, t, f)
  PROVE  /\ NamesIn(t) = NamesIn(s) \cup {f.name}
         /\ f.whole => WholesIn(t) = WholesIn(s) \cup {f.name}
         /\ ~f.whole => WholesIn(t) = WholesIn(s) \ {f.name}
<1>1. \A m : m \in NamesIn(t) <=> m \in NamesIn(s) \/ m = f.name
  BY DEF PutLast, NamesIn
<1>2. \A m : m \in WholesIn(t) <=> (m \in WholesIn(s) /\ m # f.name) \/ (m = f.name /\ f.whole)
  BY DEF PutLast, WholesIn
<1> QED
  BY <1>1, <1>2

LEMMA WholesAreNames ==
  ASSUME NEW s
  PROVE  WholesIn(s) \subseteq NamesIn(s)
  BY DEF WholesIn, NamesIn

\* What these parts see of a call stays as it was.
SameCall(c, d, q) == d[q].pc = c[q].pc /\ d[q].name = c[q].name /\ d[q].extras = c[q].extras
OthersSame(c, d, r) == \A q \in Runners \ {r} : SameCall(c, d, q)

LEMMA Finite ==
  ASSUME NEW s \in Seq(File), Unique(s), NEW c, NEW n \in NamesIn(s)
  PROVE  /\ IsFiniteSet(After(s, n)) /\ IsFiniteSet(After(s, n) \cap WholesIn(s))
         /\ IsFiniteSet(Behind(s, c, n)) /\ IsFiniteSet(Pending(s, c, n))
         /\ IsFiniteSet(Orphans(s, c)) /\ IsFiniteSet(Copiers(c))
         /\ IsFiniteSet(Runners) /\ Cardinality(Runners) \in Nat
<1>1. IsFiniteSet(NamesIn(s)) /\ After(s, n) \subseteq NamesIn(s)
  BY DirectoryOrdered DEF Ordered
<1>2. IsFiniteSet(Runners) /\ Cardinality(Runners) \in Nat
  BY BackupAssumption, FS_CardinalityType
<1>3. Behind(s, c, n) \subseteq Runners /\ Pending(s, c, n) \subseteq Runners /\ Copiers(c) \subseteq Runners
  BY DEF Behind, Pending, Copiers
<1>4. Orphans(s, c) \subseteq NamesIn(s) /\ After(s, n) \cap WholesIn(s) \subseteq NamesIn(s)
  BY <1>1 DEF Orphans
<1> QED
  BY <1>1, <1>2, <1>3, <1>4, FS_Subset

\* Fewer whole files after n and fewer calls behind it.
LEMMA FewKept ==
  ASSUME NEW s \in Seq(File), Unique(s), NEW t, NEW c, NEW d, NEW n \in NamesIn(s),
         ListedFew(s, c, n),
         After(t, n) \cap Safe(t, d) = {} => After(s, n) \cap Safe(s, c) = {},
         After(t, n) \cap WholesIn(t) \subseteq After(s, n) \cap WholesIn(s),
         Behind(t, d, n) \subseteq Behind(s, c, n)
  PROVE  ListedFew(t, d, n)
<1> SUFFICES ASSUME After(s, n) \cap Safe(s, c) = {}
             PROVE  Cardinality(After(t, n) \cap WholesIn(t)) + Cardinality(Behind(t, d, n))
                      < Cardinality(Runners)
  BY DEF ListedFew
<1>1. /\ IsFiniteSet(After(s, n) \cap WholesIn(s)) /\ IsFiniteSet(Behind(s, c, n))
      /\ Cardinality(Runners) \in Nat
  BY Finite
<1>2. Cardinality(After(s, n) \cap WholesIn(s)) + Cardinality(Behind(s, c, n)) < Cardinality(Runners)
  BY DEF ListedFew
<1> QED
  BY <1>1, <1>2, Fewer

\* Any write of the call r keeps FreshFew: its file is now among those written
\* after that of this second, and r is no longer one who may yet write.
LEMMA FreshPut ==
  ASSUME NEW s \in Seq(File), Unique(s), NEW t, NEW c, NEW d, NEW r \in Runners,
         NEW f, PutLast(s, t, f), f.name = c[r].name, d[r].name = c[r].name,
         c[r].pc \in {"opening", "copying"}, OthersSame(c, d, r),
         NEW now, FreshFew(s, c, now)
  PROVE  FreshFew(t, d, now)
<1> SUFFICES ASSUME now \in NamesIn(t)
             PROVE  Cardinality(After(t, now)) + Cardinality(Pending(t, d, now)) < Cardinality(Runners)
  BY DEF FreshFew
<1>1. CASE f.name = now
  <2>1. After(t, now) = {}
    BY <1>1 DEF PutLast
  <2>2. Pending(t, d, now) \subseteq Runners \ {r}
    BY <1>1 DEF Pending
  <2> QED
    BY <2>1, <2>2, OneLess
<1>2. CASE f.name # now
  <2>1. now \in NamesIn(s) /\ After(t, now) = After(s, now) \cup {f.name}
    BY <1>2, PutNames DEF PutLast
  <2>2. Cardinality(After(s, now)) + Cardinality(Pending(s, c, now)) < Cardinality(Runners)
    BY <2>1 DEF FreshFew
  <2>3. Pending(t, d, now) \subseteq Pending(s, c, now) \ {r}
    BY <2>1 DEF Pending, OthersSame, SameCall
  <2>4. CASE f.name \in After(s, now)
    <3>1. After(t, now) \subseteq After(s, now) /\ Pending(t, d, now) \subseteq Pending(s, c, now)
      BY <2>1, <2>3, <2>4
    <3> QED
      BY <2>1, <2>2, <3>1, Finite, Fewer
  <2>5. CASE f.name \notin After(s, now)
    <3>1. r \in Pending(s, c, now)
      BY <1>2, <2>5 DEF Pending
    <3> QED
      BY <2>1, <2>2, <2>3, <3>1, Finite, Moved
  <2> QED
    BY <2>4, <2>5
<1> QED
  BY <1>1, <1>2

-----------------------------------------------------------------------------
(***************************************************************************)
(* Each kind of step keeps Remains.  A step is given by the directories s   *)
(* and t and the calls c and d before and after it, and by its call r.      *)
(***************************************************************************)
LEMMA SameListed ==
  ASSUME NEW c, NEW d, NEW r \in Runners, OthersSame(c, d, r), d[r].extras = c[r].extras
  PROVE  Doomed(d) = Doomed(c) /\ \A s : Safe(s, d) = Safe(s, c)
<1>1. \A q \in Runners : d[q].extras = c[q].extras
  BY DEF OthersSame, SameCall
<1>2. Doomed(d) = Doomed(c)
  BY <1>1 DEF Doomed
<1> QED
  BY <1>2 DEF Safe

\* BackupBegan, in a second no other backup was begun in.
LEMMA RemainsBegan ==
  ASSUME NEW s, NEW c, NEW d, NEW r \in Runners, OthersSame(c, d, r),
         NEW now, NEW dead, NEW told, Remains(s, c, now, dead, told),
         now \notin NamesIn(s), \A q \in Under(c) : c[q].name # now, now \in Nat,
         \A q \in Runners : c[q].extras \subseteq Nat,
         c[r].pc = "idle", d[r].pc = "opening", d[r].name = now,
         c[r].extras = {}, d[r].extras = {}
  PROVE  Remains(s, d, now, dead, told)
<1>1. Doomed(d) = Doomed(c) /\ Safe(s, d) = Safe(s, c)
  BY SameListed
<1>2. Copiers(d) = Copiers(c) /\ \A q \in Copiers(c) : q # r /\ d[q].name = c[q].name
  BY DEF Copiers, OthersSame, SameCall
<1>3. Apart(s, d)
  <2>1. \A p, q \in Under(d) : d[p].name = d[q].name => p = q
    BY DEF Remains, Apart, Under, OthersSame, SameCall
  <2>2. now \notin Doomed(c)
    <3>1. \A q \in Runners : \A n \in c[q].extras : n < now /\ n \in Nat
      BY DEF Remains, ListedPast
    <3>2. ~(now < now)
      OBVIOUS
    <3> QED
      BY <3>1, <3>2 DEF Doomed
  <2>3. \A q \in Runners : d[q].pc = "opening" => d[q].name \notin NamesIn(s) \cup Doomed(d)
    BY <1>1, <2>2 DEF Remains, Apart, OthersSame, SameCall
  <2>4. \A q \in Copiers(d), f \in Dir(s) : f.name = d[q].name => ~f.whole /\ q \in f.open
    BY <1>2 DEF Remains, Apart
  <2> QED
    BY <2>1, <2>3, <2>4 DEF Apart
<1>4. ListedPast(d, now)
  BY DEF Remains, ListedPast, OthersSame, SameCall
<1>5. Orphans(s, d) = Orphans(s, c)
  BY <1>2 DEF Orphans
<1>6. SafeLeft(s, d, told)
  <2>1. Begun(s, d, told) => Begun(s, c, told)
    BY <1>2 DEF Begun, OthersSame, SameCall
  <2> QED
    BY <1>1, <2>1 DEF SafeLeft, Remains
<1>7. \A n : Behind(s, d, n) = Behind(s, c, n)
  BY <1>1, <1>2 DEF Behind
<1>8. \A n \in WholesIn(s) : ListedFew(s, d, n)
  BY <1>1, <1>7 DEF ListedFew, Remains
<1> QED
  BY <1>3, <1>4, <1>5, <1>6, <1>8 DEF Remains, OrphansFew, FreshFew

\* FileOpened: the file is new.
LEMMA RemainsOpened ==
  ASSUME NEW s \in Seq(File), Unique(s), NEW t, NEW c, NEW d,
         NEW r \in Runners, OthersSame(c, d, r),
         NEW now, NEW dead, NEW told, Remains(s, c, now, dead, told),
         c[r].pc = "opening", d[r].pc = "copying", d[r].name = c[r].name,
         d[r].extras = c[r].extras,
         NEW f, PutLast(s, t, f), f.name = c[r].name, ~f.whole, r \in f.open
  PROVE  Remains(t, d, now, dead, told)
<1> DEFINE x == c[r].name
<1>1. Doomed(d) = Doomed(c) /\ x \notin Doomed(c)
  BY SameListed DEF Remains, Apart
<1>2. /\ Copiers(d) = Copiers(c) \cup {r} /\ r \notin Copiers(c)
      /\ \A q \in Copiers(c) : d[q].name = c[q].name
      /\ \A q \in Copiers(c) : c[q].name # x
  BY DEF Copiers, OthersSame, SameCall, Remains, Apart, Under
<1>3. x \notin NamesIn(s)
  BY DEF Remains, Apart
<1>4. NamesIn(t) = NamesIn(s) \cup {x} /\ WholesIn(t) = WholesIn(s) /\ x \notin WholesIn(s)
  <2>1. NamesIn(t) = NamesIn(s) \cup {f.name} /\ WholesIn(t) = WholesIn(s) \ {f.name}
    BY PutNames
  <2> QED
    BY <1>3, <2>1, WholesAreNames
<1>5. Safe(t, d) = Safe(s, c)
  BY <1>1, <1>4 DEF Safe
<1>6. Apart(t, d)
  <2>1. \A p, q \in Under(d) : d[p].name = d[q].name => p = q
    BY <1>2 DEF Remains, Apart, Under, OthersSame, SameCall
  <2>2. ASSUME NEW q \in Runners, d[q].pc = "opening"
        PROVE  d[q].name \notin NamesIn(t) \cup Doomed(d)
    <3>1. q # r /\ c[q].pc = "opening" /\ d[q].name = c[q].name
      BY <2>2 DEF OthersSame, SameCall
    <3>2. c[q].name # x
      BY <3>1 DEF Remains, Apart, Under
    <3>3. c[q].name \notin NamesIn(s) \cup Doomed(c)
      BY <3>1 DEF Remains, Apart
    <3> QED
      BY <1>1, <1>4, <3>1, <3>2, <3>3
  <2>3. ASSUME NEW q \in Copiers(d), NEW g \in Dir(t), g.name = d[q].name
        PROVE  ~g.whole /\ q \in g.open
    <3>1. CASE q = r
      <4>1. g.name = x
        BY <2>3, <3>1
      <4>2. g = f
        BY <4>1 DEF PutLast
      <4> QED
        BY <3>1, <4>2
    <3>2. CASE q # r
      <4>1. q \in Copiers(c) /\ d[q].name = c[q].name
        BY <1>2, <3>2
      <4>2. g.name # x
        BY <1>2, <2>3, <4>1
      <4>3. g \in Dir(s)
        BY <4>2 DEF PutLast
      <4> QED
        BY <2>3, <4>1, <4>3 DEF Remains, Apart
    <3> QED
      BY <3>1, <3>2
  <2> QED
    BY <2>1, <2>2, <2>3 DEF Apart
<1>7. ListedPast(d, now)
  <2>1. ListedPast(c, now)
    BY DEF Remains
  <2>2. c[r].extras = {}
    BY <2>1 DEF ListedPast
  <2> QED
    BY <2>1, <2>2 DEF ListedPast, OthersSame, SameCall
<1>8. Orphans(t, d) = Orphans(s, c)
  <2>1. ASSUME NEW n
        PROVE  (\A q \in Copiers(d) : d[q].name # n) <=> n # x /\ \A q \in Copiers(c) : c[q].name # n
    BY <1>2
  <2>2. ASSUME NEW n
        PROVE  n \in NamesIn(t) \ WholesIn(t) <=> n = x \/ n \in NamesIn(s) \ WholesIn(s)
    BY <1>4
  <2>3. \A n : n \in Orphans(t, d) <=> n \in Orphans(s, c)
    BY <1>3, <2>1, <2>2 DEF Orphans
  <2> QED
    BY <2>3
<1>9. SafeLeft(t, d, told)
  <2>1. Begun(t, d, told) => Begun(s, c, told)
    <3>1. ASSUME NEW q \in Copiers(d), d[q].name \notin NamesIn(t)
          PROVE  q \in Copiers(c) /\ c[q].name \notin NamesIn(s)
      BY <1>2, <1>4, <3>1
    <3>2. ASSUME NEW q \in Runners, d[q].pc \in {"copied", "aging", "expiring", "removing"}
          PROVE  c[q].pc = d[q].pc
      BY <3>2 DEF OthersSame, SameCall
    <3> QED
      BY <3>1, <3>2 DEF Begun
  <2> QED
    BY <1>5, <2>1 DEF SafeLeft, Remains
<1>10. ASSUME NEW n \in WholesIn(t)
       PROVE  ListedFew(t, d, n)
  <2>1. n \in WholesIn(s) /\ n # x /\ n \in NamesIn(s) /\ After(t, n) = After(s, n) \cup {x}
    BY <1>4, WholesAreNames DEF PutLast
  <2>2. ASSUME NEW q, q \in Behind(t, d, n)
        PROVE  q \in Behind(s, c, n)
    <3>1. /\ q \in Copiers(d) /\ d[q].name \in NamesIn(t)
          /\ d[q].name \notin After(t, n) \/ d[q].name \in Doomed(d)
      BY <2>2 DEF Behind
    <3>2. d[q].name # x
      BY <1>1, <2>1, <3>1
    <3>3. q \in Copiers(c) /\ d[q].name = c[q].name
      BY <1>2, <3>1, <3>2
    <3> QED
      BY <1>1, <1>4, <2>1, <3>1, <3>2, <3>3 DEF Behind
  <2>3. After(t, n) \cap WholesIn(t) = After(s, n) \cap WholesIn(s)
    BY <1>4, <2>1
  <2>4. After(t, n) \cap Safe(t, d) = {} => After(s, n) \cap Safe(s, c) = {}
    BY <1>5, <2>1
  <2>5. ListedFew(s, c, n)
    BY <2>1 DEF Remains
  <2> QED
    BY <2>1, <2>2, <2>3, <2>4, <2>5, FewKept
<1>11. FreshFew(t, d, now)
  BY FreshPut DEF Remains
<1> QED
  BY <1>6, <1>7, <1>8, <1>9, <1>10, <1>11 DEF Remains, OrphansFew

\* CopySpilled: the file, if it is still there, is now the last one.
LEMMA RemainsSpilled ==
  ASSUME NEW s \in Seq(File), Unique(s), NEW t, NEW c, NEW r \in Runners,
         NEW now, NEW dead, NEW told, Remains(s, c, now, dead, told),
         c[r].pc = "copying", c[r].name \in NamesIn(s),
         NEW f, PutLast(s, t, f), f.name = c[r].name, ~f.whole, r \in f.open
  PROVE  Remains(t, c, now, dead, told)
<1> DEFINE x == c[r].name
<1>1. r \in Copiers(c) /\ \A q \in Copiers(c) : c[q].name = x => q = r
  BY DEF Copiers, Remains, Apart, Under
<1>2. x \notin WholesIn(s)
  BY <1>1 DEF Remains, Apart, WholesIn
<1>3. NamesIn(t) = NamesIn(s) /\ WholesIn(t) = WholesIn(s)
  <2>1. NamesIn(t) = NamesIn(s) \cup {f.name} /\ WholesIn(t) = WholesIn(s) \ {f.name}
    BY PutNames
  <2> QED
    BY <1>2, <2>1
<1>4. Safe(t, c) = Safe(s, c)
  BY <1>3 DEF Safe
<1>5. Apart(t, c)
  BY <1>1, <1>3 DEF Remains, Apart, PutLast
<1>6. Orphans(t, c) = Orphans(s, c)
  BY <1>3 DEF Orphans
<1>7. SafeLeft(t, c, told)
  BY <1>3, <1>4 DEF SafeLeft, Begun, Remains
<1>8. ASSUME NEW n \in WholesIn(t)
      PROVE  ListedFew(t, c, n)
  <2>1. n \in WholesIn(s) /\ n # x /\ n \in NamesIn(s) /\ After(t, n) = After(s, n) \cup {x}
    BY <1>2, <1>3, WholesAreNames DEF PutLast
  <2>2. Behind(t, c, n) \subseteq Behind(s, c, n)
    BY <1>3, <2>1 DEF Behind
  <2>3. After(t, n) \cap WholesIn(t) = After(s, n) \cap WholesIn(s)
    BY <1>2, <1>3, <2>1
  <2>4. After(t, n) \cap Safe(t, c) = {} => After(s, n) \cap Safe(s, c) = {}
    BY <1>4, <2>1
  <2>5. ListedFew(s, c, n)
    BY <2>1 DEF Remains
  <2> QED
    BY <2>1, <2>2, <2>3, <2>4, <2>5, FewKept
<1>9. FreshFew(t, c, now)
  <2>1. OthersSame(c, c, r)
    BY DEF OthersSame, SameCall
  <2> QED
    BY <2>1, FreshPut DEF Remains
<1> QED
  BY <1>5, <1>6, <1>7, <1>8, <1>9 DEF Remains, OrphansFew

\* CopyFinished: a file that was listed joins the listed whole files, and any
\* other is the last whole one from now on.
LEMMA RemainsFinished ==
  ASSUME NEW s \in Seq(File), Unique(s), NEW t, NEW c, NEW d,
         NEW r \in Runners, OthersSame(c, d, r),
         NEW now, NEW dead, NEW told, Remains(s, c, now, dead, told),
         c[r].pc = "copying", d[r].pc = "copied", d[r].name = c[r].name,
         d[r].extras = c[r].extras, c[r].name \in NamesIn(s),
         NEW f, PutLast(s, t, f), f.name = c[r].name, f.whole
  PROVE  Remains(t, d, now, dead, told)
<1> DEFINE x == c[r].name
<1>1. Doomed(d) = Doomed(c)
  BY SameListed
<1>2. /\ Copiers(d) = Copiers(c) \ {r} /\ r \in Copiers(c)
      /\ \A q \in Copiers(d) : d[q].name = c[q].name /\ c[q].name # x
  BY DEF Copiers, OthersSame, SameCall, Remains, Apart, Under
<1>3. x \notin WholesIn(s)
  BY <1>2 DEF Remains, Apart, WholesIn
<1>4. NamesIn(t) = NamesIn(s) /\ WholesIn(t) = WholesIn(s) \cup {x}
  <2>1. NamesIn(t) = NamesIn(s) \cup {f.name} /\ WholesIn(t) = WholesIn(s) \cup {f.name}
    BY PutNames
  <2> QED
    BY <2>1
<1>5. Safe(t, d) = IF x \in Doomed(c) THEN Safe(s, c) ELSE Safe(s, c) \cup {x}
  BY <1>1, <1>4 DEF Safe
<1>6. Apart(t, d)
  <2>1. \A p, q \in Under(d) : d[p].name = d[q].name => p = q
    BY DEF Remains, Apart, Under, OthersSame, SameCall
  <2>2. ASSUME NEW q \in Runners, d[q].pc = "opening"
        PROVE  d[q].name \notin NamesIn(t) \cup Doomed(d)
    BY <2>2, <1>1, <1>4 DEF Remains, Apart, OthersSame, SameCall
  <2>3. ASSUME NEW q \in Copiers(d), NEW g \in Dir(t), g.name = d[q].name
        PROVE  ~g.whole /\ q \in g.open
    <3>1. g \in Dir(s) /\ q \in Copiers(c) /\ g.name = c[q].name
      BY <2>3, <1>2 DEF PutLast
    <3> QED
      BY <3>1 DEF Remains, Apart
  <2> QED
    BY <2>1, <2>2, <2>3 DEF Apart
<1>7. ListedPast(d, now)
  <2>1. ListedPast(c, now)
    BY DEF Remains
  <2>2. c[r].extras = {}
    BY <2>1 DEF ListedPast
  <2> QED
    BY <2>1, <2>2 DEF ListedPast, OthersSame, SameCall
<1>8. Orphans(t, d) = Orphans(s, c)
  <2>1. ASSUME NEW n
        PROVE  (\A q \in Copiers(c) : c[q].name # n) <=> n # x /\ \A q \in Copiers(d) : d[q].name # n
    BY <1>2
  <2>2. ASSUME NEW n
        PROVE  n \in NamesIn(t) \ WholesIn(t) <=> n # x /\ n \in NamesIn(s) \ WholesIn(s)
    BY <1>4
  <2>3. \A n : n \in Orphans(t, d) <=> n \in Orphans(s, c)
    BY <2>1, <2>2 DEF Orphans
  <2> QED
    BY <2>3
<1>9. SafeLeft(t, d, told)
  <2>1. CASE x \notin Doomed(c)
    BY <2>1, <1>5 DEF SafeLeft
  <2>2. CASE x \in Doomed(c)
    <3>1. PICK q \in Runners : x \in c[q].extras
      BY <2>2 DEF Doomed
    <3>2. c[q].pc = "removing"
      BY <3>1 DEF Remains, ListedPast
    <3>3. Safe(s, c) # {}
      BY <3>2 DEF Remains, SafeLeft, Begun
    <3> QED
      BY <3>3, <1>5 DEF SafeLeft
  <2> QED
    BY <2>1, <2>2
<1>10. ASSUME NEW n \in WholesIn(t), After(t, n) \cap Safe(t, d) = {}
       PROVE  Cardinality(After(t, n) \cap WholesIn(t)) + Cardinality(Behind(t, d, n))
                < Cardinality(Runners)
  <2>1. CASE n = x
    <3>1. After(t, n) \cap WholesIn(t) = {}
      BY <2>1 DEF PutLast
    <3>2. Behind(t, d, n) \subseteq Runners \ {r}
      BY <1>2 DEF Behind, Copiers
    <3> QED
      BY <3>1, <3>2, OneLess
  <2>2. CASE n # x
    <3>1. n \in WholesIn(s) /\ n \in NamesIn(s) /\ After(t, n) = After(s, n) \cup {x}
      BY <2>2, <1>4, WholesAreNames DEF PutLast
    <3>2. x \in Doomed(c)
      BY <1>5, <1>10, <3>1
    <3>3. After(s, n) \cap Safe(s, c) = {}
      BY <1>5, <1>10, <3>1
    <3>4. Cardinality(After(s, n) \cap WholesIn(s)) + Cardinality(Behind(s, c, n)) < Cardinality(Runners)
      BY <3>1, <3>3 DEF Remains, ListedFew
    <3>5. After(t, n) \cap WholesIn(t) \subseteq (After(s, n) \cap WholesIn(s)) \cup {x}
      BY <1>4, <3>1
    <3>6. r \in Behind(s, c, n)
      BY <1>2, <3>2 DEF Behind
    <3>7. ASSUME NEW q \in Behind(t, d, n)
          PROVE  q \in Behind(s, c, n) \ {r}
      <4>1. /\ q \in Copiers(d) /\ d[q].name \in NamesIn(t)
            /\ d[q].name \notin After(t, n) \/ d[q].name \in Doomed(d)
        BY DEF Behind
      <4> QED
        BY <1>1, <1>2, <1>4, <3>1, <4>1 DEF Behind
    <3>8. /\ IsFiniteSet(After(s, n) \cap WholesIn(s)) /\ IsFiniteSet(Behind(s, c, n))
          /\ Cardinality(Runners) \in Nat
      BY <3>1, Finite
    <3>9. Behind(t, d, n) \subseteq Behind(s, c, n) \ {r}
      BY <3>7
    <3> DEFINE A == After(s, n) \cap WholesIn(s)
               B == Behind(s, c, n)
               C == After(t, n) \cap WholesIn(t)
               D == Behind(t, d, n)
               k == Cardinality(Runners)
    <3>10. /\ IsFiniteSet(A) /\ IsFiniteSet(B) /\ r \in B /\ k \in Nat
           /\ C \subseteq A \cup {x} /\ D \subseteq B \ {r}
           /\ Cardinality(A) + Cardinality(B) < k
      BY <3>4, <3>5, <3>6, <3>8, <3>9
    <3> HIDE DEF A, B, C, D, k, x
    <3>11. Cardinality(C) + Cardinality(D) < k
      BY <3>10, Moved
    <3> QED
      BY <3>11 DEF C, D, k
  <2> QED
    BY <2>1, <2>2
<1>11. FreshFew(t, d, now)
  BY FreshPut DEF Remains
<1> QED
  BY <1>6, <1>7, <1>8, <1>9, <1>10, <1>11 DEF Remains, OrphansFew, ListedFew

\* CopyFinished, when the file is gone: the call copied into nothing.
LEMMA RemainsLost ==
  ASSUME NEW s \in Seq(File), Unique(s), NEW c, NEW d,
         NEW r \in Runners, OthersSame(c, d, r),
         NEW now, NEW dead, NEW told, Remains(s, c, now, dead, told),
         c[r].pc = "copying", d[r].pc = "copied", d[r].name = c[r].name,
         d[r].extras = c[r].extras, c[r].name \notin NamesIn(s)
  PROVE  Remains(s, d, now, dead, told)
<1>1. Doomed(d) = Doomed(c) /\ Safe(s, d) = Safe(s, c)
  BY SameListed
<1>2. /\ Copiers(d) = Copiers(c) \ {r} /\ r \in Copiers(c)
      /\ \A q \in Copiers(d) : d[q].name = c[q].name
  BY DEF Copiers, OthersSame, SameCall
<1>3. Apart(s, d)
  <2>1. \A p, q \in Under(d) : d[p].name = d[q].name => p = q
    BY DEF Remains, Apart, Under, OthersSame, SameCall
  <2>2. ASSUME NEW q \in Runners, d[q].pc = "opening"
        PROVE  d[q].name \notin NamesIn(s) \cup Doomed(d)
    BY <2>2, <1>1 DEF Remains, Apart, OthersSame, SameCall
  <2>3. \A q \in Copiers(d), g \in Dir(s) : g.name = d[q].name => ~g.whole /\ q \in g.open
    BY <1>2 DEF Remains, Apart
  <2> QED
    BY <2>1, <2>2, <2>3 DEF Apart
<1>4. ListedPast(d, now)
  <2>1. ListedPast(c, now)
    BY DEF Remains
  <2>2. c[r].extras = {}
    BY <2>1 DEF ListedPast
  <2> QED
    BY <2>1, <2>2 DEF ListedPast, OthersSame, SameCall
<1>5. Orphans(s, d) = Orphans(s, c)
  <2>1. ASSUME NEW n \in NamesIn(s)
        PROVE  (\A q \in Copiers(c) : c[q].name # n) <=> (\A q \in Copiers(d) : d[q].name # n)
    BY <1>2
  <2> QED
    BY <2>1 DEF Orphans
<1>6. SafeLeft(s, d, told)
  BY <1>1, <1>2 DEF Remains, SafeLeft, Begun
<1>7. ASSUME NEW n \in WholesIn(s)
      PROVE  ListedFew(s, d, n)
  <2>1. n \in NamesIn(s) /\ Behind(s, d, n) \subseteq Behind(s, c, n)
    BY <1>1, <1>2, WholesAreNames DEF Behind
  <2>2. ListedFew(s, c, n)
    BY DEF Remains
  <2> QED
    BY <1>1, <2>1, <2>2, FewKept
<1>8. FreshFew(s, d, now)
  <2>1. Pending(s, d, now) \subseteq Pending(s, c, now)
    BY DEF Pending, OthersSame, SameCall
  <2> QED
    BY <2>1, Finite, Fewer DEF FreshFew, Remains
<1> QED
  BY <1>3, <1>4, <1>5, <1>6, <1>7, <1>8 DEF Remains, OrphansFew

\* CopyFailed: the call removes its own partial file, if there is one.
LEMMA RemainsFailed ==
  ASSUME NEW s \in Seq(File), Unique(s), NEW t, NEW c, NEW d,
         NEW r \in Runners, OthersSame(c, d, r),
         NEW now, NEW dead \in Nat, NEW told, Remains(s, c, now, dead, told),
         c[r].pc \in {"opening", "copying"}, d[r].pc = "idle", d[r].extras = {},
         Left(s, t, c[r].name)
  PROVE  Remains(t, d, now, dead, told)
<1> DEFINE x == c[r].name
<1>0. c[r].extras = {}
  BY DEF Remains, ListedPast
<1>1. Doomed(d) = Doomed(c)
  BY <1>0, SameListed
<1>2. /\ Copiers(d) = Copiers(c) \ {r}
      /\ \A q \in Copiers(d) : d[q].name = c[q].name /\ c[q].name # x
      /\ \A q \in Copiers(c) : q = r \/ q \in Copiers(d)
  BY DEF Copiers, OthersSame, SameCall, Remains, Apart, Under
<1>3. x \notin WholesIn(s)
  <2>1. CASE c[r].pc = "opening"
    BY <2>1, WholesAreNames DEF Remains, Apart
  <2>2. CASE c[r].pc = "copying"
    BY <2>2 DEF Remains, Apart, WholesIn, Copiers
  <2> QED
    BY <2>1, <2>2
<1>4. NamesIn(t) = NamesIn(s) \ {x} /\ WholesIn(t) = WholesIn(s)
  <2>1. NamesIn(t) = NamesIn(s) \ {c[r].name} /\ WholesIn(t) = WholesIn(s) \ {c[r].name}
    BY LeftNames
  <2> QED
    BY <1>3, <2>1
<1>5. Safe(t, d) = Safe(s, c)
  BY <1>1, <1>4 DEF Safe
<1>6. Apart(t, d)
  <2>1. \A p, q \in Under(d) : d[p].name = d[q].name => p = q
    BY DEF Remains, Apart, Under, OthersSame, SameCall
  <2>2. ASSUME NEW q \in Runners, d[q].pc = "opening"
        PROVE  d[q].name \notin NamesIn(t) \cup Doomed(d)
    BY <2>2, <1>1, <1>4 DEF Remains, Apart, OthersSame, SameCall
  <2>3. \A q \in Copiers(d), g \in Dir(t) : g.name = d[q].name => ~g.whole /\ q \in g.open
    BY <1>2 DEF Remains, Apart, Left
  <2> QED
    BY <2>1, <2>2, <2>3 DEF Apart
<1>7. ListedPast(d, now)
  BY <1>0 DEF Remains, ListedPast, OthersSame, SameCall
<1>8. OrphansFew(t, d, dead)
  <2>1. ASSUME NEW n \in Orphans(t, d)
        PROVE  n \in Orphans(s, c)
    <3>1. /\ n \in NamesIn(s) /\ n \notin WholesIn(s) /\ n # x
          /\ \A q \in Copiers(d) : d[q].name # n
      BY <1>4 DEF Orphans
    <3> QED
      BY <1>2, <3>1 DEF Orphans
  <2>2. IsFiniteSet(Orphans(s, c)) /\ Cardinality(Orphans(s, c)) <= dead
    <3>1. IsFiniteSet(NamesIn(s)) /\ Orphans(s, c) \subseteq NamesIn(s)
      BY DirectoryOrdered DEF Ordered, Orphans
    <3> QED
      BY <3>1, FS_Subset DEF Remains, OrphansFew
  <2>3. /\ Cardinality(Orphans(t, d)) <= Cardinality(Orphans(s, c))
        /\ Cardinality(Orphans(t, d)) \in Nat /\ Cardinality(Orphans(s, c)) \in Nat
    BY <2>1, <2>2, FS_Subset, FS_CardinalityType
  <2> QED
    BY <2>2, <2>3 DEF OrphansFew
<1>9. SafeLeft(t, d, told)
  <2>1. Begun(t, d, told) => Begun(s, c, told)
    <3>1. ASSUME NEW q \in Copiers(d), d[q].name \notin NamesIn(t)
          PROVE  q \in Copiers(c) /\ c[q].name \notin NamesIn(s)
      BY <1>2, <1>4, <3>1
    <3>2. ASSUME NEW q \in Runners, d[q].pc \in {"copied", "aging", "expiring", "removing"}
          PROVE  c[q].pc = d[q].pc
      BY <3>2 DEF OthersSame, SameCall
    <3> QED
      BY <3>1, <3>2 DEF Begun
  <2> QED
    BY <1>5, <2>1 DEF SafeLeft, Remains
<1>10. ASSUME NEW n \in WholesIn(t)
       PROVE  ListedFew(t, d, n)
  <2>1. n \in WholesIn(s) /\ n # x /\ n \in NamesIn(s) /\ After(t, n) = After(s, n) \ {x}
    BY <1>3, <1>4, WholesAreNames DEF Left
  <2>2. ASSUME NEW q \in Behind(t, d, n)
        PROVE  q \in Behind(s, c, n)
    <3>1. /\ q \in Copiers(d) /\ d[q].name \in NamesIn(t)
          /\ d[q].name \notin After(t, n) \/ d[q].name \in Doomed(d)
      BY DEF Behind
    <3> QED
      BY <1>1, <1>2, <1>4, <2>1, <3>1 DEF Behind
  <2>3. After(t, n) \cap WholesIn(t) = After(s, n) \cap WholesIn(s)
    BY <1>3, <1>4, <2>1
  <2>4. After(t, n) \cap Safe(t, d) = After(s, n) \cap Safe(s, c)
    BY <1>3, <1>5, <2>1 DEF Safe
  <2>5. ListedFew(s, c, n)
    BY <2>1 DEF Remains
  <2> QED
    BY <2>1, <2>2, <2>3, <2>4, <2>5, FewKept
<1>11. FreshFew(t, d, now)
  <2> SUFFICES ASSUME now \in NamesIn(t)
               PROVE  Cardinality(After(t, now)) + Cardinality(Pending(t, d, now)) < Cardinality(Runners)
    BY DEF FreshFew
  <2>1. now \in NamesIn(s) /\ now # x /\ After(t, now) = After(s, now) \ {x}
    BY <1>4 DEF Left
  <2>2. ASSUME NEW q \in Pending(t, d, now)
        PROVE  q \in Pending(s, c, now)
    <3>1. /\ q \in Runners /\ q # r /\ c[q].pc \in {"opening", "copying"} /\ d[q].name = c[q].name
          /\ d[q].name # now /\ d[q].name \notin After(t, now)
      BY DEF Pending, OthersSame, SameCall
    <3>2. c[q].name # x
      BY <3>1 DEF Remains, Apart, Under
    <3> QED
      BY <2>1, <3>1, <3>2 DEF Pending
  <2>3. Cardinality(After(s, now)) + Cardinality(Pending(s, c, now)) < Cardinality(Runners)
    BY <2>1 DEF Remains, FreshFew
  <2> QED
    BY <2>1, <2>2, <2>3, Finite, Fewer
<1> QED
  BY <1>6, <1>7, <1>8, <1>9, <1>10, <1>11 DEF Remains

\* FileMeasured, FilesListed without an age limit, SortFailed, BackupReported:
\* a call past its copy goes on, or ends, with nothing listed.
LEMMA RemainsPast ==
  ASSUME NEW s \in Seq(File), Unique(s), NEW c, NEW d,
         NEW r \in Runners, OthersSame(c, d, r),
         NEW now, NEW dead, NEW told, NEW tells, Remains(s, c, now, dead, told),
         c[r].pc \in {"copied", "aging", "expiring", "removing"}, c[r].extras = {},
         d[r].pc \in {"idle", "aging", "expiring", "removing"}, d[r].extras = {},
         d[r].pc # "idle" => d[r].name = c[r].name
  PROVE  Remains(s, d, now, dead, tells)
<1>1. Doomed(d) = Doomed(c) /\ Safe(s, d) = Safe(s, c)
  BY SameListed
<1>2. Copiers(d) = Copiers(c) /\ \A q \in Copiers(c) : d[q].name = c[q].name
  BY DEF Copiers, OthersSame, SameCall
<1>3. Apart(s, d)
  <2>1. \A p, q \in Under(d) : d[p].name = d[q].name => p = q
    BY DEF Remains, Apart, Under, OthersSame, SameCall
  <2>2. ASSUME NEW q \in Runners, d[q].pc = "opening"
        PROVE  d[q].name \notin NamesIn(s) \cup Doomed(d)
    BY <2>2, <1>1 DEF Remains, Apart, OthersSame, SameCall
  <2>3. \A q \in Copiers(d), g \in Dir(s) : g.name = d[q].name => ~g.whole /\ q \in g.open
    BY <1>2 DEF Remains, Apart
  <2> QED
    BY <2>1, <2>2, <2>3 DEF Apart
<1>4. ListedPast(d, now)
  BY DEF Remains, ListedPast, OthersSame, SameCall
<1>5. Orphans(s, d) = Orphans(s, c)
  BY <1>2 DEF Orphans
<1>6. SafeLeft(s, d, tells)
  BY <1>1 DEF Remains, SafeLeft, Begun
<1>7. \A n : Behind(s, d, n) = Behind(s, c, n)
  BY <1>1, <1>2 DEF Behind
<1>8. \A n \in WholesIn(s) : ListedFew(s, d, n)
  BY <1>1, <1>7 DEF ListedFew, Remains
<1>9. Pending(s, d, now) = Pending(s, c, now)
  BY DEF Pending, OthersSame, SameCall
<1> QED
  BY <1>3, <1>4, <1>5, <1>6, <1>8, <1>9 DEF Remains, OrphansFew, FreshFew

\* As many names as calls, or fewer.
LEMMA CopiersNamed ==
  ASSUME NEW c, IsFiniteSet(Copiers(c))
  PROVE  /\ IsFiniteSet({c[q].name : q \in Copiers(c)})
         /\ Cardinality({c[q].name : q \in Copiers(c)}) <= Cardinality(Copiers(c))
<1> DEFINE L == {c[q].name : q \in Copiers(c)}
           g == [q \in Copiers(c) |-> c[q].name]
<1>1. g \in Surjection(Copiers(c), L)
  BY DEF Surjection
<1> HIDE DEF L, g
<1>2. IsFiniteSet(L) /\ Cardinality(L) <= Cardinality(Copiers(c))
  BY <1>1, FS_Surjection
<1> QED
  BY <1>2 DEF L

LEMMA JoinedCount ==
  ASSUME NEW A, NEW B, IsFiniteSet(A), IsFiniteSet(B), NEW C, C \subseteq A \cup B
  PROVE  /\ IsFiniteSet(C)
         /\ Cardinality(A) \in Nat /\ Cardinality(B) \in Nat /\ Cardinality(C) \in Nat
         /\ Cardinality(C) <= Cardinality(A) + Cardinality(B)
<1>1. /\ IsFiniteSet(A \cup B)
      /\ Cardinality(A \cup B) = Cardinality(A) + Cardinality(B) - Cardinality(A \cap B)
  BY FS_Union
<1>2. IsFiniteSet(A \cap B)
  BY FS_Intersection
<1>3. Cardinality(A) \in Nat /\ Cardinality(B) \in Nat /\ Cardinality(A \cap B) \in Nat
  BY <1>2, FS_CardinalityType
<1>4. IsFiniteSet(C) /\ Cardinality(C) <= Cardinality(A \cup B)
  BY <1>1, FS_Subset
<1>5. Cardinality(C) \in Nat
  BY <1>4, FS_CardinalityType
<1> QED
  BY <1>1, <1>3, <1>4, <1>5

\* What is behind the last safe whole file, in numbers: listed whole files, and
\* partial ones, of which dead calls left some and calls that copy have others.
LEMMA RoomAdds ==
  ASSUME NEW behind \in Nat, NEW listed \in Nat, NEW partial \in Nat, NEW orphans \in Nat,
         NEW named \in Nat, NEW copying \in Nat, NEW calls \in Nat, NEW dead \in Nat, NEW count \in Nat,
         behind <= listed + partial, partial <= orphans + named, named <= copying, orphans <= dead,
         \/ listed = 0 /\ copying <= calls - 1
         \/ listed < calls /\ copying <= calls - 2,
         count >= calls + dead, count >= 2 * (calls - 1) + dead
  PROVE  behind < count
<1>1. CASE listed = 0 /\ copying <= calls - 1
  BY <1>1
<1>2. CASE listed < calls /\ copying <= calls - 2
  BY <1>2
<1> QED
  BY <1>1, <1>2

\* When a call sorts the directory, the last safe whole file is not among the
\* extras: after it come listed whole files, partial files of dead calls, and
\* partial files of others, and one of the others is not copying if any is listed.
LEMMA RoomBehindLast ==
  ASSUME NEW s \in Seq(File), Unique(s), NEW c, NEW r \in Runners,
         NEW now, NEW dead \in Nat, NEW told, Remains(s, c, now, dead, told),
         c[r].pc = "expiring",
         NEW w \in Safe(s, c), After(s, w) \cap Safe(s, c) = {},
         NEW count \in Nat, count >= Cardinality(Runners) + dead,
         count >= 2 * (Cardinality(Runners) - 1) + dead
  PROVE  Cardinality(After(s, w)) < count
<1> DEFINE A == After(s, w) \cap WholesIn(s)
           P == After(s, w) \ WholesIn(s)
           O == Orphans(s, c)
           L == {c[q].name : q \in Copiers(c)}
           N == Cardinality(Runners)
<1>0. w \in WholesIn(s) /\ w \in NamesIn(s)
  BY WholesAreNames DEF Safe
<1>1. /\ IsFiniteSet(A) /\ IsFiniteSet(O) /\ IsFiniteSet(Copiers(c)) /\ N \in Nat
      /\ IsFiniteSet(Behind(s, c, w)) /\ IsFiniteSet(After(s, w))
      /\ After(s, w) \subseteq NamesIn(s)
  BY <1>0, Finite, DirectoryOrdered DEF Ordered
<1>2. IsFiniteSet(L) /\ Cardinality(L) <= Cardinality(Copiers(c))
  BY <1>1, CopiersNamed
<1>3. P \subseteq O \cup L
  BY <1>1 DEF Orphans
<1>4. Copiers(c) \subseteq Runners \ {r}
  BY DEF Copiers
<1>5. Cardinality(O) <= dead
  BY DEF Remains, OrphansFew
<1>6. Cardinality(Copiers(c)) \in Nat /\ Cardinality(Copiers(c)) <= N - 1
  BY <1>4, OneLess
<1>7. /\ IsFiniteSet(P)
      /\ Cardinality(O) \in Nat /\ Cardinality(L) \in Nat /\ Cardinality(P) \in Nat
      /\ Cardinality(P) <= Cardinality(O) + Cardinality(L)
  <2> HIDE DEF O, L, P
  <2> QED
    BY <1>1, <1>2, <1>3, JoinedCount
<1>8. /\ Cardinality(A) \in Nat /\ Cardinality(After(s, w)) \in Nat
      /\ Cardinality(After(s, w)) <= Cardinality(A) + Cardinality(P)
  <2>1. After(s, w) \subseteq A \cup P
    OBVIOUS
  <2> HIDE DEF A, P
  <2> QED
    BY <2>1, <1>1, <1>7, JoinedCount
<1>9. CASE A = {}
  <2>1. Cardinality(A) = 0
    BY <1>9, FS_EmptySet
  <2> HIDE DEF A, P, O, L
  <2> QED
    BY <2>1, <1>1, <1>2, <1>5, <1>6, <1>7, <1>8, RoomAdds
<1>10. CASE A # {}
  <2>1. PICK y \in A : TRUE
    BY <1>10
  <2>2. y \in Doomed(c)
    BY <2>1 DEF Safe
  <2>3. PICK q \in Runners : y \in c[q].extras
    BY <2>2 DEF Doomed
  <2>4. c[q].pc = "removing"
    BY <2>3 DEF Remains, ListedPast
  <2>5. Copiers(c) \subseteq (Runners \ {r}) \ {q} /\ q \in Runners \ {r}
    BY <2>3, <2>4 DEF Copiers
  <2>6. Cardinality(Copiers(c)) <= N - 2
    <3>1. /\ IsFiniteSet(Runners \ {r}) /\ Cardinality(Runners \ {r}) <= N - 1
          /\ Cardinality(Runners \ {r}) \in Nat
      BY OneLess
    <3>2. /\ IsFiniteSet((Runners \ {r}) \ {q})
          /\ Cardinality((Runners \ {r}) \ {q}) = Cardinality(Runners \ {r}) - 1
      BY <2>5, <3>1, FS_RemoveElement
    <3>3. Cardinality(Copiers(c)) <= Cardinality((Runners \ {r}) \ {q})
      BY <2>5, <3>2, FS_Subset
    <3> HIDE DEF N
    <3> QED
      BY <1>1, <1>6, <3>1, <3>2, <3>3
  <2>7. Cardinality(A) + Cardinality(Behind(s, c, w)) < N
    BY <1>0 DEF Remains, ListedFew
  <2>8. Cardinality(Behind(s, c, w)) \in Nat
    BY <1>1, FS_CardinalityType
  <2>9. Cardinality(A) < N
    <3> HIDE DEF A, N
    <3> QED
      BY <2>7, <2>8, <1>1, <1>8
  <2> HIDE DEF A, P, O, L
  <2> QED
    BY <2>6, <2>9, <1>1, <1>2, <1>5, <1>6, <1>7, <1>8, RoomAdds
<1> QED
  BY <1>9, <1>10

\* What the limit has room for, and what exceeds it.
RoomIn(count, dead) ==
    count # 0 => /\ count >= Cardinality(Runners) + dead
                 /\ count >= 2 * (Cardinality(Runners) - 1) + dead
Excess(s, count) ==
    IF count = 0 THEN {} ELSE {n \in NamesIn(s) : Cardinality(After(s, n)) >= count}

\* FilesSorted: what is listed now was modified before the last safe whole file.
LEMMA RemainsSorted ==
  ASSUME NEW s \in Seq(File), Unique(s), NEW c, NEW d,
         NEW r \in Runners, OthersSame(c, d, r),
         NEW now \in Nat, NEW dead \in Nat, NEW told, Remains(s, c, now, dead, told),
         NamesIn(s) \subseteq Nat, \A n \in NamesIn(s) : n <= now,
         c[r].pc = "expiring", c[r].extras = {}, d[r].pc = "removing", d[r].name = c[r].name,
         NEW count \in Nat, RoomIn(count, dead), d[r].extras = Excess(s, count)
  PROVE  Remains(s, d, now, dead, told)
<1> DEFINE X == d[r].extras
<1>0. Ordered(s)
  BY DirectoryOrdered
<1>1. Safe(s, c) # {} /\ Safe(s, c) \subseteq WholesIn(s) /\ WholesIn(s) \subseteq NamesIn(s)
  BY WholesAreNames DEF Remains, SafeLeft, Begun, Safe
<1>2. PICK w \in Safe(s, c) : After(s, w) \cap Safe(s, c) = {}
  BY <1>0, <1>1, LastOfSome
<1>3. X # {} => count # 0 /\ X = {n \in NamesIn(s) : Cardinality(After(s, n)) >= count}
  BY DEF Excess
<1>4. count # 0 => Cardinality(After(s, w)) < count
  BY <1>2, RoomBehindLast DEF RoomIn
<1>5. ASSUME NEW n \in X
      PROVE  n \in NamesIn(s) /\ n # w /\ w \in After(s, n) /\ n < now
  <2>1. n \in NamesIn(s) /\ Cardinality(After(s, n)) >= count /\ count # 0
    BY <1>3
  <2>2. w \in NamesIn(s) /\ IsFiniteSet(After(s, w)) /\ IsFiniteSet(After(s, n))
    BY <1>1, <2>1, Finite
  <2>3. Cardinality(After(s, w)) \in Nat /\ Cardinality(After(s, n)) \in Nat
    BY <2>2, FS_CardinalityType
  <2>4. n # w
    BY <2>1, <2>3, <1>4
  <2>5. n \notin After(s, w)
    <3>1. SUFFICES ASSUME n \in After(s, w)
                   PROVE  FALSE
      OBVIOUS
    <3>2. After(s, n) \subseteq After(s, w)
      BY <3>1, <2>2, <1>0 DEF Ordered
    <3>3. Cardinality(After(s, n)) <= Cardinality(After(s, w))
      BY <3>2, <2>2, FS_Subset
    <3> QED
      BY <3>3, <2>1, <2>3, <1>4
  <2>6. w \in After(s, n)
    BY <2>1, <2>2, <2>4, <2>5, <1>0 DEF Ordered
  <2>7. n # now
    <3>1. SUFFICES ASSUME n = now
                   PROVE  FALSE
      OBVIOUS
    <3>2. Cardinality(After(s, n)) + Cardinality(Pending(s, c, n)) < Cardinality(Runners)
      BY <2>1, <3>1 DEF Remains, FreshFew
    <3>3. IsFiniteSet(Pending(s, c, n)) /\ Cardinality(Runners) \in Nat
      BY <2>1, Finite
    <3>4. Cardinality(Pending(s, c, n)) \in Nat
      BY <3>3, FS_CardinalityType
    <3> QED
      BY <2>1, <2>3, <3>2, <3>3, <3>4 DEF RoomIn
  <2> QED
    BY <2>1, <2>4, <2>6, <2>7
<1>6. Doomed(d) = Doomed(c) \cup X
  <2>1. \A q \in Runners \ {r} : d[q].extras = c[q].extras
    BY DEF OthersSame, SameCall
  <2> HIDE DEF X
  <2>2. d[r].extras = X
    BY DEF X
  <2> QED
    BY <2>1, <2>2 DEF Doomed
<1>7. Safe(s, d) = Safe(s, c) \ X
  BY <1>6 DEF Safe
<1>8. w \in Safe(s, d)
  BY <1>5, <1>7
<1>9. Copiers(d) = Copiers(c) /\ \A q \in Copiers(c) : d[q].name = c[q].name
  BY DEF Copiers, OthersSame, SameCall
<1>10. d[r].extras = X
  OBVIOUS
<1> HIDE DEF X
<1>11. Apart(s, d)
  <2>1. \A p, q \in Under(d) : d[p].name = d[q].name => p = q
    BY DEF Remains, Apart, Under, OthersSame, SameCall
  <2>2. ASSUME NEW q \in Runners, d[q].pc = "opening"
        PROVE  d[q].name \notin NamesIn(s) \cup Doomed(d)
    <3>1. q # r /\ c[q].pc = "opening" /\ d[q].name = c[q].name
      BY <2>2 DEF OthersSame, SameCall
    <3>2. c[q].name \notin NamesIn(s) \cup Doomed(c)
      BY <3>1 DEF Remains, Apart
    <3> QED
      BY <3>1, <3>2, <1>5, <1>6
  <2>3. \A q \in Copiers(d), g \in Dir(s) : g.name = d[q].name => ~g.whole /\ q \in g.open
    BY <1>9 DEF Remains, Apart
  <2> QED
    BY <2>1, <2>2, <2>3 DEF Apart
<1>12. ListedPast(d, now)
  <2>1. \A n \in X : n < now
    BY <1>5
  <2> QED
    BY <2>1, <1>10 DEF Remains, ListedPast, OthersSame, SameCall
<1>13. Orphans(s, d) = Orphans(s, c)
  BY <1>9 DEF Orphans
<1>14. SafeLeft(s, d, told)
  BY <1>8 DEF SafeLeft
<1>15. ASSUME NEW n \in WholesIn(s), After(s, n) \cap Safe(s, d) = {}
       PROVE  Cardinality(After(s, n) \cap WholesIn(s)) + Cardinality(Behind(s, d, n))
                < Cardinality(Runners)
  <2>1. n \in NamesIn(s)
    BY <1>1
  <2>2. X \cap After(s, n) = {}
    <3>1. ASSUME NEW z \in X, z \in After(s, n)
          PROVE  FALSE
      <4>1. w \in After(s, z)
        BY <1>5
      <4>2. After(s, z) \subseteq After(s, n)
        BY <2>1, <3>1, <1>0 DEF Ordered
      <4> QED
        BY <4>1, <4>2, <1>8, <1>15
    <3> QED
      BY <3>1
  <2>3. After(s, n) \cap Safe(s, c) = {}
    BY <2>2, <1>7, <1>15
  <2>4. ASSUME NEW q \in Behind(s, d, n)
        PROVE  q \in Behind(s, c, n)
    <3>1. /\ q \in Copiers(d) /\ d[q].name \in NamesIn(s)
          /\ d[q].name \notin After(s, n) \/ d[q].name \in Doomed(d)
      BY DEF Behind
    <3> QED
      BY <1>6, <1>9, <2>2, <3>1 DEF Behind
  <2>5. Cardinality(After(s, n) \cap WholesIn(s)) + Cardinality(Behind(s, c, n)) < Cardinality(Runners)
    BY <2>3 DEF Remains, ListedFew
  <2>6. /\ IsFiniteSet(After(s, n) \cap WholesIn(s)) /\ IsFiniteSet(Behind(s, c, n))
        /\ Cardinality(Runners) \in Nat
    BY <2>1, Finite
  <2> QED
    BY <2>4, <2>5, <2>6, Fewer
<1>16. Pending(s, d, now) = Pending(s, c, now)
  BY DEF Pending, OthersSame, SameCall
<1> QED
  BY <1>11, <1>12, <1>13, <1>14, <1>15, <1>16 DEF Remains, OrphansFew, ListedFew, FreshFew

\* ExtraRemoved: what goes was listed.
LEMMA RemainsRemoved ==
  ASSUME NEW s \in Seq(File), Unique(s), NEW t, NEW c, NEW d,
         NEW r \in Runners, OthersSame(c, d, r),
         NEW now, NEW dead \in Nat, NEW told, Remains(s, c, now, dead, told),
         c[r].pc = "removing", d[r].pc = "removing", d[r].name = c[r].name,
         NEW x \in c[r].extras, d[r].extras = c[r].extras \ {x}, Left(s, t, x)
  PROVE  Remains(t, d, now, dead, told)
<1>1. /\ x \in Doomed(c) /\ Doomed(d) \subseteq Doomed(c)
      /\ \A n \in Doomed(c) : n # x => n \in Doomed(d)
  BY DEF Doomed, OthersSame, SameCall
<1>2. Copiers(d) = Copiers(c) /\ \A q \in Copiers(c) : d[q].name = c[q].name
  BY DEF Copiers, OthersSame, SameCall
<1>3. NamesIn(t) = NamesIn(s) \ {x} /\ WholesIn(t) = WholesIn(s) \ {x}
  BY LeftNames
<1>4. Safe(t, d) = Safe(s, c) /\ x \notin Safe(s, c)
  BY <1>1, <1>3 DEF Safe
<1>5. Apart(t, d)
  <2>1. \A p, q \in Under(d) : d[p].name = d[q].name => p = q
    BY DEF Remains, Apart, Under, OthersSame, SameCall
  <2>2. ASSUME NEW q \in Runners, d[q].pc = "opening"
        PROVE  d[q].name \notin NamesIn(t) \cup Doomed(d)
    BY <2>2, <1>1, <1>3 DEF Remains, Apart, OthersSame, SameCall
  <2>3. \A q \in Copiers(d), g \in Dir(t) : g.name = d[q].name => ~g.whole /\ q \in g.open
    BY <1>2 DEF Remains, Apart, Left
  <2> QED
    BY <2>1, <2>2, <2>3 DEF Apart
<1>6. ListedPast(d, now)
  BY DEF Remains, ListedPast, OthersSame, SameCall
<1>7. OrphansFew(t, d, dead)
  <2>1. Orphans(t, d) \subseteq Orphans(s, c)
    BY <1>2, <1>3 DEF Orphans
  <2>2. IsFiniteSet(Orphans(s, c)) /\ Cardinality(Orphans(s, c)) <= dead
    <3>1. IsFiniteSet(NamesIn(s)) /\ Orphans(s, c) \subseteq NamesIn(s)
      BY DirectoryOrdered DEF Ordered, Orphans
    <3> QED
      BY <3>1, FS_Subset DEF Remains, OrphansFew
  <2>3. /\ Cardinality(Orphans(t, d)) <= Cardinality(Orphans(s, c))
        /\ Cardinality(Orphans(t, d)) \in Nat /\ Cardinality(Orphans(s, c)) \in Nat
    BY <2>1, <2>2, FS_Subset, FS_CardinalityType
  <2> QED
    BY <2>2, <2>3 DEF OrphansFew
<1>8. SafeLeft(t, d, told)
  BY <1>4 DEF Remains, SafeLeft, Begun
<1>9. ASSUME NEW n \in WholesIn(t)
      PROVE  ListedFew(t, d, n)
  <2>1. n \in WholesIn(s) /\ n # x /\ n \in NamesIn(s) /\ After(t, n) = After(s, n) \ {x}
    BY <1>3, WholesAreNames DEF Left
  <2>2. ASSUME NEW q \in Behind(t, d, n)
        PROVE  q \in Behind(s, c, n)
    <3>1. /\ q \in Copiers(d) /\ d[q].name \in NamesIn(t)
          /\ d[q].name \notin After(t, n) \/ d[q].name \in Doomed(d)
      BY DEF Behind
    <3> QED
      BY <1>1, <1>2, <1>3, <2>1, <3>1 DEF Behind
  <2>3. After(t, n) \cap WholesIn(t) \subseteq After(s, n) \cap WholesIn(s)
    BY <1>3, <2>1
  <2>4. After(t, n) \cap Safe(t, d) = After(s, n) \cap Safe(s, c)
    BY <1>4, <2>1
  <2>5. ListedFew(s, c, n)
    BY <2>1 DEF Remains
  <2> QED
    BY <2>1, <2>2, <2>3, <2>4, <2>5, FewKept
<1>10. FreshFew(t, d, now)
  <2> SUFFICES ASSUME now \in NamesIn(t)
               PROVE  Cardinality(After(t, now)) + Cardinality(Pending(t, d, now)) < Cardinality(Runners)
    BY DEF FreshFew
  <2>1. now \in NamesIn(s) /\ now # x /\ After(t, now) = After(s, now) \ {x}
    BY <1>3 DEF Left
  <2>2. \A q \in Pending(t, d, now) :
          /\ q \in Runners /\ c[q].pc \in {"opening", "copying"}
          /\ c[q].name # now /\ (c[q].name = x \/ c[q].name \notin After(s, now))
    <3> SUFFICES ASSUME NEW q \in Pending(t, d, now)
                 PROVE  /\ q \in Runners /\ c[q].pc \in {"opening", "copying"}
                        /\ c[q].name # now /\ (c[q].name = x \/ c[q].name \notin After(s, now))
      OBVIOUS
    <3>1. /\ q \in Runners /\ q # r /\ c[q].pc \in {"opening", "copying"} /\ d[q].name = c[q].name
          /\ d[q].name # now /\ d[q].name \notin After(t, now)
      BY DEF Pending, OthersSame, SameCall
    <3> QED
      BY <2>1, <3>1
  <2>3. /\ Cardinality(After(s, now)) + Cardinality(Pending(s, c, now)) < Cardinality(Runners)
        /\ IsFiniteSet(After(s, now)) /\ IsFiniteSet(Pending(s, c, now))
        /\ Cardinality(Runners) \in Nat
        /\ Cardinality(After(s, now)) \in Nat /\ Cardinality(Pending(s, c, now)) \in Nat
    <3>1. /\ IsFiniteSet(After(s, now)) /\ IsFiniteSet(Pending(s, c, now))
          /\ Cardinality(Runners) \in Nat
      BY <2>1, Finite
    <3>2. Cardinality(After(s, now)) \in Nat /\ Cardinality(Pending(s, c, now)) \in Nat
      BY <3>1, FS_CardinalityType
    <3> QED
      BY <2>1, <3>1, <3>2 DEF Remains, FreshFew
  <2>4. CASE \A q \in Pending(t, d, now) : c[q].name \notin After(s, now)
    <3>1. Pending(t, d, now) \subseteq Pending(s, c, now)
      BY <2>2, <2>4 DEF Pending
    <3>2. After(t, now) \subseteq After(s, now)
      BY <2>1
    <3> QED
      BY <2>3, <3>1, <3>2, Fewer
  <2>5. ASSUME NEW q \in Pending(t, d, now), c[q].name \in After(s, now)
        PROVE  Cardinality(After(t, now)) + Cardinality(Pending(t, d, now)) < Cardinality(Runners)
    <3>1. c[q].name = x /\ x \in After(s, now) /\ q \in Under(c)
      BY <2>2, <2>5 DEF Under
    <3>2. \A p \in Pending(t, d, now) : p \in Under(c) /\ (c[p].name = x => p = q)
      BY <2>2, <3>1 DEF Remains, Apart, Under
    <3>3. \A p \in Pending(t, d, now) : p = q \/ p \in Pending(s, c, now)
      BY <2>2, <3>2 DEF Pending
    <3> DEFINE A == After(s, now)
               B == Pending(s, c, now)
               C == After(t, now)
               D == Pending(t, d, now)
               k == Cardinality(Runners)
    <3>4. /\ IsFiniteSet(A) /\ IsFiniteSet(B) /\ k \in Nat
          /\ C \subseteq A \ {x} /\ D \subseteq B \cup {q}
          /\ x \in A /\ Cardinality(B) + Cardinality(A) < k
      BY <2>1, <2>3, <3>1, <3>3
    <3>5. Cardinality(C) \in Nat /\ Cardinality(D) \in Nat
      <4>1. IsFiniteSet(B \cup {q})
        BY <3>4, FS_AddElement
      <4>2. IsFiniteSet(C) /\ IsFiniteSet(D)
        BY <3>4, <4>1, FS_Subset
      <4> QED
        BY <4>2, FS_CardinalityType
    <3> HIDE DEF A, B, C, D, k
    <3>6. Cardinality(D) + Cardinality(C) < k
      BY <3>4, Moved
    <3>7. Cardinality(C) + Cardinality(D) < k
      BY <3>5, <3>6, <3>4
    <3> QED
      BY <3>7 DEF C, D, k
  <2> QED
    BY <2>4, <2>5
<1> QED
  BY <1>5, <1>6, <1>7, <1>8, <1>9, <1>10 DEF Remains

\* ExtraStayed: one name is on a list no more, and its file is still there.
LEMMA RemainsStayed ==
  ASSUME NEW s \in Seq(File), Unique(s), NEW c, NEW d,
         NEW r \in Runners, OthersSame(c, d, r),
         NEW now, NEW dead, NEW told, Remains(s, c, now, dead, told),
         c[r].pc = "removing", d[r].pc = "removing", d[r].name = c[r].name,
         d[r].extras \subseteq c[r].extras
  PROVE  Remains(s, d, now, dead, told)
<1>1. Doomed(d) \subseteq Doomed(c) /\ Safe(s, c) \subseteq Safe(s, d)
  <2>1. \A q \in Runners : d[q].extras \subseteq c[q].extras
    BY DEF OthersSame, SameCall
  <2>2. Doomed(d) \subseteq Doomed(c)
    BY <2>1 DEF Doomed
  <2> QED
    BY <2>2 DEF Safe
<1>2. Copiers(d) = Copiers(c) /\ \A q \in Copiers(c) : d[q].name = c[q].name
  BY DEF Copiers, OthersSame, SameCall
<1>3. Apart(s, d)
  <2>1. \A p, q \in Under(d) : d[p].name = d[q].name => p = q
    BY DEF Remains, Apart, Under, OthersSame, SameCall
  <2>2. ASSUME NEW q \in Runners, d[q].pc = "opening"
        PROVE  d[q].name \notin NamesIn(s) \cup Doomed(d)
    BY <2>2, <1>1 DEF Remains, Apart, OthersSame, SameCall
  <2>3. \A q \in Copiers(d), g \in Dir(s) : g.name = d[q].name => ~g.whole /\ q \in g.open
    BY <1>2 DEF Remains, Apart
  <2> QED
    BY <2>1, <2>2, <2>3 DEF Apart
<1>4. ListedPast(d, now)
  BY DEF Remains, ListedPast, OthersSame, SameCall
<1>5. Orphans(s, d) = Orphans(s, c)
  BY <1>2 DEF Orphans
<1>6. SafeLeft(s, d, told)
  BY <1>1 DEF Remains, SafeLeft, Begun
<1>7. ASSUME NEW n \in WholesIn(s)
      PROVE  ListedFew(s, d, n)
  <2>1. n \in NamesIn(s)
    BY WholesAreNames
  <2>2. ASSUME NEW q \in Behind(s, d, n)
        PROVE  q \in Behind(s, c, n)
    <3>1. /\ q \in Copiers(d) /\ d[q].name \in NamesIn(s)
          /\ d[q].name \notin After(s, n) \/ d[q].name \in Doomed(d)
      BY DEF Behind
    <3> QED
      BY <1>1, <1>2, <3>1 DEF Behind
  <2>3. After(s, n) \cap Safe(s, d) = {} => After(s, n) \cap Safe(s, c) = {}
    BY <1>1
  <2>4. ListedFew(s, c, n)
    BY DEF Remains
  <2> QED
    BY <2>1, <2>2, <2>3, <2>4, FewKept
<1>8. Pending(s, d, now) = Pending(s, c, now)
  BY DEF Pending, OthersSame, SameCall
<1> QED
  BY <1>3, <1>4, <1>5, <1>6, <1>7, <1>8 DEF Remains, OrphansFew, FreshFew

\* RunnerDied, CopyStayed: what it had listed is safe again, what it was copying is
\* an orphan.
LEMMA RemainsDied ==
  ASSUME NEW s \in Seq(File), Unique(s), NEW c, NEW d,
         NEW r \in Runners, OthersSame(c, d, r),
         NEW now, NEW dead \in Nat, NEW told, Remains(s, c, now, dead, told),
         d[r].pc = "idle", d[r].extras = {}
  PROVE  Remains(s, d, now, dead + 1, told)
<1>1. Doomed(d) \subseteq Doomed(c) /\ Safe(s, c) \subseteq Safe(s, d)
  <2>1. \A q \in Runners : d[q].extras \subseteq c[q].extras
    BY DEF OthersSame, SameCall
  <2>2. Doomed(d) \subseteq Doomed(c)
    BY <2>1 DEF Doomed
  <2> QED
    BY <2>2 DEF Safe
<1>2. /\ Copiers(d) = Copiers(c) \ {r}
      /\ \A q \in Copiers(d) : d[q].name = c[q].name
  BY DEF Copiers, OthersSame, SameCall
<1>3. Apart(s, d)
  <2>1. \A p, q \in Under(d) : d[p].name = d[q].name => p = q
    BY DEF Remains, Apart, Under, OthersSame, SameCall
  <2>2. ASSUME NEW q \in Runners, d[q].pc = "opening"
        PROVE  d[q].name \notin NamesIn(s) \cup Doomed(d)
    BY <2>2, <1>1 DEF Remains, Apart, OthersSame, SameCall
  <2>3. \A q \in Copiers(d), g \in Dir(s) : g.name = d[q].name => ~g.whole /\ q \in g.open
    BY <1>2 DEF Remains, Apart
  <2> QED
    BY <2>1, <2>2, <2>3 DEF Apart
<1>4. ListedPast(d, now)
  BY DEF Remains, ListedPast, OthersSame, SameCall
<1>5. OrphansFew(s, d, dead + 1)
  <2>1. ASSUME NEW n \in Orphans(s, d)
        PROVE  n \in Orphans(s, c) \cup {c[r].name}
    <3>1. /\ n \in NamesIn(s) /\ n \notin WholesIn(s)
          /\ \A q \in Copiers(d) : d[q].name # n
      BY DEF Orphans
    <3>2. n # c[r].name => \A q \in Copiers(c) : c[q].name # n
      BY <1>2, <3>1
    <3> QED
      BY <3>1, <3>2 DEF Orphans
  <2>2. IsFiniteSet(Orphans(s, c)) /\ Cardinality(Orphans(s, c)) <= dead
    <3>1. IsFiniteSet(NamesIn(s)) /\ Orphans(s, c) \subseteq NamesIn(s)
      BY DirectoryOrdered DEF Ordered, Orphans
    <3> QED
      BY <3>1, FS_Subset DEF Remains, OrphansFew
  <2>3. /\ IsFiniteSet(Orphans(s, c) \cup {c[r].name})
        /\ Cardinality(Orphans(s, c) \cup {c[r].name}) <= Cardinality(Orphans(s, c)) + 1
        /\ Cardinality(Orphans(s, c)) \in Nat
    <3> DEFINE O == Orphans(s, c)
               x == c[r].name
    <3>1. IsFiniteSet(O) /\ Cardinality(O) \in Nat
      BY <2>2, FS_CardinalityType
    <3> HIDE DEF O, x
    <3>2. /\ IsFiniteSet(O \cup {x})
          /\ Cardinality(O \cup {x}) = IF x \in O THEN Cardinality(O) ELSE Cardinality(O) + 1
      BY <3>1, FS_AddElement
    <3>3. Cardinality(O \cup {x}) <= Cardinality(O) + 1
      BY <3>1, <3>2
    <3> QED
      BY <3>1, <3>2, <3>3 DEF O, x
  <2>4. /\ Cardinality(Orphans(s, d)) <= Cardinality(Orphans(s, c) \cup {c[r].name})
        /\ Cardinality(Orphans(s, d)) \in Nat
        /\ Cardinality(Orphans(s, c) \cup {c[r].name}) \in Nat
    BY <2>1, <2>3, FS_Subset, FS_CardinalityType
  <2> QED
    BY <2>2, <2>3, <2>4 DEF OrphansFew
<1>6. SafeLeft(s, d, told)
  <2>1. Begun(s, d, told) => Begun(s, c, told)
    <3>1. ASSUME NEW q \in Copiers(d), d[q].name \notin NamesIn(s)
          PROVE  q \in Copiers(c) /\ c[q].name \notin NamesIn(s)
      BY <1>2, <3>1
    <3>2. ASSUME NEW q \in Runners, d[q].pc \in {"copied", "aging", "expiring", "removing"}
          PROVE  c[q].pc = d[q].pc
      BY <3>2 DEF OthersSame, SameCall
    <3> QED
      BY <3>1, <3>2 DEF Begun
  <2> QED
    BY <1>1, <2>1 DEF SafeLeft, Remains
<1>7. ASSUME NEW n \in WholesIn(s)
      PROVE  ListedFew(s, d, n)
  <2>1. n \in NamesIn(s)
    BY WholesAreNames
  <2>2. ASSUME NEW q \in Behind(s, d, n)
        PROVE  q \in Behind(s, c, n)
    <3>1. /\ q \in Copiers(d) /\ d[q].name \in NamesIn(s)
          /\ d[q].name \notin After(s, n) \/ d[q].name \in Doomed(d)
      BY DEF Behind
    <3> QED
      BY <1>1, <1>2, <3>1 DEF Behind
  <2>3. After(s, n) \cap Safe(s, d) = {} => After(s, n) \cap Safe(s, c) = {}
    BY <1>1
  <2>4. ListedFew(s, c, n)
    BY DEF Remains
  <2> QED
    BY <2>1, <2>2, <2>3, <2>4, FewKept
<1>8. FreshFew(s, d, now)
  <2>1. Pending(s, d, now) \subseteq Pending(s, c, now)
    BY DEF Pending, OthersSame, SameCall
  <2> QED
    BY <2>1, Finite, Fewer DEF FreshFew, Remains
<1> QED
  BY <1>3, <1>4, <1>5, <1>6, <1>7, <1>8 DEF Remains

\* ClockTicked: no file has the name of the new second.
LEMMA RemainsTicked ==
  ASSUME NEW s, NEW c, NEW now \in Nat, NEW dead, NEW told, Remains(s, c, now, dead, told),
         NamesIn(s) \subseteq Nat, \A n \in NamesIn(s) : n <= now,
         \A q \in Runners : c[q].extras \subseteq Nat
  PROVE  Remains(s, c, now + 1, dead, told)
<1>1. ListedPast(c, now + 1)
  <2>1. ASSUME NEW q \in Runners, NEW n \in c[q].extras
        PROVE  n < now + 1
    <3>1. n \in Nat /\ n < now
      BY DEF Remains, ListedPast
    <3> QED
      BY <3>1
  <2> QED
    BY <2>1 DEF Remains, ListedPast
<1>2. now + 1 \notin NamesIn(s)
  <2>1. ~(now + 1 <= now)
    OBVIOUS
  <2> QED
    BY <2>1
<1> QED
  BY <1>1, <1>2 DEF Remains, FreshFew

-----------------------------------------------------------------------------
(***************************************************************************)
(* What the actions do to the directory.                                   *)
(***************************************************************************)
LEMMA PositionsAre ==
  ASSUME NEW n
  PROVE  /\ Positions(n) = {p \in DOMAIN files : files[p].name = n}
         /\ Present(n) <=> n \in NamesIn(files)
         /\ Names = NamesIn(files)
  BY DEF Positions, Present, Names, NamesIn, Dir

\* CopyFailed, FileAged, ExtraRemoved: a file is removed by its name.
LEMMA WithoutIs ==
  ASSUME BackupTyped, NEW n
  PROVE  /\ Without(n) \in Seq(File)
         /\ Unique(Without(n))
         /\ Left(files, Without(n), n)
<1>0. files \in Seq(File) /\ Unique(files)
  BY DEF BackupTyped
<1>1. CASE Present(n)
  <2> DEFINE p == CHOOSE p \in Positions(n) : TRUE
  <2>1. p \in DOMAIN files /\ files[p].name = n
    BY <1>1 DEF Present, Positions
  <2>2. Without(n) = RemoveAt(files, p)
    BY <1>1 DEF Without
  <2> HIDE DEF p
  <2> QED
    BY <1>0, <2>1, <2>2, RemovedLeft
<1>2. CASE ~Present(n)
  <2>1. n \notin NamesIn(files) /\ Without(n) = files
    BY <1>2, PositionsAre DEF Without
  <2>2. Dir(files) = {f \in Dir(files) : f.name # n}
    BY <2>1 DEF NamesIn
  <2>3. \A m \in NamesIn(files) : n \notin After(files, m)
    BY <1>0, <2>1, DirectoryOrdered DEF Ordered
  <2> QED
    BY <1>0, <2>1, <2>2, <2>3 DEF Left
<1> QED
  BY <1>1, <1>2

\* A file that is written becomes the last.
LEMMA TouchedLast ==
  ASSUME BackupTyped, NEW f \in File
  PROVE  /\ Touched(f) \in Seq(File)
         /\ Unique(Touched(f))
         /\ PutLast(files, Touched(f), f)
<1> DEFINE t == Without(f.name)
           u == Append(t, f)
<1>1. t \in Seq(File) /\ Unique(t) /\ Left(files, t, f.name)
  BY WithoutIs
<1>2. Touched(f) = u
  BY DEF Touched
<1> HIDE DEF t
<1>3. NamesIn(t) = NamesIn(files) \ {f.name}
  BY <1>1, LeftNames
<1>4. u \in Seq(File) /\ Unique(u) /\ PutLast(t, u, f)
  BY <1>1, <1>3, AppendedLast
<1> HIDE DEF u
<1>5. PutLast(files, u, f)
  <2>1. Dir(u) = {g \in Dir(files) : g.name # f.name} \cup {f}
    BY <1>1, <1>4 DEF Left, PutLast
  <2>2. After(u, f.name) = {}
    BY <1>4 DEF PutLast
  <2>3. ASSUME NEW n \in NamesIn(files) \ {f.name}
        PROVE  After(u, n) = After(files, n) \cup {f.name}
    <3>1. n \in NamesIn(t) \ {f.name}
      BY <1>3
    <3>2. After(u, n) = After(t, n) \cup {f.name}
      BY <1>4, <3>1 DEF PutLast
    <3>3. After(t, n) = After(files, n) \ {f.name}
      BY <1>1 DEF Left
    <3> QED
      BY <3>2, <3>3
  <2> QED
    BY <2>1, <2>2, <2>3 DEF PutLast
<1> QED
  BY <1>2, <1>4, <1>5

\* CopySpilled, CopyFinished: the call's file becomes the last, if it is there.
Wrote(r, whole, f, g, s, t) ==
    /\ f \in Dir(s) /\ f.name = run[r].name /\ r \in f.open
    /\ g \in File /\ g.name = f.name /\ g.day = clock
    /\ g.whole = (f.whole \/ whole) /\ (~whole => g.open = f.open)
    /\ PutLast(s, t, g)
LEMMA WrittenIs ==
  ASSUME BackupTyped, NEW r \in Runners, NEW whole \in BOOLEAN, Written(r, whole)
  PROVE  /\ files' \in Seq(File) /\ Unique(files')
         /\ \/ /\ files' = files
               /\ \A f \in Dir(files) : f.name = run[r].name => r \notin f.open
            \/ \E f, g : Wrote(r, whole, f, g, files, files')
<1> DEFINE mine == {p \in Positions(run[r].name) : r \in files[p].open}
<1>0. files \in Seq(File) /\ Unique(files) /\ clock \in Nat
  BY DEF BackupTyped
<1>1. CASE mine = {}
  <2>1. files' = files
    BY <1>1 DEF Written
  <2>2. \A f \in Dir(files) : f.name = run[r].name => r \notin f.open
    BY <1>1, PositionsAre DEF Dir
  <2> QED
    BY <1>0, <2>1, <2>2
<1>2. CASE mine # {}
  <2> DEFINE p == CHOOSE p \in mine : TRUE
             f == files[p]
             g == [f EXCEPT !.day = clock, !.whole = @ \/ whole,
                            !.open = IF whole THEN @ \ {r} ELSE @]
  <2>1. p \in DOMAIN files /\ files[p].name = run[r].name /\ r \in files[p].open
    BY <1>2 DEF Positions
  <2>2. files' = Touched(g)
    BY <1>2 DEF Written
  <2>3. f \in File /\ f \in Dir(files) /\ f.name = run[r].name /\ r \in f.open
    <3> HIDE DEF p
    <3>1. DOMAIN files = 1 .. Len(files)
      BY <1>0, LenProperties
    <3>2. files[p] \in File
      BY <2>1, <3>1, <1>0, ElementOfSeq
    <3>3. files[p] \in Dir(files)
      BY <2>1 DEF Dir
    <3> QED
      BY <2>1, <3>2, <3>3
  <2> HIDE DEF p, f
  <2>4. /\ g \in File /\ g.name = f.name /\ g.day = clock
        /\ g.whole = (f.whole \/ whole) /\ (~whole => g.open = f.open)
    BY <1>0, <2>3 DEF File
  <2> HIDE DEF g
  <2>5. files' \in Seq(File) /\ Unique(files') /\ PutLast(files, files', g)
    BY <2>2, <2>4, TouchedLast
  <2>6. Wrote(r, whole, f, g, files, files')
    BY <2>3, <2>4, <2>5 DEF Wrote
  <2> QED
    BY <2>5, <2>6
<1> QED
  BY <1>1, <1>2

\* FileOpened: a new file, or the one of that name, in its place.
LEMMA OpenedIs ==
  ASSUME BackupTyped, NEW r \in Runners, FileOpened(r)
  PROVE  /\ files' \in Seq(File) /\ Unique(files')
         /\ NamesIn(files') = NamesIn(files) \cup {run[r].name}
         /\ \E f \in Dir(files') : f.name = run[r].name /\ r \in f.open
         /\ run[r].name \notin NamesIn(files)
              => \E g : /\ PutLast(files, files', g) /\ g.name = run[r].name
                        /\ ~g.whole /\ r \in g.open
<1> DEFINE n == run[r].name
<1>0. files \in Seq(File) /\ Unique(files) /\ clock \in Nat /\ n \in Nat
  BY DEF BackupTyped, Call
<1>1. CASE ~Present(n)
  <2> DEFINE g == [name |-> n, day |-> clock, whole |-> FALSE, open |-> {r}]
  <2>1. files' = Append(files, g) /\ n \notin NamesIn(files)
    BY <1>1, PositionsAre DEF FileOpened
  <2>2. g \in File /\ g.name = n /\ ~g.whole /\ r \in g.open
    BY <1>0 DEF File
  <2> HIDE DEF g
  <2>3. files' \in Seq(File) /\ Unique(files') /\ PutLast(files, files', g)
    BY <1>0, <2>1, <2>2, AppendedLast
  <2>4. NamesIn(files') = NamesIn(files) \cup {n}
    BY <2>2, <2>3, PutNames
  <2>5. g \in Dir(files')
    BY <2>3 DEF PutLast
  <2> QED
    BY <2>2, <2>3, <2>4, <2>5
<1>2. CASE Present(n)
  <2> DEFINE again(f) == [f EXCEPT !.open = @ \cup {r}]
             t == [p \in DOMAIN files |-> IF files[p].name = n THEN again(files[p]) ELSE files[p]]
  <2>1. files' = t /\ n \in NamesIn(files)
    BY <1>2, PositionsAre DEF FileOpened
  <2>2. \A f \in File : again(f) \in File /\ again(f).name = f.name /\ again(f).open = f.open \cup {r}
    BY DEF File
  <2>3. DOMAIN files = 1 .. Len(files) /\ Len(files) \in Nat /\ \A p \in DOMAIN files : files[p] \in File
    BY <1>0, LenProperties, ElementOfSeq
  <2> HIDE DEF again
  <2>4. \A p \in DOMAIN files : t[p] \in File /\ t[p].name = files[p].name
    BY <2>2, <2>3
  <2>5. t \in Seq(File) /\ DOMAIN t = DOMAIN files
    <3>1. t \in [1 .. Len(files) -> File]
      BY <2>3, <2>4
    <3> HIDE DEF t
    <3> QED
      BY <2>3, <3>1, IsASeq
  <2>6. \E p \in DOMAIN files : t[p].name = n /\ r \in t[p].open
    <3>1. PICK p \in DOMAIN files : files[p].name = n
      BY <2>1 DEF NamesIn, Dir
    <3>2. t[p] = again(files[p])
      BY <3>1
    <3> QED
      BY <3>1, <3>2, <2>2, <2>3
  <2> HIDE DEF t
  <2>7. Unique(t)
    BY <1>0, <2>4, <2>5 DEF Unique
  <2>8. NamesIn(t) = NamesIn(files)
    BY <2>4, <2>5 DEF NamesIn, Dir
  <2>9. \E f \in Dir(t) : f.name = n /\ r \in f.open
    BY <2>5, <2>6 DEF Dir
  <2> QED
    BY <2>1, <2>5, <2>7, <2>8, <2>9
<1> QED
  BY <1>1, <1>2

\* FilesSorted: the extras are the files with too many after them, and what is
\* left is not too many.
LEMMA ExtrasAre ==
  ASSUME BackupTyped, policy.count # 0
  PROVE  /\ Extras = {n \in NamesIn(files) : Cardinality(After(files, n)) >= policy.count}
         /\ Cardinality(NamesIn(files) \ Extras) <= policy.count
<1> DEFINE k == policy.count
           P == {q \in DOMAIN files : q + k <= Len(files)}
           K == {q \in DOMAIN files : ~(q + k <= Len(files))}
<1>0. /\ files \in Seq(File) /\ Unique(files) /\ k \in Nat
      /\ DOMAIN files = 1 .. Len(files) /\ Len(files) \in Nat
  BY BackupAssumption, LenProperties DEF BackupTyped
<1>1. Extras = {files[p].name : p \in P}
  BY DEF Extras
<1>2. \A p \in DOMAIN files : Cardinality(After(files, files[p].name)) = Len(files) - p
  BY <1>0, AfterCounted
<1>3. \A p \in DOMAIN files : p \in P <=> Cardinality(After(files, files[p].name)) >= k
  BY <1>0, <1>2
<1>4. NamesIn(files) = {files[p].name : p \in DOMAIN files}
  BY DEF NamesIn, Dir
<1>5. Extras = {n \in NamesIn(files) : Cardinality(After(files, n)) >= k}
  <2> HIDE DEF k, P
  <2>1. P \subseteq DOMAIN files
    BY DEF P
  <2> QED
    BY <2>1, <1>1, <1>3, <1>4
<1>6. NamesIn(files) \ Extras = {files[p].name : p \in K}
  <2>1. \A p \in DOMAIN files : p \in K <=> p \notin P
    OBVIOUS
  <2>2. K \subseteq DOMAIN files /\ P \subseteq DOMAIN files
    OBVIOUS
  <2> HIDE DEF k, P, K
  <2> QED
    BY <2>1, <2>2, <1>0, <1>1, <1>4 DEF Unique
<1>7. Cardinality(K) <= k
  <2>1. CASE Len(files) <= k
    <3>1. K \subseteq DOMAIN files
      OBVIOUS
    <3> HIDE DEF K, k
    <3>2. IsFiniteSet(DOMAIN files) /\ Cardinality(DOMAIN files) = Len(files)
      <4>1. /\ IsFiniteSet(1 .. Len(files))
            /\ Cardinality(1 .. Len(files)) = IF 1 > Len(files) THEN 0 ELSE Len(files) - 1 + 1
        <5>1. 1 \in Int /\ Len(files) \in Int
          BY <1>0
        <5> QED
          BY <5>1, FS_Interval
      <4> QED
        BY <4>1, <1>0
    <3>3. Cardinality(K) <= Cardinality(DOMAIN files) /\ Cardinality(K) \in Nat
      BY <3>1, <3>2, FS_Subset, FS_CardinalityType
    <3> QED
      BY <2>1, <3>2, <3>3, <1>0
  <2>2. CASE ~(Len(files) <= k)
    <3> DEFINE low == Len(files) - k + 1
    <3>1. K = low .. Len(files)
      BY <1>0, <2>2
    <3>2. low \in Int /\ Len(files) \in Int /\ Len(files) - low + 1 = k
      BY <1>0
    <3> HIDE DEF low, K, k
    <3>3. Cardinality(low .. Len(files)) = IF low > Len(files) THEN 0 ELSE Len(files) - low + 1
      BY <3>2, FS_Interval
    <3> QED
      BY <1>0, <3>1, <3>2, <3>3
  <2> QED
    BY <2>1, <2>2
<1>8. Cardinality(NamesIn(files) \ Extras) = Cardinality(K)
  BY <1>0, <1>6, NamesCounted
<1> QED
  BY <1>5, <1>7, <1>8

-----------------------------------------------------------------------------
(***************************************************************************)
(* What the actions do to the call that takes them.                        *)
(***************************************************************************)
OthersKept(c, d, r) == \A q \in Runners \ {r} : d[q] = c[q]
Goes(r, pc, extras, since) ==
    /\ run' \in [Runners -> Call] /\ OthersKept(run, run', r)
    /\ run'[r].pc = pc /\ run'[r].extras = extras /\ run'[r].since = since
    /\ run'[r].name = run[r].name /\ run'[r].alone = run[r].alone
Stops(r) ==
    /\ run' \in [Runners -> Call] /\ OthersKept(run, run', r)
    /\ run'[r].pc = "idle" /\ run'[r].extras = {} /\ run'[r].since = 0

LEMMA KeptSame ==
  ASSUME NEW c, NEW d, NEW r, OthersKept(c, d, r)
  PROVE  OthersSame(c, d, r)
  BY DEF OthersKept, OthersSame, SameCall

LEMMA NamesTyped ==
  ASSUME BackupTyped
  PROVE  /\ NamesIn(files) \subseteq Nat
         /\ \A q \in Runners : run[q] \in Call /\ run[q].extras \subseteq Nat
         /\ policy.days \in Nat /\ policy.count \in Nat
<1>1. \A p \in DOMAIN files : files[p] \in File
  BY LenProperties, ElementOfSeq DEF BackupTyped
<1>2. NamesIn(files) \subseteq Nat
  BY <1>1 DEF NamesIn, Dir, File
<1>3. policy.days \in Nat /\ policy.count \in Nat
  BY BackupAssumption DEF BackupTyped
<1> QED
  BY <1>2, <1>3 DEF BackupTyped, Call

LEMMA CallGoes ==
  ASSUME BackupTyped, NEW r \in Runners, NEW e \in Call, run' = [run EXCEPT ![r] = e],
         e.name = run[r].name, e.alone = run[r].alone
  PROVE  Goes(r, e.pc, e.extras, e.since)
<1>1. run \in [Runners -> Call]
  BY DEF BackupTyped
<1> QED
  BY <1>1 DEF Goes, OthersKept

LEMMA CallStops ==
  ASSUME BackupTyped, NEW r \in Runners, run' = Ended(r)
  PROVE  Stops(r)
<1> DEFINE e == NotRunning
<1>1. run \in [Runners -> Call]
  BY DEF BackupTyped
<1>2. e \in Call /\ e.pc = "idle" /\ e.extras = {} /\ e.since = 0
  BY DEF Call, NotRunning, Phase
<1>3. run' = [run EXCEPT ![r] = e]
  BY DEF Ended
<1> HIDE DEF e
<1> QED
  BY <1>1, <1>2, <1>3 DEF Stops, OthersKept

\* The actions of a call, one by one.
LEMMA CallMoves ==
  ASSUME BackupTyped, NEW r \in Runners, NEW n
  PROVE  /\ FileOpened(r) => Goes(r, "copying", run[r].extras, run[r].since)
         /\ CopyFinished(r) => Goes(r, "copied", run[r].extras, run[r].since)
         /\ FileMeasured(r) /\ Present(run[r].name) => Goes(r, "aging", run[r].extras, run[r].since)
         /\ FileMeasured(r) /\ ~Present(run[r].name) => Stops(r)
         /\ FilesListed(r) => Goes(r, "expiring", IF policy.days = 0 THEN {} ELSE Expired,
                                   IF policy.days = 0 THEN 0 ELSE clock)
         /\ FileAged(r, n) \/ AgedStayed(r, n)
              => Goes(r, "expiring", run[r].extras \ {n}, run[r].since)
         /\ FilesSorted(r) => Goes(r, "removing", IF policy.count = 0 THEN {} ELSE Extras, 0)
         /\ SortFailed(r) => Goes(r, "removing", {}, 0)
         /\ ExtraRemoved(r, n) \/ ExtraStayed(r, n)
              => Goes(r, "removing", run[r].extras \ {n}, run[r].since)
         /\ CopyFailed(r) \/ CopyStayed(r) \/ BackupReported(r) \/ RunnerDied(r) => Stops(r)
<1> DEFINE c == run[r]
<1>0. c \in Call /\ clock \in Nat /\ NamesIn(files) \subseteq Nat /\ Names = NamesIn(files)
  BY NamesTyped, PositionsAre DEF BackupTyped
<1>1. FileOpened(r) => Goes(r, "copying", run[r].extras, run[r].since)
  <2> SUFFICES ASSUME FileOpened(r) PROVE Goes(r, "copying", run[r].extras, run[r].since)
    OBVIOUS
  <2> DEFINE e == [c EXCEPT !.pc = "copying"]
  <2>1. /\ e \in Call /\ e.pc = "copying" /\ e.extras = c.extras /\ e.since = c.since
        /\ e.name = run[r].name /\ e.alone = run[r].alone
    BY <1>0 DEF Call, Phase
  <2>2. run' = [run EXCEPT ![r] = e]
    BY DEF FileOpened
  <2> HIDE DEF e
  <2> QED
    BY <2>1, <2>2, CallGoes
<1>2. CopyFinished(r) => Goes(r, "copied", run[r].extras, run[r].since)
  <2> SUFFICES ASSUME CopyFinished(r) PROVE Goes(r, "copied", run[r].extras, run[r].since)
    OBVIOUS
  <2> DEFINE e == [c EXCEPT !.pc = "copied"]
  <2>1. /\ e \in Call /\ e.pc = "copied" /\ e.extras = c.extras /\ e.since = c.since
        /\ e.name = run[r].name /\ e.alone = run[r].alone
    BY <1>0 DEF Call, Phase
  <2>2. run' = [run EXCEPT ![r] = e]
    BY DEF CopyFinished
  <2> HIDE DEF e
  <2> QED
    BY <2>1, <2>2, CallGoes
<1>3. FileMeasured(r) /\ Present(run[r].name) => Goes(r, "aging", run[r].extras, run[r].since)
  <2> SUFFICES ASSUME FileMeasured(r), Present(run[r].name)
               PROVE  Goes(r, "aging", run[r].extras, run[r].since)
    OBVIOUS
  <2> DEFINE e == [c EXCEPT !.pc = "aging"]
  <2>1. /\ e \in Call /\ e.pc = "aging" /\ e.extras = c.extras /\ e.since = c.since
        /\ e.name = run[r].name /\ e.alone = run[r].alone
    BY <1>0 DEF Call, Phase
  <2>2. run' = [run EXCEPT ![r] = e]
    BY DEF FileMeasured
  <2> HIDE DEF e
  <2> QED
    BY <2>1, <2>2, CallGoes
<1>4. FileMeasured(r) /\ ~Present(run[r].name) => Stops(r)
  BY CallStops DEF FileMeasured
<1>5. FilesListed(r) => Goes(r, "expiring", IF policy.days = 0 THEN {} ELSE Expired,
                             IF policy.days = 0 THEN 0 ELSE clock)
  <2> DEFINE x == IF policy.days = 0 THEN {} ELSE Expired
             y == IF policy.days = 0 THEN 0 ELSE clock
             e == [c EXCEPT !.pc = "expiring", !.extras = x, !.since = y]
  <2> SUFFICES ASSUME FilesListed(r) PROVE Goes(r, "expiring", x, y)
    OBVIOUS
  <2>1. run' = [run EXCEPT ![r] = e]
    BY <1>0 DEF FilesListed
  <2>2. x \in SUBSET Nat /\ y \in Nat
    BY <1>0 DEF Expired, NamesIn, Dir
  <2> HIDE DEF x, y
  <2>3. /\ e \in Call /\ e.pc = "expiring" /\ e.extras = x /\ e.since = y
        /\ e.name = run[r].name /\ e.alone = run[r].alone
    BY <1>0, <2>2 DEF Call, Phase
  <2> HIDE DEF e
  <2> QED
    BY <2>1, <2>3, CallGoes
<1>6. FileAged(r, n) \/ AgedStayed(r, n)
        => Goes(r, "expiring", run[r].extras \ {n}, run[r].since)
  <2> DEFINE e == [c EXCEPT !.extras = @ \ {n}]
  <2> SUFFICES ASSUME FileAged(r, n) \/ AgedStayed(r, n)
               PROVE  Goes(r, "expiring", run[r].extras \ {n}, run[r].since)
    OBVIOUS
  <2>1. run' = [run EXCEPT ![r] = e] /\ c.pc = "expiring"
    BY DEF FileAged, AgedStayed
  <2>2. /\ e \in Call /\ e.pc = "expiring" /\ e.extras = c.extras \ {n} /\ e.since = c.since
        /\ e.name = run[r].name /\ e.alone = run[r].alone
    BY <1>0, <2>1 DEF Call, Phase
  <2> HIDE DEF e
  <2> QED
    BY <2>1, <2>2, CallGoes
<1>7. FilesSorted(r) => Goes(r, "removing", IF policy.count = 0 THEN {} ELSE Extras, 0)
  <2> DEFINE x == IF policy.count = 0 THEN {} ELSE Extras
             e == [c EXCEPT !.pc = "removing", !.since = 0, !.extras = x]
  <2> SUFFICES ASSUME FilesSorted(r) PROVE Goes(r, "removing", x, 0)
    OBVIOUS
  <2>1. run' = [run EXCEPT ![r] = e]
    BY DEF FilesSorted
  <2>2. x \in SUBSET Nat
    BY <1>0 DEF Extras, NamesIn, Dir
  <2> HIDE DEF x
  <2>3. /\ e \in Call /\ e.pc = "removing" /\ e.extras = x /\ e.since = 0
        /\ e.name = run[r].name /\ e.alone = run[r].alone
    BY <1>0, <2>2 DEF Call, Phase
  <2> HIDE DEF e
  <2> QED
    BY <2>1, <2>3, CallGoes
<1>8. SortFailed(r) => Goes(r, "removing", {}, 0)
  <2> DEFINE e == [c EXCEPT !.pc = "removing", !.since = 0]
  <2> SUFFICES ASSUME SortFailed(r) PROVE Goes(r, "removing", {}, 0)
    OBVIOUS
  <2>1. run' = [run EXCEPT ![r] = e] /\ c.extras = {}
    BY DEF SortFailed
  <2>2. /\ e \in Call /\ e.pc = "removing" /\ e.extras = {} /\ e.since = 0
        /\ e.name = run[r].name /\ e.alone = run[r].alone
    BY <1>0, <2>1 DEF Call, Phase
  <2> HIDE DEF e
  <2> QED
    BY <2>1, <2>2, CallGoes
<1>9. ExtraRemoved(r, n) => Goes(r, "removing", run[r].extras \ {n}, run[r].since)
  <2> DEFINE e == [c EXCEPT !.extras = @ \ {n}]
  <2> SUFFICES ASSUME ExtraRemoved(r, n)
               PROVE  Goes(r, "removing", run[r].extras \ {n}, run[r].since)
    OBVIOUS
  <2>1. run' = [run EXCEPT ![r] = e] /\ c.pc = "removing"
    BY DEF ExtraRemoved
  <2>2. /\ e \in Call /\ e.pc = "removing" /\ e.extras = c.extras \ {n} /\ e.since = c.since
        /\ e.name = run[r].name /\ e.alone = run[r].alone
    BY <1>0, <2>1 DEF Call, Phase
  <2> HIDE DEF e
  <2> QED
    BY <2>1, <2>2, CallGoes
<1>10. ExtraStayed(r, n) => Goes(r, "removing", run[r].extras \ {n}, run[r].since)
  <2> DEFINE e == [c EXCEPT !.extras = @ \ {n}, !.stuck = @ \cup {n}]
  <2> SUFFICES ASSUME ExtraStayed(r, n)
               PROVE  Goes(r, "removing", run[r].extras \ {n}, run[r].since)
    OBVIOUS
  <2>1. run' = [run EXCEPT ![r] = e] /\ c.pc = "removing" /\ n \in c.extras
    BY DEF ExtraStayed
  <2>2. n \in Nat
    BY <1>0, <2>1 DEF Call
  <2>3. /\ e \in Call /\ e.pc = "removing" /\ e.extras = c.extras \ {n} /\ e.since = c.since
        /\ e.name = run[r].name /\ e.alone = run[r].alone
    BY <1>0, <2>1, <2>2 DEF Call, Phase
  <2> HIDE DEF e
  <2> QED
    BY <2>1, <2>3, CallGoes
<1>11. CopyFailed(r) \/ CopyStayed(r) \/ BackupReported(r) \/ RunnerDied(r) => Stops(r)
  BY CallStops DEF CopyFailed, CopyStayed, BackupReported, RunnerDied
<1> QED
  BY <1>1, <1>2, <1>3, <1>4, <1>5, <1>6, <1>7, <1>8, <1>9, <1>10, <1>11

\* BackupBegan: the new call, and what it does to the others.
LEMMA CallBegins ==
  ASSUME BackupTyped, NEW r \in Runners, BackupBegan(r)
  PROVE  /\ run' \in [Runners -> Call]
         /\ run[r].pc = "idle" /\ run'[r].pc = "opening" /\ run'[r].name = clock
         /\ run'[r].extras = {} /\ run'[r].since = 0
         /\ run'[r].alone => Under(run) = {}
         /\ \A q \in Runners \ {r} : /\ SameCall(run, run', q) /\ run'[q].since = run[q].since
                                     /\ run'[q].pc # "idle" => ~run'[q].alone
<1> DEFINE new == [NotRunning EXCEPT !.pc = "opening", !.name = clock,
                                     !.alone = ~\E o \in Runners : Running(o)]
           old(q) == [run[q] EXCEPT !.alone = @ /\ ~Running(q)]
<1>1. run \in [Runners -> Call] /\ clock \in Nat
  BY DEF BackupTyped
<1>2. run' = [q \in Runners |-> IF q = r THEN new ELSE old(q)]
  BY DEF BackupBegan
<1>3. /\ new \in Call /\ new.pc = "opening" /\ new.name = clock
      /\ new.extras = {} /\ new.since = 0 /\ new.alone = ~\E o \in Runners : Running(o)
  BY <1>1 DEF Call, Phase, NotRunning
<1>4. \A q \in Runners : /\ old(q) \in Call /\ old(q).pc = run[q].pc /\ old(q).name = run[q].name
                         /\ old(q).extras = run[q].extras /\ old(q).since = run[q].since
                         /\ old(q).alone = (run[q].alone /\ ~Running(q))
  BY <1>1 DEF Call
<1> HIDE DEF new, old
<1>5. run' \in [Runners -> Call]
  BY <1>2, <1>3, <1>4
<1>6. run'[r] = new /\ \A q \in Runners \ {r} : run'[q] = old(q)
  BY <1>2
<1>7. run[r].pc = "idle"
  BY DEF BackupBegan, Running
<1>8. run'[r].alone => Under(run) = {}
  BY <1>3, <1>6 DEF Under, Running
<1>9. \A q \in Runners \ {r} : /\ SameCall(run, run', q) /\ run'[q].since = run[q].since
                               /\ run'[q].pc # "idle" => ~run'[q].alone
  BY <1>4, <1>6 DEF SameCall, Running
<1> QED
  BY <1>3, <1>5, <1>6, <1>7, <1>8, <1>9

-----------------------------------------------------------------------------
(***************************************************************************)
(* A step of one call, in one disjunct or the other of BackupNext.         *)
(***************************************************************************)
CallStep(r) ==
    \/ FileOpened(r) \/ CopySpilled(r) \/ CopyFinished(r)
    \/ CopyFailed(r) \/ CopyStayed(r) \/ FileMeasured(r) \/ FilesListed(r) \/ FilesSorted(r)
    \/ SortFailed(r) \/ BackupReported(r) \/ RunnerDied(r)
    \/ \E n \in 0 .. MaxTime : \/ FileAged(r, n) \/ AgedStayed(r, n)
                             \/ ExtraRemoved(r, n) \/ ExtraStayed(r, n)

LEMMA NextSteps ==
  ASSUME BackupNext
  PROVE  \/ \E r \in Runners : BackupBegan(r)
         \/ \E r \in Runners : CallStep(r)
         \/ ClockTicked
<1>1. ScheduledBackup => \E r \in Runners : BackupBegan(r)
  BY BackupAssumption DEF ScheduledBackup
<1>2. \A r \in Runners : BackupNow(r) \/ (\E force \in BOOLEAN : BackupCommand(r, force)) => BackupBegan(r)
  BY DEF BackupNow, BackupCommand
<1> QED
  BY <1>1, <1>2 DEF BackupNext, CallStep

\* The variables other than the directory and the call.
LEMMA CallStepKeeps ==
  ASSUME BackupTyped, NEW r \in Runners, CallStep(r)
  PROVE  /\ clock' = clock /\ policy' = policy /\ begun' = begun /\ shared' = shared
         /\ partials' = partials \/ ((RunnerDied(r) \/ CopyStayed(r)) /\ partials' = partials + 1)
         /\ reported' = reported \/ (BackupReported(r) /\ reported' = TRUE)
         /\ run[r].pc # "idle"
  BY DEF CallStep, FileOpened, CopySpilled, CopyFinished, CopyFailed, CopyStayed,
         FileMeasured, FilesListed, FilesSorted, SortFailed, BackupReported, RunnerDied,
         FileAged, AgedStayed, ExtraRemoved, ExtraStayed, Running

\* The call moves on or ends, and the others stay where they are.
Advanced(c, d, r) ==
    /\ OthersKept(c, d, r)
    /\ d[r].pc = "idle" \/ (d[r].name = c[r].name /\ d[r].alone = c[r].alone)

LEMMA CallStepMoves ==
  ASSUME BackupTyped, NEW r \in Runners, CallStep(r)
  PROVE  run' \in [Runners -> Call] /\ Advanced(run, run', r)
<1>1. CASE CopySpilled(r)
  BY <1>1 DEF CopySpilled, Advanced, OthersKept, BackupTyped
<1>2. \A pc, x, y : Goes(r, pc, x, y) => run' \in [Runners -> Call] /\ Advanced(run, run', r)
  BY DEF Goes, Advanced
<1>3. Stops(r) => run' \in [Runners -> Call] /\ Advanced(run, run', r)
  BY DEF Stops, Advanced
<1>4. CASE \E n \in 0 .. MaxTime : \/ FileAged(r, n) \/ AgedStayed(r, n)
                                \/ ExtraRemoved(r, n) \/ ExtraStayed(r, n)
  BY <1>2, <1>4, CallMoves
<1>5. CASE \/ FileOpened(r) \/ CopyFinished(r) \/ CopyFailed(r) \/ CopyStayed(r) \/ FileMeasured(r)
           \/ FilesListed(r) \/ FilesSorted(r) \/ SortFailed(r) \/ BackupReported(r) \/ RunnerDied(r)
  BY <1>2, <1>3, <1>5, CallMoves
<1> QED
  BY <1>1, <1>4, <1>5 DEF CallStep

\* And the directory: no name comes to it but that of the call.
LEMMA CallStepFiles ==
  ASSUME BackupTyped, NEW r \in Runners, CallStep(r)
  PROVE  /\ files' \in Seq(File) /\ Unique(files')
         /\ NamesIn(files') \subseteq NamesIn(files) \cup {run[r].name}
<1>0. files \in Seq(File) /\ Unique(files)
  BY DEF BackupTyped
<1>1. CASE files' = files
  BY <1>0, <1>1
<1>2. ASSUME NEW n, files' = Without(n)
      PROVE  /\ files' \in Seq(File) /\ Unique(files')
             /\ NamesIn(files') \subseteq NamesIn(files) \cup {run[r].name}
  <2>1. Left(files, files', n) /\ files' \in Seq(File) /\ Unique(files')
    BY <1>2, WithoutIs
  <2>2. NamesIn(files') = NamesIn(files) \ {n}
    BY <2>1, LeftNames
  <2> QED
    BY <2>1, <2>2
<1>3. ASSUME NEW whole \in BOOLEAN, Written(r, whole)
      PROVE  /\ files' \in Seq(File) /\ Unique(files')
             /\ NamesIn(files') \subseteq NamesIn(files) \cup {run[r].name}
  <2>1. files' \in Seq(File) /\ Unique(files')
    BY <1>3, WrittenIs
  <2>2. CASE files' = files
    BY <1>0, <2>2
  <2>3. ASSUME NEW f, NEW g, Wrote(r, whole, f, g, files, files')
        PROVE  NamesIn(files') \subseteq NamesIn(files) \cup {run[r].name}
    <3>1. NamesIn(files') = NamesIn(files) \cup {g.name}
      BY <2>3, PutNames DEF Wrote
    <3> QED
      BY <2>3, <3>1 DEF Wrote
  <2> QED
    BY <1>3, <2>1, <2>2, <2>3, WrittenIs
<1>4. CASE FileOpened(r)
  BY <1>4, OpenedIs
<1>5. CASE CopySpilled(r) \/ CopyFinished(r)
  BY <1>3, <1>5 DEF CopySpilled, CopyFinished
<1>6. CASE CopyFailed(r)
  BY <1>2, <1>6 DEF CopyFailed
<1>7. CASE \E n \in 0 .. MaxTime : \/ FileAged(r, n) \/ AgedStayed(r, n)
                                \/ ExtraRemoved(r, n) \/ ExtraStayed(r, n)
  BY <1>1, <1>2, <1>7 DEF FileAged, AgedStayed, ExtraRemoved, ExtraStayed
<1>8. CASE \/ FileMeasured(r) \/ FilesListed(r) \/ FilesSorted(r) \/ SortFailed(r)
           \/ BackupReported(r) \/ RunnerDied(r) \/ CopyStayed(r)
  BY <1>1, <1>8 DEF FileMeasured, FilesListed, FilesSorted, SortFailed, BackupReported, RunnerDied,
                    CopyStayed
<1> QED
  BY <1>4, <1>5, <1>6, <1>7, <1>8 DEF CallStep

LEMMA StepTyped ==
  ASSUME BackupTyped, BackupNext
  PROVE  BackupTyped'
<1>1. CASE \E r \in Runners : BackupBegan(r)
  <2> PICK r \in Runners : BackupBegan(r)
    BY <1>1
  <2>1. run' \in [Runners -> Call]
    BY CallBegins
  <2>2. shared' \in BOOLEAN
    BY DEF BackupBegan
  <2>3. begun' \in Nat
    <3>1. begun \in Nat
      BY DEF BackupTyped
    <3>2. begun' = begun + 1
      BY DEF BackupBegan
    <3> QED
      BY <3>1, <3>2
  <2>4. clock' = clock /\ policy' = policy /\ files' = files /\ partials' = partials /\ reported' = reported
    BY DEF BackupBegan
  <2> QED
    BY <2>1, <2>2, <2>3, <2>4 DEF BackupTyped
<1>2. CASE \E r \in Runners : CallStep(r)
  <2> PICK r \in Runners : CallStep(r)
    BY <1>2
  <2>1. run' \in [Runners -> Call]
    BY CallStepMoves
  <2>2. files' \in Seq(File) /\ Unique(files')
    BY CallStepFiles
  <2>3. partials' \in Nat /\ clock' \in Nat /\ begun' \in Nat
    <3>1. partials \in Nat /\ clock \in Nat /\ begun \in Nat
      BY DEF BackupTyped
    <3>2. (partials' = partials \/ partials' = partials + 1) /\ clock' = clock /\ begun' = begun
      BY CallStepKeeps
    <3> QED
      BY <3>1, <3>2
  <2>4. reported' \in BOOLEAN
    <3>1. reported \in BOOLEAN
      BY DEF BackupTyped
    <3>2. CASE reported' = reported
      BY <3>1, <3>2
    <3>3. CASE reported' = TRUE
      BY <3>3
    <3> QED
      BY <3>2, <3>3, CallStepKeeps
  <2>5. policy' = policy /\ shared' = shared
    BY CallStepKeeps
  <2> QED
    BY <2>1, <2>2, <2>3, <2>4, <2>5 DEF BackupTyped
<1>3. CASE ClockTicked
  BY <1>3 DEF ClockTicked, BackupTyped
<1> QED
  BY <1>1, <1>2, <1>3, NextSteps

-----------------------------------------------------------------------------
(***************************************************************************)
(* The steps keep names and lists in the past.                             *)
(***************************************************************************)
LEMMA CallStepLists ==
  ASSUME BackupTyped, Timely(files, run, clock, policy.days), NEW r \in Runners, CallStep(r)
  PROVE  /\ run'[r].extras # {} => run'[r].pc \in {"expiring", "removing"}
         /\ run'[r].pc = "expiring" /\ run'[r].extras # {} => policy.days # 0
         /\ run'[r].since <= clock
<1>0. /\ run[r].extras # {} => run[r].pc \in {"expiring", "removing"}
      /\ run[r].pc = "expiring" /\ run[r].extras # {} => policy.days # 0
      /\ run[r].since <= clock /\ clock \in Nat /\ 0 <= clock
  BY DEF Timely, BackupTyped
<1>1. CASE CopySpilled(r)
  BY <1>0, <1>1 DEF CopySpilled
<1>2. CASE FileOpened(r) \/ CopyFinished(r) \/ (FileMeasured(r) /\ Present(run[r].name))
  <2>1. run[r].extras = {}
    BY <1>0, <1>2 DEF FileOpened, CopyFinished, FileMeasured
  <2>2. run'[r].extras = {} /\ run'[r].since = run[r].since
    BY <1>2, <2>1, CallMoves DEF Goes
  <2> QED
    BY <2>2, <1>0
<1>3. CASE \/ CopyFailed(r) \/ CopyStayed(r) \/ BackupReported(r) \/ RunnerDied(r)
           \/ (FileMeasured(r) /\ ~Present(run[r].name))
  BY <1>0, <1>3, CallMoves DEF Stops
<1>4. CASE FilesListed(r)
  BY <1>0, <1>4, CallMoves DEF Goes
<1>5. CASE FilesSorted(r) \/ SortFailed(r)
  BY <1>0, <1>5, CallMoves DEF Goes
<1>6. ASSUME NEW n, FileAged(r, n) \/ AgedStayed(r, n) \/ ExtraRemoved(r, n) \/ ExtraStayed(r, n)
      PROVE  /\ run'[r].extras # {} => run'[r].pc \in {"expiring", "removing"}
             /\ run'[r].pc = "expiring" /\ run'[r].extras # {} => policy.days # 0
             /\ run'[r].since <= clock
  <2>1. run'[r].extras = run[r].extras \ {n} /\ run'[r].since = run[r].since
    BY <1>6, CallMoves DEF Goes
  <2>2. /\ run'[r].pc \in {"expiring", "removing"}
        /\ run'[r].pc = "expiring" => run[r].pc = "expiring"
    BY <1>6, CallMoves DEF Goes, FileAged, AgedStayed
  <2>3. run'[r].extras # {} => run[r].extras # {}
    BY <2>1
  <2> QED
    BY <2>1, <2>2, <2>3, <1>0
<1> QED
  BY <1>1, <1>2, <1>3, <1>4, <1>5, <1>6 DEF CallStep

LEMMA StepTimely ==
  ASSUME BackupTyped, Timely(files, run, clock, policy.days), BackupNext
  PROVE  Timely(files', run', clock', policy'.days)
<1>0. clock \in Nat /\ NamesIn(files) \subseteq Nat /\ run \in [Runners -> Call]
  BY NamesTyped DEF BackupTyped
<1>1. CASE \E r \in Runners : BackupBegan(r)
  <2> PICK r \in Runners : BackupBegan(r)
    BY <1>1
  <2>1. clock' = clock /\ policy' = policy /\ files' = files
    BY DEF BackupBegan
  <2>2. \A q \in Under(run') : run'[q].name <= clock
    <3> SUFFICES ASSUME NEW q \in Under(run') PROVE run'[q].name <= clock
      OBVIOUS
    <3>1. CASE q = r
      BY <3>1, <1>0, CallBegins
    <3>2. CASE q # r
      BY <3>2, CallBegins DEF Timely, Under, SameCall
    <3> QED
      BY <3>1, <3>2
  <2>3. \A q \in Runners : run'[q].extras # {} => run'[q].pc \in {"expiring", "removing"}
    BY CallBegins DEF Timely, SameCall
  <2>4. \A q \in Runners : run'[q].pc = "expiring" /\ run'[q].extras # {} => policy.days # 0
    BY CallBegins DEF Timely, SameCall
  <2>5. \A q \in Runners : run'[q].since <= clock
    BY <1>0, CallBegins DEF Timely
  <2> QED
    BY <2>1, <2>2, <2>3, <2>4, <2>5 DEF Timely
<1>2. CASE \E r \in Runners : CallStep(r)
  <2> PICK r \in Runners : CallStep(r)
    BY <1>2
  <2>1. clock' = clock /\ policy' = policy /\ run[r].pc # "idle"
    BY CallStepKeeps
  <2>2. OthersKept(run, run', r) /\ (run'[r].pc = "idle" \/ run'[r].name = run[r].name)
    BY CallStepMoves DEF Advanced
  <2>3. run[r].name <= clock
    BY <2>1 DEF Timely, Under
  <2>4. \A n \in NamesIn(files') : n <= clock
    BY <2>3, CallStepFiles DEF Timely
  <2>5. \A q \in Under(run') : run'[q].name <= clock
    BY <2>2, <2>3 DEF Timely, Under, OthersKept
  <2>6. \A q \in Runners : run'[q].extras # {} => run'[q].pc \in {"expiring", "removing"}
    BY <2>2, CallStepLists DEF Timely, OthersKept
  <2>7. \A q \in Runners : run'[q].pc = "expiring" /\ run'[q].extras # {} => policy.days # 0
    BY <2>2, CallStepLists DEF Timely, OthersKept
  <2>8. \A q \in Runners : run'[q].since <= clock
    BY <2>2, CallStepLists DEF Timely, OthersKept
  <2> QED
    BY <2>1, <2>4, <2>5, <2>6, <2>7, <2>8 DEF Timely
<1>3. CASE ClockTicked
  <2>1. clock' = clock + 1 /\ policy' = policy /\ files' = files /\ run' = run
    BY <1>3 DEF ClockTicked
  <2>2. \A m \in Nat : m <= clock => m <= clock + 1
    BY <1>0
  <2>3. \A n \in NamesIn(files) : n <= clock + 1
    BY <1>0, <2>2 DEF Timely
  <2>4. \A q \in Under(run) : run[q].name <= clock + 1
    BY <1>0, <2>2 DEF Timely, Under, Call
  <2>5. \A q \in Runners : run[q].since <= clock + 1
    BY <1>0, <2>2 DEF Timely, Call
  <2> QED
    BY <2>1, <2>3, <2>4, <2>5 DEF Timely
<1> QED
  BY <1>1, <1>2, <1>3, NextSteps

-----------------------------------------------------------------------------
(***************************************************************************)
(* A call that no other overlaps goes on undisturbed.                      *)
(***************************************************************************)
OwnParts(t, d, r, now, days, count) ==
    AloneOpen(t, d, r) /\ AloneWhole(t, d, r, days, now) /\ AloneFew(t, d, r, count)

\* As a call under way takes a step, the calls that run beside it are not alone.
LEMMA AlonesStep ==
  ASSUME NEW s, NEW t, NEW c, NEW d, NEW r \in Runners, c[r].pc # "idle", Advanced(c, d, r),
         NEW now, NEW days, NEW count, Alones(s, c, now, days, count),
         d[r].pc # "idle" /\ d[r].alone => OwnParts(t, d, r, now, days, count)
  PROVE  Alones(t, d, now, days, count)
<1>1. ASSUME NEW q \in Runners, q # r
      PROVE  d[q] = c[q] /\ (c[q].pc = "idle" \/ ~c[q].alone)
  BY <1>1 DEF Advanced, OthersKept, Alones, AloneOnly, Under
<1>2. ASSUME NEW q \in Runners, q # r
      PROVE  /\ AloneOnly(d, q) /\ AloneOpen(t, d, q)
             /\ AloneWhole(t, d, q, days, now) /\ AloneFew(t, d, q, count)
  BY <1>1, <1>2 DEF AloneOnly, AloneOpen, AloneWhole, AloneFew
<1>3. AloneOnly(d, r)
  <2> SUFFICES ASSUME d[r].pc # "idle", d[r].alone PROVE Under(d) = {r}
    BY DEF AloneOnly
  <2>1. c[r].alone
    BY DEF Advanced
  <2>2. Under(c) = {r}
    BY <2>1 DEF Alones, AloneOnly
  <2> QED
    BY <2>2, <1>1 DEF Under
<1>4. AloneOpen(t, d, r) /\ AloneWhole(t, d, r, days, now) /\ AloneFew(t, d, r, count)
  BY DEF OwnParts, AloneOpen, AloneWhole, AloneFew
<1> QED
  BY <1>2, <1>3, <1>4 DEF Alones

\* A call that begins is alone if none was under way, and no other is any more.
LEMMA AlonesBegan ==
  ASSUME NEW s, NEW c, NEW d, NEW r \in Runners,
         NEW now, NEW days, NEW count, Alones(s, c, now, days, count),
         d[r].pc = "opening", d[r].alone => Under(c) = {},
         \A q \in Runners \ {r} : /\ SameCall(c, d, q)
                                  /\ d[q].pc # "idle" => ~d[q].alone
  PROVE  Alones(s, d, now, days, count)
<1>1. ASSUME NEW q \in Runners, q # r
      PROVE  /\ AloneOnly(d, q) /\ AloneOpen(s, d, q)
             /\ AloneWhole(s, d, q, days, now) /\ AloneFew(s, d, q, count)
  BY <1>1 DEF AloneOnly, AloneOpen, AloneWhole, AloneFew
<1>2. AloneOnly(d, r)
  BY DEF AloneOnly, Under, SameCall
<1>3. AloneOpen(s, d, r) /\ AloneWhole(s, d, r, days, now) /\ AloneFew(s, d, r, count)
  BY DEF AloneOpen, AloneWhole, AloneFew
<1> QED
  BY <1>1, <1>2, <1>3 DEF Alones

\* As time passes, calls only become so long that they may remove their own file.
LEMMA AlonesTicked ==
  ASSUME NEW s, NEW c \in [Runners -> Call], NEW now \in Nat, NEW days \in Nat, NEW count,
         Alones(s, c, now, days, count)
  PROVE  Alones(s, c, now + 1, days, count)
<1>1. ASSUME NEW r \in Runners
      PROVE  AloneWhole(s, c, r, days, now + 1)
  <2>1. c[r].name \in Nat
    BY DEF Call
  <2>2. c[r].name + days < now => c[r].name + days < now + 1
    BY <2>1
  <2>3. AloneWhole(s, c, r, days, now)
    BY DEF Alones
  <2> QED
    BY <2>2, <2>3 DEF AloneWhole
<1> QED
  BY <1>1 DEF Alones

\* What a call that no other overlaps does, action by action.
LEMMA OwnStep ==
  ASSUME BackupTyped, Timely(files, run, clock, policy.days),
         Alones(files, run, clock, policy.days, policy.count),
         NEW r \in Runners, CallStep(r), run'[r].pc # "idle", run'[r].alone
  PROVE  OwnParts(files', run', r, clock, policy.days, policy.count)
<1> DEFINE own == run[r].name
           days == policy.days
           count == policy.count
<1>0. /\ run[r].pc # "idle" /\ run[r].alone /\ run'[r].name = own
      /\ own \in Nat /\ own <= clock /\ clock \in Nat /\ days \in Nat /\ count \in Nat
      /\ files \in Seq(File) /\ Unique(files)
  <2>1. run[r].pc # "idle" /\ run'[r].name = run[r].name /\ run'[r].alone = run[r].alone
    BY CallStepKeeps, CallStepMoves DEF Advanced
  <2>2. own \in Nat /\ clock \in Nat /\ days \in Nat /\ count \in Nat
    BY NamesTyped DEF Call, BackupTyped
  <2> QED
    BY <2>1, <2>2 DEF Timely, Under, BackupTyped
<1>1. /\ AloneOpen(files, run, r) /\ AloneWhole(files, run, r, days, clock)
      /\ AloneFew(files, run, r, count)
  BY DEF Alones
<1> HIDE DEF days, count, own
<1> SUFFICES OwnParts(files', run', r, clock, days, count)
  BY DEF days, count
<1> DEFINE Kept(t) == ~(days # 0 /\ own + days < clock)
                        => /\ \E f \in Dir(t) : f.name = own /\ f.whole /\ f.name <= f.day
                           /\ After(t, own) = {}
<1>2. CASE FileOpened(r)
  <2>1. run'[r].pc = "copying"
    BY <1>2, CallMoves DEF Goes
  <2>2. \E f \in Dir(files') : f.name = own /\ r \in f.open
    BY <1>2, OpenedIs DEF own
  <2> QED
    BY <1>0, <2>1, <2>2 DEF OwnParts, AloneOpen, AloneWhole, AloneFew
<1>3. CASE CopySpilled(r)
  <2>1. run' = run /\ run[r].pc = "copying" /\ Written(r, FALSE)
    BY <1>3 DEF CopySpilled
  <2>2. \E f \in Dir(files) : f.name = own /\ r \in f.open
    BY <1>0, <1>1, <2>1 DEF AloneOpen, own
  <2>3. PICK f, g : Wrote(r, FALSE, f, g, files, files')
    BY <2>1, <2>2, WrittenIs DEF own
  <2>4. g \in Dir(files') /\ g.name = own /\ r \in g.open
    BY <2>3 DEF Wrote, PutLast, own
  <2> QED
    BY <1>0, <2>1, <2>4 DEF OwnParts, AloneOpen, AloneWhole, AloneFew
<1>4. CASE CopyFinished(r)
  <2>1. run[r].pc = "copying" /\ Written(r, TRUE)
    BY <1>4 DEF CopyFinished
  <2>2. \E f \in Dir(files) : f.name = own /\ r \in f.open
    BY <1>0, <1>1, <2>1 DEF AloneOpen, own
  <2>3. PICK f, g : Wrote(r, TRUE, f, g, files, files')
    BY <2>1, <2>2, WrittenIs DEF own
  <2>4. g \in Dir(files') /\ g.name = own /\ g.whole /\ g.day = clock /\ After(files', g.name) = {}
    BY <2>3 DEF Wrote, PutLast, own
  <2>5. run'[r].pc = "copied"
    BY <1>4, CallMoves DEF Goes
  <2>6. Kept(files')
    BY <1>0, <2>4
  <2> QED
    BY <1>0, <2>5, <2>6 DEF OwnParts, AloneOpen, AloneWhole, AloneFew
<1>5. CASE FileMeasured(r) \/ FilesListed(r)
  <2>1. files' = files /\ run[r].pc \in {"copied", "aging"}
    BY <1>5 DEF FileMeasured, FilesListed
  <2>2. run'[r].pc \in {"aging", "expiring"}
    BY <1>5, CallMoves DEF Goes, Stops
  <2>3. Kept(files)
    BY <1>0, <1>1, <2>1 DEF AloneWhole, own
  <2> QED
    BY <1>0, <2>1, <2>2, <2>3 DEF OwnParts, AloneOpen, AloneWhole, AloneFew
<1>6. ASSUME NEW n, FileAged(r, n)
      PROVE  OwnParts(files', run', r, clock, days, count)
  <2>1. run[r].pc = "expiring" /\ run[r].since <= clock /\ run[r].since \in Nat
    BY <1>6, NamesTyped DEF FileAged, Timely, Call
  <2>2. run'[r].pc = "expiring"
    BY <1>6, CallMoves DEF Goes
  <2>3. days # 0
    BY <1>6, <2>1 DEF FileAged, Timely, days
  <2>4. Kept(files)
    BY <1>0, <1>1, <2>1 DEF AloneWhole, own
  <2>5. Kept(files')
    <3>1. CASE files' = files
      BY <2>4, <3>1
    <3>2. CASE files' # files
      <4> SUFFICES ASSUME ~(days # 0 /\ own + days < clock)
                   PROVE  /\ \E f \in Dir(files') : f.name = own /\ f.whole /\ f.name <= f.day
                          /\ After(files', own) = {}
        OBVIOUS
      <4>1. PICK f \in Dir(files) : f.name = own /\ f.whole /\ f.name <= f.day
        BY <2>4
      <4>2. files' = Without(n) /\ \E p \in Positions(n) : files[p].day + days < run[r].since
        BY <1>6, <3>2 DEF FileAged, days
      <4>3. PICK p \in DOMAIN files : files[p].name = n /\ files[p].day + days < run[r].since
        BY <4>2 DEF Positions
      <4>4. n # own
        <5> SUFFICES ASSUME n = own PROVE FALSE
          OBVIOUS
        <5>1. files[p] = f
          BY <4>1, <4>3, <1>0 DEF Dir, Unique
        <5>2. own <= f.day /\ f.day + days < run[r].since
          BY <4>1, <4>3, <5>1
        <5>3. f.day \in Nat
          <6>1. DOMAIN files = 1 .. Len(files) /\ files \in Seq(File)
            BY <1>0, LenProperties
          <6>2. files[p] \in File
            BY <6>1, ElementOfSeq
          <6> QED
            BY <5>1, <6>2 DEF File
        <5> QED
          BY <1>0, <2>1, <2>3, <5>2, <5>3
      <4>5. Left(files, files', n)
        BY <4>2, WithoutIs
      <4>6. f \in Dir(files')
        BY <4>1, <4>4, <4>5 DEF Left
      <4>7. own \in NamesIn(files) \ {n}
        BY <4>1, <4>4 DEF NamesIn
      <4>8. After(files', own) = {}
        BY <2>4, <4>5, <4>7 DEF Left
      <4> QED
        BY <4>1, <4>6, <4>8
    <3> QED
      BY <3>1, <3>2
  <2> QED
    BY <1>0, <2>2, <2>5 DEF OwnParts, AloneOpen, AloneWhole, AloneFew
<1>7. CASE FilesSorted(r)
  <2>1. files' = files /\ run[r].pc = "expiring"
    BY <1>7 DEF FilesSorted
  <2>2. run'[r].pc = "removing" /\ run'[r].extras = IF count = 0 THEN {} ELSE Extras
    BY <1>7, CallMoves DEF Goes, count
  <2>3. Kept(files)
    BY <1>0, <1>1, <2>1 DEF AloneWhole, own
  <2>4. After(files, own) = {} => own \notin run'[r].extras
    <3>1. CASE count = 0
      BY <2>2, <3>1
    <3>2. CASE count # 0
      <4>1. Extras = {n \in NamesIn(files) : Cardinality(After(files, n)) >= count}
        BY <3>2, ExtrasAre DEF count
      <4>2. Cardinality({}) = 0
        BY FS_EmptySet
      <4>3. ~(0 >= count)
        BY <1>0, <3>2
      <4> QED
        BY <2>2, <3>2, <4>1, <4>2, <4>3
    <3> QED
      BY <3>1, <3>2
  <2>5. count # 0 => Cardinality((NamesIn(files) \ run'[r].extras) \ run'[r].stuck) <= count
    <3> DEFINE A == NamesIn(files) \ run'[r].extras
               B == A \ run'[r].stuck
    <3>1. count # 0 => Cardinality(A) <= count
      BY <2>2, ExtrasAre DEF count
    <3>2. IsFiniteSet(A)
      <4>1. IsFiniteSet(NamesIn(files)) /\ A \subseteq NamesIn(files)
        BY <1>0, DirectoryOrdered DEF Ordered
      <4> QED
        BY <4>1, FS_Subset
    <3>3. Cardinality(B) <= Cardinality(A) /\ Cardinality(B) \in Nat /\ Cardinality(A) \in Nat
      BY <3>2, FS_Subset, FS_CardinalityType
    <3> HIDE DEF A, B
    <3>4. count # 0 => Cardinality(B) <= count
      BY <1>0, <3>1, <3>3
    <3> QED
      BY <3>4 DEF A, B
  <2> QED
    BY <1>0, <2>1, <2>2, <2>3, <2>4, <2>5 DEF OwnParts, AloneOpen, AloneWhole, AloneFew
<1>8. CASE SortFailed(r)
  BY <1>0, <1>8 DEF SortFailed
<1>9. ASSUME NEW n, ExtraRemoved(r, n)
      PROVE  OwnParts(files', run', r, clock, days, count)
  <2>1. run[r].pc = "removing" /\ files' = Without(n) /\ n \in run[r].extras
    BY <1>9 DEF ExtraRemoved
  <2>2. run'[r].pc = "removing" /\ run'[r].extras = run[r].extras \ {n}
    BY <1>9, CallMoves DEF Goes
  <2>3. Left(files, files', n)
    BY <2>1, WithoutIs
  <2>4. Kept(files) /\ (~(days # 0 /\ own + days < clock) => own \notin run[r].extras)
    BY <1>0, <1>1, <2>1 DEF AloneWhole, own
  <2>5. Kept(files')
    <3> SUFFICES ASSUME ~(days # 0 /\ own + days < clock)
                 PROVE  /\ \E f \in Dir(files') : f.name = own /\ f.whole /\ f.name <= f.day
                        /\ After(files', own) = {}
      OBVIOUS
    <3>1. PICK f \in Dir(files) : f.name = own /\ f.whole /\ f.name <= f.day
      BY <2>4
    <3>2. n # own
      BY <2>1, <2>4
    <3>3. f \in Dir(files')
      BY <3>1, <3>2, <2>3 DEF Left
    <3>4. own \in NamesIn(files) \ {n}
      BY <3>1, <3>2 DEF NamesIn
    <3>5. After(files', own) = {}
      BY <2>3, <2>4, <3>4 DEF Left
    <3> QED
      BY <3>1, <3>3, <3>5
  <2>6. (NamesIn(files') \ run'[r].extras) \ run'[r].stuck
          = (NamesIn(files) \ run[r].extras) \ run[r].stuck
    <3>1. NamesIn(files') = NamesIn(files) \ {n}
      BY <2>3, LeftNames
    <3>2. run'[r].stuck = run[r].stuck
      BY <1>9 DEF ExtraRemoved, BackupTyped, Call
    <3> QED
      BY <2>1, <2>2, <3>1, <3>2
  <2>7. count # 0 => Cardinality((NamesIn(files') \ run'[r].extras) \ run'[r].stuck) <= count
    BY <1>0, <1>1, <2>1, <2>6 DEF AloneFew
  <2> QED
    BY <1>0, <2>2, <2>4, <2>5, <2>7 DEF OwnParts, AloneOpen, AloneWhole, AloneFew
<1>10. CASE CopyFailed(r) \/ CopyStayed(r) \/ BackupReported(r) \/ RunnerDied(r)
  BY <1>10, CallMoves DEF Stops
<1>11. ASSUME NEW n, AgedStayed(r, n)
       PROVE  OwnParts(files', run', r, clock, days, count)
  <2>1. files' = files /\ run[r].pc = "expiring"
    BY <1>11 DEF AgedStayed
  <2>2. run'[r].pc = "expiring"
    BY <1>11, CallMoves DEF Goes
  <2>3. Kept(files)
    BY <1>0, <1>1, <2>1 DEF AloneWhole, own
  <2> QED
    BY <1>0, <2>1, <2>2, <2>3 DEF OwnParts, AloneOpen, AloneWhole, AloneFew
<1>12. ASSUME NEW n, ExtraStayed(r, n)
       PROVE  OwnParts(files', run', r, clock, days, count)
  <2>1. files' = files /\ run[r].pc = "removing" /\ n \in run[r].extras
    BY <1>12 DEF ExtraStayed
  <2>2. run'[r].pc = "removing" /\ run'[r].extras = run[r].extras \ {n}
    BY <1>12, CallMoves DEF Goes
  <2>3. Kept(files) /\ (~(days # 0 /\ own + days < clock) => own \notin run'[r].extras)
    BY <1>0, <1>1, <2>1, <2>2 DEF AloneWhole, own
  <2>4. run'[r].stuck = run[r].stuck \cup {n}
    BY <1>12 DEF ExtraStayed, BackupTyped, Call
  <2>5. (NamesIn(files) \ run'[r].extras) \ run'[r].stuck
          = (NamesIn(files) \ run[r].extras) \ run[r].stuck
    BY <2>1, <2>2, <2>4
  <2>6. count # 0 => Cardinality((NamesIn(files) \ run'[r].extras) \ run'[r].stuck) <= count
    BY <1>0, <1>1, <2>1, <2>5 DEF AloneFew
  <2> QED
    BY <1>0, <2>1, <2>2, <2>3, <2>6 DEF OwnParts, AloneOpen, AloneWhole, AloneFew
<1> QED
  BY <1>2, <1>3, <1>4, <1>5, <1>6, <1>7, <1>8, <1>9, <1>10, <1>11, <1>12 DEF CallStep

LEMMA StepAlones ==
  ASSUME BackupTyped, Timely(files, run, clock, policy.days),
         Alones(files, run, clock, policy.days, policy.count), BackupNext
  PROVE  Alones(files', run', clock', policy'.days, policy'.count)
<1>1. CASE \E r \in Runners : BackupBegan(r)
  <2> PICK r \in Runners : BackupBegan(r)
    BY <1>1
  <2>1. clock' = clock /\ policy' = policy /\ files' = files
    BY DEF BackupBegan
  <2>2. Alones(files, run', clock, policy.days, policy.count)
    BY CallBegins, AlonesBegan
  <2> QED
    BY <2>1, <2>2
<1>2. CASE \E r \in Runners : CallStep(r)
  <2> PICK r \in Runners : CallStep(r)
    BY <1>2
  <2>1. clock' = clock /\ policy' = policy /\ run[r].pc # "idle"
    BY CallStepKeeps
  <2>2. Advanced(run, run', r)
    BY CallStepMoves
  <2>3. run'[r].pc # "idle" /\ run'[r].alone
          => OwnParts(files', run', r, clock, policy.days, policy.count)
    BY OwnStep
  <2>4. Alones(files', run', clock, policy.days, policy.count)
    BY <2>1, <2>2, <2>3, AlonesStep
  <2> QED
    BY <2>1, <2>4
<1>3. CASE ClockTicked
  <2>1. clock' = clock + 1 /\ policy' = policy /\ files' = files /\ run' = run
    BY <1>3 DEF ClockTicked
  <2>2. Alones(files, run, clock + 1, policy.days, policy.count)
    BY NamesTyped, AlonesTicked DEF BackupTyped
  <2> QED
    BY <2>1, <2>2
<1> QED
  BY <1>1, <1>2, <1>3, NextSteps

-----------------------------------------------------------------------------
(***************************************************************************)
(* Overlapping calls of different seconds leave a whole copy.              *)
(***************************************************************************)
\* What is orderly after a step was so before it.
LEMMA OrderlyBefore ==
  ASSUME BackupTyped, BackupNext, Orderly'
  PROVE  Orderly
<1>0. partials \in Nat /\ policy.count \in Nat /\ Cardinality(Runners) \in Nat
  BY BackupAssumption, NamesTyped, FS_CardinalityType DEF BackupTyped
<1>1. /\ policy' = policy /\ (shared => shared')
      /\ partials' = partials \/ partials' = partials + 1
  <2>1. ASSUME NEW r \in Runners, BackupBegan(r)
        PROVE  policy' = policy /\ (shared => shared') /\ partials' = partials
    BY <2>1 DEF BackupBegan
  <2>2. ASSUME NEW r \in Runners, CallStep(r)
        PROVE  policy' = policy /\ shared' = shared /\ (partials' = partials \/ partials' = partials + 1)
    BY <2>2, CallStepKeeps
  <2>3. CASE ClockTicked
    BY <2>3 DEF ClockTicked
  <2> QED
    BY <2>1, <2>2, <2>3, NextSteps
<1>2. policy.days = 0 /\ ~shared
  BY <1>1 DEF Orderly
<1>3. RoomForAll
  <2>1. policy'.count = 0 \/ (/\ policy'.count >= Cardinality(Runners) + partials'
                              /\ policy'.count >= 2 * (Cardinality(Runners) - 1) + partials')
    BY DEF Orderly, RoomForAll
  <2>2. policy'.count = policy.count
    BY <1>1
  <2>3. policy.count = 0 \/ (/\ policy.count >= Cardinality(Runners) + partials
                             /\ policy.count >= 2 * (Cardinality(Runners) - 1) + partials)
    BY <1>0, <1>1, <2>1, <2>2
  <2> QED
    BY <2>3 DEF RoomForAll
<1> QED
  BY <1>2, <1>3 DEF Orderly

LEMMA CallStepRemains ==
  ASSUME BackupTyped, Timely(files, run, clock, policy.days), Orderly,
         Remains(files, run, clock, partials, reported), NEW r \in Runners, CallStep(r)
  PROVE  Remains(files', run', clock', partials', reported')
<1> DEFINE x == run[r].name
<1>0. /\ files \in Seq(File) /\ Unique(files) /\ clock \in Nat /\ partials \in Nat
      /\ NamesIn(files) \subseteq Nat /\ \A n \in NamesIn(files) : n <= clock
      /\ policy.days = 0
  BY NamesTyped DEF BackupTyped, Timely, Orderly
<1>1. clock' = clock
  BY CallStepKeeps
<1>2. OthersSame(run, run', r)
  BY CallStepMoves, KeptSame DEF Advanced
<1>3. run[r].extras # {} => run[r].pc = "removing"
  BY DEF Remains, ListedPast
<1>4. CASE FileOpened(r)
  <2>1. x \notin NamesIn(files) /\ run[r].pc = "opening"
    BY <1>4 DEF FileOpened, Remains, Apart
  <2>2. PICK g : PutLast(files, files', g) /\ g.name = x /\ ~g.whole /\ r \in g.open
    BY <1>4, <2>1, OpenedIs
  <2>3. run'[r].pc = "copying" /\ run'[r].name = run[r].name /\ run'[r].extras = run[r].extras
    BY <1>4, CallMoves DEF Goes
  <2>4. partials' = partials /\ reported' = reported
    BY <1>4 DEF FileOpened
  <2>5. Remains(files', run', clock, partials, reported)
    BY <1>0, <1>2, <2>1, <2>2, <2>3, RemainsOpened
  <2> QED
    BY <1>1, <2>4, <2>5
<1>5. CASE CopySpilled(r)
  <2>1. /\ run[r].pc = "copying" /\ Written(r, FALSE) /\ run' = run
        /\ partials' = partials /\ reported' = reported
    BY <1>5 DEF CopySpilled
  <2>2. CASE files' = files
    BY <1>1, <2>1, <2>2
  <2>3. ASSUME NEW f, NEW g, Wrote(r, FALSE, f, g, files, files')
        PROVE  Remains(files', run', clock', partials', reported')
    <3>1. f \in Dir(files) /\ f.name = x /\ r \in f.open /\ r \in Copiers(run)
      BY <2>1, <2>3 DEF Wrote, Copiers
    <3>2. ~f.whole /\ x \in NamesIn(files)
      BY <3>1 DEF Remains, Apart, NamesIn
    <3>3. PutLast(files, files', g) /\ g.name = x /\ ~g.whole /\ r \in g.open
      BY <2>3, <3>1, <3>2 DEF Wrote
    <3>4. Remains(files', run, clock, partials, reported)
      BY <1>0, <2>1, <3>2, <3>3, RemainsSpilled
    <3> QED
      BY <1>1, <2>1, <3>4
  <2> QED
    BY <2>1, <2>2, <2>3, WrittenIs
<1>6. CASE CopyFinished(r)
  <2>1. /\ run[r].pc = "copying" /\ Written(r, TRUE)
        /\ partials' = partials /\ reported' = reported
    BY <1>6 DEF CopyFinished
  <2>2. run'[r].pc = "copied" /\ run'[r].name = run[r].name /\ run'[r].extras = run[r].extras
    BY <1>6, CallMoves DEF Goes
  <2>3. CASE files' = files /\ \A f \in Dir(files) : f.name = x => r \notin f.open
    <3>1. r \in Copiers(run)
      BY <2>1 DEF Copiers
    <3>2. x \notin NamesIn(files)
      BY <2>3, <3>1 DEF Remains, Apart, NamesIn
    <3>3. Remains(files, run', clock, partials, reported)
      BY <1>0, <1>2, <2>1, <2>2, <3>2, RemainsLost
    <3> QED
      BY <1>1, <2>1, <2>3, <3>3
  <2>4. ASSUME NEW f, NEW g, Wrote(r, TRUE, f, g, files, files')
        PROVE  Remains(files', run', clock', partials', reported')
    <3>1. f \in Dir(files) /\ f.name = x /\ g.name = x /\ g.whole /\ PutLast(files, files', g)
      BY <2>4 DEF Wrote
    <3>2. x \in NamesIn(files)
      BY <3>1 DEF NamesIn
    <3>3. Remains(files', run', clock, partials, reported)
      BY <1>0, <1>2, <2>1, <2>2, <3>1, <3>2, RemainsFinished
    <3> QED
      BY <1>1, <2>1, <3>3
  <2> QED
    BY <2>1, <2>3, <2>4, WrittenIs
<1>7. CASE CopyFailed(r)
  <2>1. /\ run[r].pc \in {"opening", "copying"} /\ files' = Without(x)
        /\ partials' = partials /\ reported' = reported
    BY <1>7 DEF CopyFailed
  <2>2. run'[r].pc = "idle" /\ run'[r].extras = {}
    BY <1>7, CallMoves DEF Stops
  <2>3. Left(files, files', x)
    BY <2>1, WithoutIs
  <2>4. Remains(files', run', clock, partials, reported)
    BY <1>0, <1>2, <2>1, <2>2, <2>3, RemainsFailed
  <2> QED
    BY <1>1, <2>1, <2>4
<1>8. CASE FileMeasured(r) \/ FilesListed(r) \/ SortFailed(r) \/ BackupReported(r)
  <2>1. /\ run[r].pc \in {"copied", "aging", "expiring", "removing"} /\ run[r].extras = {}
        /\ files' = files /\ partials' = partials
    BY <1>3, <1>8 DEF FileMeasured, FilesListed, SortFailed, BackupReported
  <2>2. /\ run'[r].pc \in {"idle", "aging", "expiring", "removing"} /\ run'[r].extras = {}
        /\ run'[r].pc # "idle" => run'[r].name = run[r].name
    BY <1>0, <1>8, <2>1, CallMoves DEF Goes, Stops
  <2>3. Remains(files, run', clock, partials, reported')
    BY <1>0, <1>2, <2>1, <2>2, RemainsPast
  <2> QED
    BY <1>1, <2>1, <2>3
<1>9. ASSUME NEW n, FileAged(r, n) \/ AgedStayed(r, n)
      PROVE  FALSE
  BY <1>3, <1>9 DEF FileAged, AgedStayed
<1>10. CASE FilesSorted(r)
  <2> DEFINE count == policy.count
  <2>1. /\ run[r].pc = "expiring" /\ run[r].extras = {}
        /\ files' = files /\ partials' = partials /\ reported' = reported
    BY <1>10 DEF FilesSorted
  <2>2. /\ run'[r].pc = "removing" /\ run'[r].name = run[r].name
        /\ run'[r].extras = IF count = 0 THEN {} ELSE Extras
    BY <1>10, CallMoves DEF Goes
  <2>3. count \in Nat /\ RoomIn(count, partials)
    BY NamesTyped DEF Orderly, RoomForAll, RoomIn
  <2>4. run'[r].extras = Excess(files, count)
    BY <2>2, ExtrasAre DEF Excess
  <2> HIDE DEF count
  <2>5. Remains(files, run', clock, partials, reported)
    BY <1>0, <1>2, <2>1, <2>2, <2>3, <2>4, RemainsSorted
  <2> QED
    BY <1>1, <2>1, <2>5
<1>11. ASSUME NEW n, ExtraRemoved(r, n)
       PROVE  Remains(files', run', clock', partials', reported')
  <2>1. /\ run[r].pc = "removing" /\ n \in run[r].extras /\ files' = Without(n)
        /\ partials' = partials /\ reported' = reported
    BY <1>11 DEF ExtraRemoved
  <2>2. /\ run'[r].pc = "removing" /\ run'[r].name = run[r].name
        /\ run'[r].extras = run[r].extras \ {n}
    BY <1>11, CallMoves DEF Goes
  <2>3. Left(files, files', n)
    BY <2>1, WithoutIs
  <2>4. Remains(files', run', clock, partials, reported)
    BY <1>0, <1>2, <2>1, <2>2, <2>3, RemainsRemoved
  <2> QED
    BY <1>1, <2>1, <2>4
<1>12. CASE RunnerDied(r) \/ CopyStayed(r)
  <2>1. files' = files /\ partials' = partials + 1 /\ reported' = reported
    BY <1>12 DEF RunnerDied, CopyStayed
  <2>2. run'[r].pc = "idle" /\ run'[r].extras = {}
    BY <1>12, CallMoves DEF Stops
  <2>3. Remains(files, run', clock, partials + 1, reported)
    BY <1>0, <1>2, <2>2, RemainsDied
  <2> QED
    BY <1>1, <2>1, <2>3
<1>13. ASSUME NEW n, ExtraStayed(r, n)
       PROVE  Remains(files', run', clock', partials', reported')
  <2>1. /\ run[r].pc = "removing" /\ files' = files
        /\ partials' = partials /\ reported' = reported
    BY <1>13 DEF ExtraStayed
  <2>2. /\ run'[r].pc = "removing" /\ run'[r].name = run[r].name
        /\ run'[r].extras = run[r].extras \ {n}
    BY <1>13, CallMoves DEF Goes
  <2>3. run'[r].extras \subseteq run[r].extras
    BY <2>2
  <2>4. Remains(files, run', clock, partials, reported)
    BY <1>0, <1>2, <2>1, <2>2, <2>3, RemainsStayed
  <2> QED
    BY <1>1, <2>1, <2>4
<1> QED
  BY <1>4, <1>5, <1>6, <1>7, <1>8, <1>9, <1>10, <1>11, <1>12, <1>13 DEF CallStep

LEMMA StepRemains ==
  ASSUME BackupTyped, Timely(files, run, clock, policy.days), RemainInv, BackupNext
  PROVE  RemainInv'
<1> SUFFICES ASSUME Orderly'
             PROVE  Remains(files', run', clock', partials', reported')
  BY DEF RemainInv
<1>0. Orderly /\ Remains(files, run, clock, partials, reported)
  BY OrderlyBefore DEF RemainInv
<1>1. /\ files \in Seq(File) /\ Unique(files) /\ clock \in Nat
      /\ NamesIn(files) \subseteq Nat /\ \A n \in NamesIn(files) : n <= clock
      /\ \A q \in Runners : run[q].extras \subseteq Nat
  BY NamesTyped DEF BackupTyped, Timely
<1>2. CASE \E r \in Runners : BackupBegan(r)
  <2> PICK r \in Runners : BackupBegan(r)
    BY <1>2
  <2>1. clock' = clock /\ files' = files /\ partials' = partials /\ reported' = reported
    BY DEF BackupBegan
  <2>2. ~shared'
    BY DEF Orderly
  <2>3. ~Present(clock) /\ ~\E q \in Runners : Running(q) /\ run[q].name = clock
    BY <2>2 DEF BackupBegan
  <2>4. clock \notin NamesIn(files) /\ \A q \in Under(run) : run[q].name # clock
    BY <2>3, PositionsAre DEF Under, Running
  <2>5. OthersSame(run, run', r)
    BY CallBegins DEF OthersSame
  <2>6. /\ run[r].pc = "idle" /\ run'[r].pc = "opening" /\ run'[r].name = clock
        /\ run'[r].extras = {}
    BY CallBegins
  <2>7. run[r].extras = {}
    BY <1>0, <2>6 DEF Remains, ListedPast
  <2>8. Remains(files, run', clock, partials, reported)
    BY <1>0, <1>1, <2>4, <2>5, <2>6, <2>7, RemainsBegan
  <2> QED
    BY <2>1, <2>8
<1>3. CASE \E r \in Runners : CallStep(r)
  BY <1>0, <1>3, CallStepRemains
<1>4. CASE ClockTicked
  <2>1. /\ clock' = clock + 1 /\ files' = files /\ run' = run
        /\ partials' = partials /\ reported' = reported
    BY <1>4 DEF ClockTicked
  <2>2. Remains(files, run, clock + 1, partials, reported)
    BY <1>0, <1>1, RemainsTicked
  <2> QED
    BY <2>1, <2>2
<1> QED
  BY <1>2, <1>3, <1>4, NextSteps

-----------------------------------------------------------------------------
(***************************************************************************)
(* The theorems.                                                           *)
(***************************************************************************)
LEMMA InitInv ==
  ASSUME BackupInit
  PROVE  BackupInv
<1>0. /\ clock = 0 /\ partials = 0 /\ files = <<>> /\ ~reported
      /\ run \in [Runners -> Call]
      /\ \A r \in Runners : /\ run[r].pc = "idle" /\ run[r].extras = {} /\ run[r].since = 0
  <2>1. run = [r \in Runners |-> NotRunning]
    BY DEF BackupInit
  <2>2. /\ NotRunning \in Call /\ NotRunning.pc = "idle" /\ NotRunning.extras = {}
        /\ NotRunning.since = 0
    BY DEF NotRunning, Call, Phase
  <2> HIDE DEF NotRunning
  <2>3. clock = 0 /\ partials = 0 /\ files = <<>> /\ ~reported
    BY DEF BackupInit
  <2> QED
    BY <2>1, <2>2, <2>3
<1>1. Dir(<<>>) = {} /\ NamesIn(<<>>) = {} /\ WholesIn(<<>>) = {} /\ \A n : After(<<>>, n) = {}
  BY DEF Dir, NamesIn, WholesIn, After
<1>2. BackupTyped
  <2>1. <<>> \in Seq(File) /\ Unique(<<>>)
    BY DEF Unique
  <2>2. shared \in BOOLEAN /\ reported \in BOOLEAN /\ begun \in Nat /\ policy \in Policies
    BY DEF BackupInit
  <2> QED
    BY <1>0, <2>1, <2>2 DEF BackupTyped
<1>3. Timely(files, run, clock, policy.days)
  BY <1>0, <1>1 DEF Timely, Under
<1>4. Alones(files, run, clock, policy.days, policy.count)
  BY <1>0 DEF Alones, AloneOnly, AloneOpen, AloneWhole, AloneFew
<1>5. Remains(files, run, clock, partials, reported)
  <2>1. Under(run) = {} /\ Copiers(run) = {}
    BY <1>0 DEF Under, Copiers
  <2>2. Apart(files, run) /\ ListedPast(run, clock)
    BY <1>0, <1>1, <2>1 DEF Apart, ListedPast
  <2>3. OrphansFew(files, run, partials)
    <3>1. Orphans(files, run) = {}
      BY <1>0, <1>1 DEF Orphans
    <3>2. Cardinality({}) = 0 /\ partials = 0
      BY <1>0, FS_EmptySet
    <3>3. Cardinality(Orphans(files, run)) = 0
      BY <3>1, <3>2
    <3> QED
      BY <3>2, <3>3 DEF OrphansFew
  <2>4. SafeLeft(files, run, reported)
    BY <1>0, <2>1 DEF SafeLeft, Begun
  <2>5. FreshFew(files, run, clock)
    BY <1>0, <1>1 DEF FreshFew
  <2>6. \A n \in WholesIn(files) : ListedFew(files, run, n)
    BY <1>0, <1>1
  <2> QED
    BY <2>2, <2>3, <2>4, <2>5, <2>6 DEF Remains
<1> QED
  BY <1>2, <1>3, <1>4, <1>5 DEF BackupInv, RemainInv

LEMMA StepInv ==
  ASSUME BackupInv, [BackupNext]_backupVars
  PROVE  BackupInv'
<1>1. CASE BackupNext
  <2>1. BackupTyped'
    BY <1>1, StepTyped DEF BackupInv
  <2>2. Timely(files', run', clock', policy'.days)
    BY <1>1, StepTimely DEF BackupInv
  <2>3. Alones(files', run', clock', policy'.days, policy'.count)
    BY <1>1, StepAlones DEF BackupInv
  <2>4. RemainInv'
    BY <1>1, StepRemains DEF BackupInv
  <2> QED
    BY <2>1, <2>2, <2>3, <2>4 DEF BackupInv
<1>2. CASE UNCHANGED backupVars
  BY <1>2 DEF backupVars, BackupInv, BackupTyped, RemainInv, Orderly, RoomForAll
<1> QED
  BY <1>1, <1>2

\* The invariant the two properties rest on: the types, the files and the lists
\* in the past, where a call no other overlaps stands, and the accounts that
\* keep one whole copy on nobody's list (run_backup, _apply_max_count).
THEOREM BackupInvariant == BackupSpec => []BackupInv
<1> QED
  BY InitInv, StepInv, PTL DEF BackupSpec

\* Calls that prune each other's files leave a complete backup once one was
\* reported, whatever their number and whichever removals are refused, as long as
\* the limit has room for all of them and for the partial files of those killed,
\* or failed and unable to remove them, nothing ages and no two began in one
\* second (_apply_max_count).
THEOREM BackupsRemain == BackupSpec => []BackupRemains
<1>1. BackupInv => BackupRemains
  <2> SUFFICES ASSUME BackupInv, reported, policy.days = 0, ~shared, RoomForAll
               PROVE  Recoverable
    BY DEF BackupRemains
  <2>1. Remains(files, run, clock, partials, reported)
    BY DEF BackupInv, RemainInv, Orderly
  <2>2. WholesIn(files) # {}
    BY <2>1 DEF Remains, SafeLeft, Begun, Safe
  <2> QED
    BY <2>2 DEF WholesIn, Dir, Recoverable
<1> QED
  BY <1>1, BackupInvariant, PTL

\* A call that no other overlaps and that is not outlived by the days it keeps
\* backups for has, when it reports success, its own complete copy in the
\* directory and no more files than the limit beside the extra ones it was refused
\* the removal of, whatever dead and failed calls left there (run_backup,
\* _apply_max_count).
THEOREM AloneKept == BackupSpec => AloneKeepsPromise
<1>1. ASSUME BackupInv, [BackupNext]_backupVars
      PROVE  [\A r \in Runners :
                /\ run[r].alone /\ ~Aged(r)
                /\ run[r].pc = "removing" /\ run'[r].pc = "idle" /\ partials' = partials
                => /\ \E p \in Positions(run[r].name) : files[p].whole
                   /\ policy.count # 0
                        => Cardinality(Names \ run[r].stuck) <= policy.count]_backupVars
  <2> SUFFICES ASSUME BackupNext, NEW r \in Runners, run[r].alone, ~Aged(r),
                      run[r].pc = "removing", run'[r].pc = "idle", partials' = partials
               PROVE  /\ \E p \in Positions(run[r].name) : files[p].whole
                      /\ policy.count # 0
                           => Cardinality(Names \ run[r].stuck) <= policy.count
    BY <1>1
  <2>0. BackupTyped
    BY <1>1 DEF BackupInv
  <2>1. BackupReported(r)
    <3>1. ASSUME NEW q \in Runners, BackupBegan(q)
          PROVE  FALSE
      BY <2>0, <3>1, CallBegins DEF SameCall
    <3>2. ~ClockTicked
      BY DEF ClockTicked
    <3>3. PICK q \in Runners : CallStep(q)
      BY <3>1, <3>2, NextSteps
    <3>4. q = r
      BY <2>0, <3>3, CallStepMoves DEF Advanced, OthersKept
    <3>5. ~RunnerDied(r) /\ ~CopyStayed(r)
      <4>1. partials \in Nat
        BY <2>0 DEF BackupTyped
      <4> QED
        BY <4>1 DEF RunnerDied, CopyStayed
    <3>6. ASSUME NEW n
          PROVE  /\ ~FileAged(r, n) /\ ~AgedStayed(r, n)
                 /\ ~ExtraRemoved(r, n) /\ ~ExtraStayed(r, n)
      BY <2>0, CallMoves DEF Goes
    <3>7. ~CopySpilled(r)
      BY DEF CopySpilled
    <3> QED
      BY <3>3, <3>4, <3>5, <3>6, <3>7
      DEF CallStep, FileOpened, CopyFinished, CopyFailed, FileMeasured, FilesListed,
          FilesSorted, SortFailed
  <2>2. run[r].extras = {}
    BY <2>1 DEF BackupReported
  <2>3. AloneWhole(files, run, r, policy.days, clock) /\ AloneFew(files, run, r, policy.count)
    BY <1>1 DEF BackupInv, Alones
  <2>4. \E p \in Positions(run[r].name) : files[p].whole
    BY <2>3 DEF AloneWhole, Aged, Dir, Positions
  <2>5. policy.count # 0 => Cardinality(Names \ run[r].stuck) <= policy.count
    <3>1. (NamesIn(files) \ run[r].extras) \ run[r].stuck = Names \ run[r].stuck
      BY <2>2, PositionsAre
    <3> QED
      BY <2>3, <3>1 DEF AloneFew
  <2> QED
    BY <2>4, <2>5
<1> QED
  BY <1>1, BackupInvariant, PTL DEF AloneKeepsPromise, BackupSpec
===============================================================================
