------------------------------- MODULE Traffic -------------------------------
(***************************************************************************)
(* Calls of the API: the rate limiter they pass and the rows they leave in *)
(* the activity log.                                                       *)
(*                                                                         *)
(* The limiter keeps one entry [n, start] per token, and one for the       *)
(* address all callers share here, in Django's cache.  An entry is read,   *)
(* judged and written back in separate steps.                              *)
(***************************************************************************)
EXTENDS Naturals, FiniteSets

CONSTANTS
    Workers,     \* threads that answer calls
    Callers,     \* users of the API, one token each
    Address,     \* the address they call from; also the caller of the open lists
    Limit,       \* calls per window for a token
    AddressLimit,\* calls per window for the address; three times Limit in the code
    Window,      \* length of a window: 60 s, in ticks
    MaxCalls,    \* bound on the calls made
    MaxTime,     \* bound on the clock
    Null

ASSUME TrafficAssumption ==
    /\ Limit \in Nat \ {0} /\ AddressLimit \in Nat \ {0} /\ Window \in Nat \ {0}
    /\ MaxCalls \in Nat /\ MaxTime \in Nat
    /\ Address \notin Callers /\ Null \notin Workers \cup Callers \cup {Address}
    /\ Null \notin [n : Nat, start : Nat] /\ IsFiniteSet(Workers)

Counters == Callers \cup {Address}
LimitOf(k) == IF k = Address THEN AddressLimit ELSE Limit
Time == 0 .. MaxTime

VARIABLES
    now,
    entry,    \* [n, start] of every counter, or Null
    call,     \* what every worker is doing
    raced,    \* history: counters written while another worker had read them
    lost,     \* history: how often a counter vanished before its window was over
    begun,    \* history: when the windows of each counter began
    passed,   \* history: calls each counter let through, by the time it was read
    rows,     \* rows of the log the rate monitor counts, by caller and time
    seen,     \* times at which the silence monitor saw a caller
    calls

traffic == <<now, entry, call, raced, lost, begun, passed, rows, seen, calls>>

NoCall == [pc |-> "idle", who |-> Null, key |-> Null, at |-> 0, read |-> Null]

TrafficInit ==
    /\ now = 0
    /\ entry = [k \in Counters |-> Null]
    /\ call = [w \in Workers |-> NoCall]
    /\ raced = {}
    /\ lost = [k \in Counters |-> 0]
    /\ begun = [k \in Counters |-> {}]
    /\ passed = [k \in Counters |-> [i \in Time |-> 0]]
    /\ rows = [c \in Counters |-> [i \in Time |-> 0]]
    /\ seen = [c \in Counters |-> {}]
    /\ calls = 0

Becomes(w, k) == call' = [call EXCEPT ![w] = k]
Grown(f, k, i) == [f EXCEPT ![k] = [f[k] EXCEPT ![i] = f[k][i] + 1]]

-----------------------------------------------------------------------------

\* A report or a status request whose token is good is counted first.
CallBegan(w, c) ==
    /\ calls < MaxCalls /\ calls' = calls + 1
    /\ call[w].pc = "idle"
    /\ Becomes(w, [NoCall EXCEPT !.pc = "counting", !.who = c, !.key = c])
    /\ UNCHANGED <<now, entry, raced, lost, begun, passed, rows, seen>>

\* The published lists ask for no token and are not counted.
ListCalled(w) ==
    /\ calls < MaxCalls /\ calls' = calls + 1
    /\ call[w].pc = "idle"
    /\ Becomes(w, [NoCall EXCEPT !.pc = "serving", !.who = Address])
    /\ UNCHANGED <<now, entry, raced, lost, begun, passed, rows, seen>>

\* Mutant of Over: a window is a tick longer.
OverLate(e, t) == e = Null \/ t - e.start > Window

\* The window of entry e is over, or there is none.
Over(e, t) == e = Null \/ t - e.start >= Window

\* Mutant of Full: the limit may be passed by one.
FullLate(e, k, t) == ~Over(e, t) /\ e.n > LimitOf(k)

Full(e, k, t) == ~Over(e, t) /\ e.n >= LimitOf(k)

CounterRead(w) ==
    LET k == call[w]
        e == entry[k.key]
    IN /\ k.pc = "counting"
       /\ Becomes(w, [k EXCEPT !.pc = IF Full(e, k.key, now) THEN "refused" ELSE "counted",
                               !.at = now, !.read = e])
       /\ UNCHANGED <<now, entry, raced, lost, begun, passed, rows, seen, calls>>

Counted(e, t) == IF Over(e, t) THEN [n |-> 1, start |-> t] ELSE [n |-> e.n + 1, start |-> e.start]

\* Written from what was read, whatever others have written meanwhile.
CounterSet(w) ==
    LET k == call[w] IN
    /\ k.pc = "counted"
    /\ entry' = [entry EXCEPT ![k.key] = Counted(k.read, k.at)]
    /\ raced' = IF \E v \in Workers \ {w} : call[v].pc = "counted" /\ call[v].key = k.key
                 THEN raced \cup {k.key} ELSE raced
    /\ begun' = IF Over(k.read, k.at)
                 THEN [begun EXCEPT ![k.key] = begun[k.key] \cup {k.at}] ELSE begun
    /\ passed' = Grown(passed, k.key, k.at)
    /\ Becomes(w, IF k.key = Address
                  THEN [NoCall EXCEPT !.pc = "serving", !.who = k.who]
                  ELSE [NoCall EXCEPT !.pc = "counting", !.who = k.who, !.key = Address])
    /\ UNCHANGED <<now, lost, rows, seen, calls>>

\* The cache may drop an entry at any time: its timeout is cut to whole seconds,
\* by the limiter and by the backend, and a full cache is culled.
EntryExpired(k) ==
    /\ entry[k] # Null
    /\ entry' = [entry EXCEPT ![k] = Null]
    /\ lost' = IF Over(entry[k], now) THEN lost ELSE [lost EXCEPT ![k] = lost[k] + 1]
    /\ UNCHANGED <<now, call, raced, begun, passed, rows, seen, calls>>

\* A refusal is a row of the caller, though no sign of life.
Refused(w) ==
    /\ call[w].pc = "refused"
    /\ rows' = Grown(rows, call[w].who, now)
    /\ Becomes(w, NoCall)
    /\ UNCHANGED <<now, entry, raced, lost, begun, passed, seen, calls>>

Saw(c) == seen' = [seen EXCEPT ![c] = seen[c] \cup {now}]

\* The row is written once the answer is known: none for a call that is not
\* valid, and one that only the silence monitor knows for URLs.
Served(w) ==
    LET c == call[w].who IN
    /\ call[w].pc = "serving"
    /\ Becomes(w, NoCall)
    /\ \/ UNCHANGED <<rows, seen>>
       \/ Saw(c) /\ UNCHANGED rows
       \/ Saw(c) /\ rows' = Grown(rows, c, now)
    /\ UNCHANGED <<now, entry, raced, lost, begun, passed, calls>>

Tick ==
    /\ now < MaxTime /\ now' = now + 1
    /\ UNCHANGED <<entry, call, raced, lost, begun, passed, rows, seen, calls>>

Answering(w) == CounterRead(w) \/ CounterSet(w) \/ Refused(w) \/ Served(w)
Passing == Tick \/ \E k \in Counters : EntryExpired(k)

TrafficNext ==
    \/ \E w \in Workers : ListCalled(w) \/ Answering(w) \/ \E c \in Callers : CallBegan(w, c)
    \/ Passing
==============================================================================
