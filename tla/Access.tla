------------------------------- MODULE Access -------------------------------
(***************************************************************************)
(* Who gets in: sign-in with its lockout, the token check in front of the  *)
(* API and the limiter behind it, over the accounts, all answered by the   *)
(* same workers.                                                           *)
(*                                                                         *)
(* Failed sign-ins are counted in the cache per user and per address; a    *)
(* count at its maximum sets a lock next to it.  Counting is atomic only   *)
(* for the first failure: cache.incr reads and writes in two steps.        *)
(***************************************************************************)
EXTENDS Accounts

CONSTANTS
    Attempts,        \* failures that lock a user
    AddressAttempts, \* failures that lock an address; five times Attempts in the code
    MaxRequests      \* bound on calls, pages and sign-ins together

ASSUME AccessAssumption ==
    /\ Attempts \in Nat \ {0} /\ AddressAttempts \in Nat \ {0} /\ MaxRequests \in Nat
    /\ Null \notin Nat

VARIABLES
    attempts,    \* failures counted in the cache, or Null
    locked,      \* locks set in the cache
    failures,    \* history: failed sign-ins since the last success
    overlapped   \* history: counters cleared while a failure was being counted

signin == <<attempts, locked, failures, overlapped>>
vars == <<traffic, accounts, signin>>

AttemptsOf(k) == IF k = Address THEN AddressAttempts ELSE Attempts

Init ==
    /\ TrafficInit /\ AccountsInit
    /\ attempts = [k \in Counters |-> Null] /\ locked = {}
    /\ failures = [k \in Counters |-> 0] /\ overlapped = {}

-----------------------------------------------------------------------------

\* A locked user or address is turned away before its password is looked at.
SignInBegan(w, u) ==
    /\ ops < MaxOps /\ ops' = ops + 1
    /\ Free(w) /\ u \notin locked /\ Address \notin locked
    /\ Does(w, [NoOp EXCEPT !.pc = "checking", !.what = "signin", !.who = u])
    /\ UNCHANGED <<user, profile, decided, suspect, ids, signin>>

Knows(w) == Does(w, [op[w] EXCEPT !.pc = "clearing", !.user = Null, !.profile = Null, !.arg = op[w].who])

Fails(w) ==
    LET u == op[w].who IN
    /\ Does(w, [op[w] EXCEPT !.pc = "counting", !.user = Null, !.profile = Null, !.arg = u])
    /\ failures' = [k \in Counters |-> IF k \in {u, Address} THEN failures[k] + 1 ELSE failures[k]]

LocalChecked(w) ==
    LET u == op[w].who IN
    /\ op[w].pc = "checking"
    /\ \/ user[u] # Null /\ user[u].active /\ Knows(w) /\ UNCHANGED signin
       \/ Fails(w) /\ UNCHANGED <<attempts, locked, overlapped>>
    /\ UNCHANGED <<user, profile, decided, suspect, ids, ops>>

\* The directory knows the user: its rows are created or loaded.
DirectoryChecked(w) ==
    LET u == op[w].who IN
    /\ op[w].pc = "checking"
    /\ \/ Inserted(w, u, "old")
       \/ user[u] # Null /\ UNCHANGED <<user, profile, decided, suspect, ids>>
    /\ Does(w, [op[w] EXCEPT !.pc = "loaded", !.user = user'[u], !.profile = profile'[u]])
    /\ UNCHANGED <<ops, signin>>

\* The whole profile is saved, with the role a group maps to or the one loaded.
DirectorySaved(w) ==
    LET o == op[w] IN
    /\ o.pc = "loaded" /\ o.what = "signin"
    /\ \/ ProfileSaved(o.profile, o.who) /\ UNCHANGED <<decided, suspect>>
       \/ \E role \in Roles : LET c == [o.profile EXCEPT !.role = role]
                              IN ProfileSaved(c, o.who) /\ Decides(w, o.who, {"role"}, c)
    /\ IF o.user.active THEN Knows(w) /\ UNCHANGED signin
                        ELSE Fails(w) /\ UNCHANGED <<attempts, locked, overlapped>>
    /\ UNCHANGED ops

\* The directory or the database fails under way: the next backend is asked.
DirectoryFailed(w) ==
    /\ op[w].pc = "loaded" /\ op[w].what = "signin"
    /\ Does(w, [op[w] EXCEPT !.pc = "checking", !.user = Null, !.profile = Null])
    /\ UNCHANGED <<user, profile, decided, suspect, ids, ops, signin>>

\* The user first, the address next.
Turns(w) == Does(w, IF op[w].arg = Address THEN NoOp ELSE [op[w] EXCEPT !.arg = Address])

\* Mutant of Forgotten: the lock goes and the count stays.
ForgottenLock(k) == attempts

Forgotten(k) == [attempts EXCEPT ![k] = Null]

Counting(v, k) == op[v].pc \in {"counting", "counted", "locking"} /\ (op[v].arg = k \/ k = Address)

Cleared(w) ==
    LET k == op[w].arg IN
    /\ op[w].pc = "clearing"
    /\ attempts' = Forgotten(k) /\ locked' = locked \ {k}
    /\ failures' = [failures EXCEPT ![k] = 0]
    /\ overlapped' = IF \E v \in Workers : Counting(v, k) THEN overlapped \cup {k} ELSE overlapped \ {k}
    /\ Turns(w)
    /\ UNCHANGED <<user, profile, decided, suspect, ids, ops>>

\* A count of n: the lock follows, or the next counter, or the answer.
Counts(w, n) ==
    LET k == op[w].arg IN
    /\ attempts' = [attempts EXCEPT ![k] = n]
    /\ IF n >= AttemptsOf(k) THEN Does(w, [op[w] EXCEPT !.pc = "locking"])
       ELSE IF k = Address THEN Does(w, NoOp) ELSE Does(w, [op[w] EXCEPT !.pc = "counting", !.arg = Address, !.n = 0])
    /\ UNCHANGED <<user, profile, decided, suspect, ids, ops, locked, failures, overlapped>>

FirstFailure(w) == op[w].pc = "counting" /\ attempts[op[w].arg] = Null /\ Counts(w, 1)

FailureRead(w) ==
    /\ op[w].pc = "counting" /\ attempts[op[w].arg] # Null
    /\ Does(w, [op[w] EXCEPT !.pc = "counted", !.n = attempts[op[w].arg]])
    /\ UNCHANGED <<user, profile, decided, suspect, ids, ops, signin>>

FailureCounted(w) == op[w].pc = "counted" /\ Counts(w, op[w].n + 1)

LockSet(w) ==
    LET k == op[w].arg IN
    /\ op[w].pc = "locking"
    /\ locked' = locked \cup {k}
    /\ Does(w, IF k = Address THEN NoOp ELSE [op[w] EXCEPT !.pc = "counting", !.arg = Address, !.n = 0])
    /\ UNCHANGED <<user, profile, decided, suspect, ids, ops, attempts, failures, overlapped>>

AttemptsExpired(k) ==
    /\ attempts[k] # Null /\ attempts' = [attempts EXCEPT ![k] = Null]
    /\ UNCHANGED <<accounts, locked, failures, overlapped>>

LockExpired(k) ==
    /\ k \in locked /\ locked' = locked \ {k}
    /\ UNCHANGED <<accounts, attempts, failures, overlapped>>

SigningIn(w) ==
    \/ LocalChecked(w) \/ DirectoryChecked(w) \/ DirectorySaved(w) \/ DirectoryFailed(w)
    \/ Cleared(w) \/ FirstFailure(w) \/ FailureRead(w) \/ FailureCounted(w) \/ LockSet(w)

\* Mutant of MayCall: an account that was deactivated keeps its token's right.
MayCallInactive(u) ==
    user[u] # Null /\ profile[u].role = "api_user" /\ profile[u].token # Null

MayCall(u) ==
    user[u] # Null /\ user[u].active /\ profile[u].role = "api_user" /\ profile[u].token # Null

\* The token's row is read once; the call goes on with what was read.
CallAdmitted(w, u) == MayCall(u) /\ Free(w) /\ CallBegan(w, u)

Room == calls + ops < MaxRequests

Next ==
    \/ \E w \in Workers :
         \/ /\ UNCHANGED <<accounts, signin>>
            /\ \/ Room /\ (\E u \in Callers : CallAdmitted(w, u))
               \/ Room /\ Free(w) /\ ListCalled(w)
               \/ Answering(w)
         \/ /\ UNCHANGED traffic
            /\ \/ AccountsNext(w) /\ (ops' # ops => Room) /\ UNCHANGED signin
               \/ Room /\ \E u \in Callers : SignInBegan(w, u)
               \/ SigningIn(w)
    \/ Passing /\ UNCHANGED <<accounts, signin>>
    \/ \E k \in Counters : (AttemptsExpired(k) \/ LockExpired(k)) /\ UNCHANGED traffic

Spec == Init /\ [][Next]_vars
==============================================================================
