----------------------------- MODULE AccessProps -----------------------------
(***************************************************************************)
(* What the accounts, the sign-in and the limiter promise together.        *)
(***************************************************************************)
EXTENDS Access

Ids == 0 .. ids
UserRow == [id : Ids, active : BOOLEAN, password : Passwords]
ProfileRow == [id : Ids, role : Roles \cup {Null}, token : Ids \cup {Null}]

TypeOK ==
    /\ now \in Time /\ calls \in 0 .. MaxCalls /\ ops \in 0 .. MaxOps /\ ids \in Nat
    /\ \A k \in Counters : entry[k] # Null => entry[k].n \in Nat \ {0} /\ entry[k].start \in 0 .. now
    /\ \A u \in Callers :
         /\ user[u] \in UserRow \cup {Null} /\ profile[u] \in ProfileRow \cup {Null}
         /\ user[u] = Null <=> profile[u] = Null
    /\ \A w \in Workers : call[w].pc = "idle" \/ op[w].pc = "idle"
    /\ suspect \subseteq Callers \X Fields
    /\ locked \subseteq Counters /\ overlapped \subseteq Counters
    /\ \A k \in Counters : attempts[k] = Null \/ attempts[k] \in Nat \ {0}

Value(u, f) == CASE f \in UserColumns -> user[u][f] [] f \in {"role", "token"} -> profile[u][f]

\* An account is as it was last decided, column by column, except where a
\* page loaded before the decision saved a whole row after it: pages that set
\* a token save its columns alone, and pages about one of the two rows leave
\* the other alone (accounts/views.py, models.py, backends.py).
DecisionsKept ==
    \A u \in Callers :
        <<u, "exists">> \in suspect
        \/ /\ (user[u] # Null) = decided[u].exists
           /\ user[u] # Null => \A f \in Fields \ {"exists"} :
                                   <<u, f>> \in suspect \/ Value(u, f) = decided[u][f]

\* A call is let in only for an account that was last decided to exist, to be
\* active, to be an API user and to hold this token, unless an older copy was
\* saved over the decision (authenticate_token).
CallsByRight ==
    [][\A w \in Workers, u \in Callers :
         (call[w].pc = "idle" /\ call'[w].pc = "counting" /\ call'[w].who = u) =>
            \A f \in Fields \ {"password"} :
               \/ <<u, f>> \in suspect \/ <<u, "exists">> \in suspect
               \/ decided[u][f] = CASE f \in {"exists", "active"} -> TRUE
                                    [] f = "role" -> "api_user" [] f = "token" -> profile[u].token]_vars

\* Nobody is locked out before the limit of failures since the last success,
\* unless that success cleared the count while a failure was being counted
\* (_record_failure, _clear_failures).
LockEarned == \A k \in locked \ overlapped : failures[k] >= AttemptsOf(k)

\* What counter k let through in the window that begins at i.
PassedFrom(k, i) ==
    Cardinality({p \in (i .. i + Window - 1) \X (1 .. MaxCalls) : p[1] \in Time /\ p[2] <= passed[k][p[1]]})

\* A caller is refused only when it has used its limit: no counter holds more
\* than it let through in its window, whatever was lost, overwritten by a slow
\* worker or brought back from an older window (check_rate_limit).
NeverOvercounts ==
    \A k \in Counters : entry[k] # Null => entry[k].n <= PassedFrom(k, entry[k].start)

\* As long as no call of a counter has overwritten another's, no window it began
\* lets more calls through than its limit, and every time the cache has dropped
\* the counter too early at most as many again (check_rate_limit, which says it
\* does not rely on the timeout of the cache alone).
LimitKept ==
    \A k \in Counters \ raced : \A i \in begun[k] :
        PassedFrom(k, i) <= LimitOf(k) * (1 + lost[k])
==============================================================================
