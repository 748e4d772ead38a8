----------------------------- MODULE AlertsProps -----------------------------
(***************************************************************************)
(* What the alert mails promise.                                           *)
(***************************************************************************)
EXTENDS Alerts

Stamp == Time \cup {Null}

TypeOK ==
    /\ enabled \in Enabled
    /\ spent \in [Providers -> SUBSET ApiKeys] /\ flagged \subseteq ApiKeys
    /\ \A k \in Kinds :
         /\ job[k].pc \in {"idle", "sampled", "mailing", "mailed"}
         /\ job[k].about \subseteq Subjects(k) /\ job[k].at \in 0 .. now
         /\ job[k].sent \in [AllSubjects -> Stamp]
         /\ stamp[k] \in [AllSubjects -> Stamp] /\ mailed[k] \in [AllSubjects -> Stamp]
         /\ unstamped[k] \subseteq Subjects(k)

\* Nobody is mailed twice about one subject within the cooldown, counted from
\* decision to decision, unless the stamp of the first mail was lost: by a
\* crash, a refused write or an error reported after the delivery
\* (run_quota_alert_check, run_rate_limit_alert_check, run_silence_alert_check).
MailsSpaced ==
    [][\A k \in Kinds, s \in AllSubjects :
         mailed'[k][s] # mailed[k][s] =>
            \/ mailed[k][s] = Null \/ s \in unstamped[k]
            \/ mailed'[k][s] - mailed[k][s] >= Cooldown]_vars

\* A subject is left alone only because a mail about it has arrived: no stamp
\* is later than the last delivery (_set_last_sent after `if ok`).
NoSilentCooldown ==
    \A k \in Kinds, s \in AllSubjects :
        stamp[k][s] # Null => mailed[k][s] # Null /\ stamp[k][s] <= mailed[k][s]

Spent(p) == spent[p] = ApiKeys

MailFresh(k, s) == mailed[k][s] # Null /\ now - mailed[k][s] < Cooldown

\* Whatever stays wrong is mailed about, again after every cooldown: keys of a
\* provider that are all spent, a caller at its limit, an API nobody calls
\* (the three checks).
TroubleNoticed ==
    /\ "quota" \in enabled => \A p \in Providers : Spent(p) ~> (~Spent(p) \/ MailFresh("quota", p))
    /\ "rate" \in enabled => \A c \in Counters : Busy(c) ~> (~Busy(c) \/ MailFresh("rate", c))
    /\ "silence" \in enabled => Quiet ~> (~Quiet \/ MailFresh("silence", Platform))
==============================================================================
