---------------------------- MODULE MCIpBlacklist ----------------------------
(***************************************************************************)
(* Small instances of IpBlacklist for TLC.                                 *)
(***************************************************************************)
EXTENDS IpBlacklistProps, TLC

\* A host and a block around it: the smallest pair of different cidrs that overlap.
CONSTANTS host, block

HostAndBlock == {<<host, host>>, <<host, block>>, <<block, host>>, <<block, block>>}
HostOnly == {<<host, host>>}

\* 24 hours are one tick, 30 days two: the orders of expiry and time all occur.
MCDuration == [g \in Groups |-> IF g = "24h" THEN 1 ELSE IF g = "30d" THEN 2 ELSE Null]

\* One score in, one below and one above the 24h band of the shipped defaults (10 and 80).
Defaults == [t24h |-> 10, t30d |-> 80, promotion |-> 0]
Promoting == [Defaults EXCEPT !.promotion = 2]
Stricter == [Defaults EXCEPT !.t24h = 60]

OnlyDefaults == {Defaults}
WithPromotion == {Promoting}
AllSettings == {Defaults, Promoting, Stricter}

\* What operators select for rescoring: nothing, or any rows.
NoPicks == {}
AnyPick == SUBSET Ids

IdSymmetry == Permutations(Ids)
Symmetry == Permutations(Ids) \cup Permutations(Reporters)
==============================================================================
