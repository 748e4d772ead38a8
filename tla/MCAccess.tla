------------------------------ MODULE MCAccess ------------------------------
(* The instance of Access for TLC. *)
EXTENDS AccessProps, TLC

\* Workers differ in nothing but their name.
Symmetry == Permutations(Workers)

\* The log of the calls, which the alerts read: nothing here depends on it.
ButLog == <<now, entry, call, raced, lost, begun, passed, calls, accounts, signin>>
==============================================================================
