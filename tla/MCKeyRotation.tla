---------------------------- MODULE MCKeyRotation ----------------------------
(***************************************************************************)
(* Small instances of KeyRotation for TLC.                                 *)
(***************************************************************************)
EXTENDS KeyRotationProps, TLC

\* An administrator takes VirusTotal out of use, or back.
AllOrAbuse == {Keys, AbuseKeys}
TaskSymmetry == Permutations(Tasks)

Busy(r) ==
    \/ \E t \in Tasks : task[t].pc # "idle" /\ task[t].reg = r
    \/ \E k \in KeysOf(r) :
         k \in refused \/ exhausted[r][k] # Null \/ limited[r][k] # Null

\* Nothing a register does depends on another one: they are explored one by one.
OneRegister == Cardinality({r \in Registers : Busy(r)}) <= 1
==============================================================================
