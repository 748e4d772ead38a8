------------------------------ MODULE MCSyslog ------------------------------
(* Instances of Syslog for TLC. *)
EXTENDS SyslogProps

\* Activity is not forwarded, the choice the shipped settings start from.
NoActivity == {{"error", "access"}}
AllStreams == {Streams}
==============================================================================
