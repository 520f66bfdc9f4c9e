--------------------------- MODULE MCDaemonStatus ---------------------------
(* Instances of DaemonStatus for TLC.                                      *)
EXTENDS DaemonStatus, TLC

CONSTANTS d1, d2, d3

(* A configured cadence, and an override given on the command line.        *)
TwoCadences == [d \in Daemons |-> IF d = d1 THEN 2 ELSE 3]

=============================================================================
