--------------------------- MODULE MCSourceReads ---------------------------
(* Instances of SourceReads for TLC. *)
EXTENDS SourceReads

CONSTANTS p1, p2

(* Two servers, one of which the user sets up. *)
TwoServers == [p \in {p1, p2} |-> IF p = p1 THEN {"check"} ELSE {"check", "setup"}]

(* A server and the smoke test against the daemon and the user's commands. *)
Everything == [p \in {p1, p2} |->
    IF p = p1 THEN {"check", "smoke"} ELSE {"watch", "setup", "disconnect"}]

FailingReplies == [gmail |-> {"clear"}, calendar |-> {"clear", "failed"}]
MixedReplies == [gmail |-> {"found", "partial"}, calendar |-> {"clear"}]
=============================================================================
