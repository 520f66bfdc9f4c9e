-------------------------- MODULE ReceiptContract ---------------------------
(***************************************************************************)
(* What a host may rely on when proactive_check hands it a receipt token:  *)
(* the situations offered with the token are its own until the token is    *)
(* confirmed or has lapsed, a confirmation in time delivers all of them at *)
(* once and once, and a token that lapsed delivers nothing.  How the store *)
(* keeps rows, claims, priorities and budgets is not said here.            *)
(***************************************************************************)
EXTENDS Integers

CONSTANTS
    Situations,
    Tokens,
    Ends        \* the instants at which an offer may end

VARIABLES
    clock,
    promised,   \* per token: the situations offered and until when
    outcome,    \* per token: "unused", "open", "delivered" or "lapsed"
    delivered   \* pairs of a situation and the token it was delivered by

contractVars == <<clock, promised, outcome, delivered>>

With(status) == {k \in Tokens : outcome[k] = status}

Init ==
    /\ clock = 0
    /\ promised = [k \in Tokens |-> [situations |-> {}, until |-> 0]]
    /\ outcome = [k \in Tokens |-> "unused"]
    /\ delivered = {}

(* Any operation may first find tokens whose time is over.                 *)
MayLapse == {k \in With("open") : promised[k].until <= clock}
Settled(lapsing, changed) ==
    [k \in Tokens |-> IF k \in DOMAIN changed THEN changed[k]
                      ELSE IF k \in lapsing THEN "lapsed" ELSE outcome[k]]

Lapse(lapsing) ==
    /\ outcome' = Settled(lapsing, [k \in {} |-> "open"])
    /\ UNCHANGED <<clock, promised, delivered>>

(* A fresh token for situations that no open token holds.                  *)
Offer(k, promise, lapsing) ==
    /\ outcome[k] = "unused" /\ promise.situations # {}
    /\ \A j \in With("open") \ lapsing :
         promised[j].situations \cap promise.situations = {}
    /\ promised' = [promised EXCEPT ![k] = promise]
    /\ outcome' = Settled(lapsing, [j \in {k} |-> "open"])
    /\ UNCHANGED <<clock, delivered>>

(* Everything that was offered, before the promised end.                   *)
Deliver(k, lapsing) ==
    /\ outcome[k] = "open" /\ clock < promised[k].until
    /\ outcome' = Settled(lapsing, [j \in {k} |-> "delivered"])
    /\ delivered' = delivered \cup (promised[k].situations \X {k})
    /\ UNCHANGED <<clock, promised>>

TimePasses ==
    /\ clock' = clock + 1
    /\ UNCHANGED <<promised, outcome, delivered>>

Next ==
    \/ TimePasses
    \/ \E lapsing \in SUBSET MayLapse :
        \/ Lapse(lapsing)
        \/ \E k \in Tokens :
            \/ Deliver(k, lapsing)
            \/ \E situations \in SUBSET Situations, until \in Ends :
                 Offer(k, [situations |-> situations, until |-> until], lapsing)

Spec == Init /\ [][Next]_contractVars
=============================================================================
