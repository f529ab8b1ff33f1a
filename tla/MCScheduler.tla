---------------------------- MODULE MCScheduler ----------------------------
(* A domain of two actors that feed each other and the third, which is alone *)
(* in the last domain.  In between: an actor without a runtime, one whose    *)
(* catalog entry gives it no quantum, a domain with nothing but such an      *)
(* actor, and a domain that is not served.                                   *)
EXTENDS Scheduler

MCDomain == [a \in Actors |-> <<0, 0, 0, 0, 1, 3>>[a + 1]]
MCQuantum == [a \in Actors |-> <<2, 1, 0, 1, 0, 1>>[a + 1]]
MCCap == [a \in Actors |-> IF a \in {0, 3} THEN 2 ELSE 1]
MCFeeds == [a \in Actors |-> CASE a = 0 -> {0, 3, 5} [] a = 3 -> {0} [] a = 5 -> {3, 5} [] OTHER -> {}]
=============================================================================
