--------------------------- MODULE OvertakeBound ---------------------------
(***************************************************************************)
(* The fairness bound of the pumps' round-robin: FairTurns with a history  *)
(* variable.  passed[m] holds the members whose turn began while m has     *)
(* been waiting; nothing reads it but the bound.                           *)
(***************************************************************************)
EXTENDS FairTurns

VARIABLE passed

HInit == Init /\ passed = [m \in Members |-> {}]

\* History of the members that wait after the step; the others start afresh.
StillWaiting(p) == passed' = [m \in Members |-> IF m \in waiting' THEN p[m] ELSE {}]

HArrive == Arrive /\ StillWaiting(passed)

HGrant(k) ==
    /\ Grant(k)
    /\ StillWaiting([m \in Members |-> IF m = k THEN {} ELSE passed[m] \cup {k}])

HFinish == Finish /\ StillWaiting(passed)

HNext == HArrive \/ (\E k \in Members : HGrant(k)) \/ HFinish

HSpec == HInit /\ [][HNext]_<<vars, passed>>

-----------------------------------------------------------------------------
HTypeOK == TypeOK /\ passed \in [Members -> SUBSET Members]

(***************************************************************************)
(* Nobody is overtaken twice: a member whose turn began while m waits gets *)
(* no second turn before m has had one.  One actor of a domain (one domain *)
(* of the system) with endless traffic delays another by a single quantum. *)
(***************************************************************************)
NoSecondTurn ==
    [][\A k, m \in Members :
          serving = Nobody /\ serving' = k /\ m \in waiting /\ m # k
             => k \notin passed[m]]_<<vars, passed>>

(***************************************************************************)
(* Where the members that overtook a waiting one stand in the scan from    *)
(* the cursor: behind it, except the one whose turn is still on, which is  *)
(* before it.  The bound is inductive only together with this.             *)
(***************************************************************************)
Behind(m) == \A k \in passed[m] \ {serving} : Distance(m, cursor) < Distance(k, cursor)

Order ==
    /\ \A m \in Members : passed[m] # {} => m \in waiting \ {serving}
    /\ \A m \in Members :
          passed[m] # {} /\ serving # Nobody => Distance(serving, cursor) < Distance(m, cursor)
    /\ \A m \in Members : Behind(m)
=============================================================================
