----------------------------- MODULE FairTurns -----------------------------
(***************************************************************************)
(* What both cooperative pumps promise (docs/specs/domain-pump-model.md,   *)
(* docs/specs/system-pump-model.md): turns are granted round-robin.  The   *)
(* members are the actors of one domain, or the domains of the system; a   *)
(* member waits when it has pending messages.  A turn goes to the first    *)
(* waiting member from the cursor on, and the cursor then moves just       *)
(* behind it.                                                              *)
(***************************************************************************)
EXTENDS Integers

CONSTANT N                 \* number of members

ASSUME FairTurnsAssumption == N \in Nat \ {0}

Members == 0..(N - 1)
Nobody == N                \* serving while no turn is granted

VARIABLES waiting, cursor, serving
vars == <<waiting, cursor, serving>>

\* How many members are looked at before m when a scan starts at the cursor.
Distance(m, c) == IF m >= c THEN m - c ELSE m - c + N

Following(m) == IF m = N - 1 THEN 0 ELSE m + 1

Init == waiting = {} /\ cursor = 0 /\ serving = Nobody

\* Work may arrive for anybody; while a turn is on, only its member is drained.
Arrive ==
    /\ waiting' \in SUBSET Members
    /\ (waiting \ {serving}) \subseteq waiting'
    /\ UNCHANGED <<cursor, serving>>

\* Fault: any waiting member is served.
Fault_GrantAny(m) ==
    /\ serving = Nobody /\ m \in waiting
    /\ serving' = m
    /\ UNCHANGED <<waiting, cursor>>

Grant(m) ==
    /\ serving = Nobody /\ m \in waiting
    /\ \A k \in waiting : Distance(m, cursor) <= Distance(k, cursor)
    /\ serving' = m
    /\ UNCHANGED <<waiting, cursor>>

Finish ==
    /\ serving # Nobody
    /\ cursor' = Following(serving)
    /\ serving' = Nobody
    /\ UNCHANGED waiting

Next == Arrive \/ (\E m \in Members : Grant(m)) \/ Finish

Spec == Init /\ [][Next]_vars

-----------------------------------------------------------------------------
TypeOK ==
    /\ waiting \subseteq Members
    /\ cursor \in Members
    /\ serving \in Members \cup {Nobody}

(***************************************************************************)
(* A waiting member that is farther from the cursor than the one being     *)
(* served comes strictly nearer when that turn ends: the cursor never      *)
(* jumps over a member that still waits for its turn.                      *)
(***************************************************************************)
NearerEachTurn ==
    [][\A m \in Members :
          serving' # serving /\ serving # Nobody
             /\ Distance(serving, cursor) < Distance(m, cursor)
          => Distance(m, cursor') < Distance(m, cursor)]_vars
=============================================================================
