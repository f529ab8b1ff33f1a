------------------------------- MODULE MCSleep -------------------------------
(* The way into deep sleep, and the I2C bus that is to be free before it.    *)
(* Sleep takes the bus as its answer to prepare_for_sleep: the two modules   *)
(* share no variable, and one run looks at each.                             *)
EXTENDS Sleep, I2cBus

VARIABLE part    \* the one looked at; the other stands still

MCInit ==
    /\ part \in {"sleep", "bus"} /\ Init /\ BusInit
    /\ part = "sleep" => \A r \in DOMAIN device.mem : device.mem[r] = 0
MCNext ==
    \/ part = "sleep" /\ Next /\ UNCHANGED <<part, busVars>>
    \/ part = "bus" /\ BusNext /\ UNCHANGED <<part, vars>>
MCSpec == MCInit /\ [][MCNext]_<<part, vars, busVars>>
=============================================================================
