------------------------------- MODULE MCParts -------------------------------
(* Parts that share nothing but the tick of one second: remote commands,     *)
(* telemetry and the watchdog - and the abstract turns of the pumps.  One    *)
(* run looks at each of them on its own.                                     *)
EXTENDS Commands, Telemetry, Watchdog, OvertakeBound

VARIABLE part    \* the one looked at; the others stand still

MCInit ==
    /\ part \in {"commands", "telemetry", "watchdog", "turns"}
    /\ CommandInit /\ TelemetryInit /\ WatchdogInit /\ HInit
    /\ part # "commands" => capabilities = {} /\ ~hasToken
    /\ part # "watchdog" => ~supported

Rest == <<vars, passed>>

MCNext ==
    /\ UNCHANGED part
    /\ \/ /\ part = "commands" /\ CommandNext
          /\ UNCHANGED <<telemetryVars, watchdogVars, Rest>>
       \/ /\ part = "telemetry" /\ TelemetryNext
          /\ UNCHANGED <<commandVars, watchdogVars, Rest>>
       \/ /\ part = "watchdog" /\ WatchdogNext
          /\ UNCHANGED <<commandVars, telemetryVars, Rest>>
       \/ /\ part = "turns" /\ HNext
          /\ UNCHANGED <<commandVars, telemetryVars, watchdogVars>>

MCSpec ==
    MCInit /\ [][MCNext]_<<part, commandVars, telemetryVars, watchdogVars, Rest>>
=============================================================================
