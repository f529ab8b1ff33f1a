------------------------------ MODULE Watchdog ------------------------------
(***************************************************************************)
(* The watchdog actor (core/src/ev_watchdog_actor.c), which feeds the      *)
(* hardware watchdog once a second if the pumps' counters show progress;   *)
(* the snapshot of them (app/ev_demo_app.c); and the pumps as far as they  *)
(* keep those counters (module Scheduler has the rest).  The counters of a *)
(* pump run change at its two ends, so what a snapshot shows depends on    *)
(* where in a run it is taken.                                             *)
(*                                                                         *)
(* The pump counters of a domain are compared for change only: moved says  *)
(* that they did, since the last snapshot (2^32 runs of a domain within    *)
(* one are out of reach).                                                  *)
(***************************************************************************)
EXTENDS Integers

CONSTANTS TurnValues,    \* values of a uint32_t: a few of them are enough
          TurnBudget,    \* EV_DEMO_APP_TURN_BUDGET
          DomainBudget,  \* sum of the drain budgets of a domain
          MailboxCap,    \* cells of the watchdog's mailbox
          WorkCap,       \* bound: messages pending for the other actors of a domain
          MaxTurns       \* bound: turns from one tick to the next, far below 2^32

Domains == {"fast", "slow"}
Home == "fast"           \* of ACT_WATCHDOG
Other(d) == IF d = "fast" THEN "slow" ELSE "fast"

ASSUME WatchdogAssumption ==
    /\ TurnValues \in Nat \ {0} /\ MaxTurns \in 0..(TurnValues - 1)
    /\ TurnBudget \in Nat \ {0} /\ DomainBudget \in Nat \ {0}
    /\ MailboxCap \in Nat \ {0} /\ WorkCap \in Nat \ {0}

VARIABLES supported,     \* by the port; the ESP8266 adapter never is
          sleepArming,
          tickBox, work, \* pending: TICK_1S for the watchdog; messages for the others
          next,          \* next_domain_index of the system pump
          systemRun, domainRun,   \* frames of the two pumps
          systemTurns, systemResult, domainResult, moved,  \* their counters
          snapshot,      \* last_snapshot: whether there is one; its turn counter
          verdict,       \* history: what became of the tick in the last step
          ended,         \* history: a run with a turn ended since the last tick
          started,       \* history: the domains a run of which started since then
          since,         \* history: turns since then
          misses         \* history: ticks in a row that were rejected without excuse
pumps == <<next, systemRun, domainRun, systemTurns, systemResult, domainResult>>
history == <<ended, started, since, misses>>
watchdogVars == <<supported, sleepArming, tickBox, work, pumps, moved, snapshot, verdict, history>>

NoSystemRun == [on |-> FALSE, budget |-> 0, turns |-> 0]
NoDomainRun == [domain |-> "none", left |-> 0]
NoSnapshot == [taken |-> FALSE, turns |-> 0]
All(value) == [d \in Domains |-> value]

WatchdogInit ==
    /\ supported \in BOOLEAN /\ sleepArming = FALSE
    /\ tickBox = 0 /\ work = All(0) /\ next = "fast"
    /\ systemRun = NoSystemRun /\ domainRun = NoDomainRun
    /\ systemTurns = 0 /\ systemResult = "OK" /\ domainResult = All("OK") /\ moved = All(TRUE)
    /\ snapshot = NoSnapshot /\ verdict = "none"
    /\ ended = FALSE /\ started = {} /\ since = 0 /\ misses = 0

Pending(d) == work[d] + IF d = Home THEN tickBox ELSE 0

-----------------------------------------------------------------------------
(* Messages arrive; power actor and application arm and disarm sleep. *)

\* The application publishes the tick between two runs.
Second ==
    /\ ~systemRun.on
    /\ tickBox' = IF tickBox < MailboxCap THEN tickBox + 1 ELSE tickBox
    /\ work' = [d \in Domains |-> IF work[d] < WorkCap THEN work[d] + 1 ELSE work[d]]
    /\ verdict' = "none"
    /\ UNCHANGED <<supported, sleepArming, pumps, moved, snapshot, history>>

Arrives(d) ==
    /\ work[d] < WorkCap
    /\ work' = [work EXCEPT ![d] = @ + 1] /\ verdict' = "none"
    /\ UNCHANGED <<supported, sleepArming, tickBox, pumps, moved, snapshot, history>>

SleepArms ==
    /\ domainRun.domain = Home /\ sleepArming' = ~sleepArming /\ verdict' = "none"
    /\ UNCHANGED <<supported, tickBox, work, pumps, moved, snapshot, history>>

-----------------------------------------------------------------------------
(* The pumps. *)

Frame == UNCHANGED <<supported, sleepArming, snapshot, misses>>

RunStarts ==
    /\ ~systemRun.on /\ \E d \in Domains : Pending(d) > 0
    /\ since < MaxTurns
    /\ systemRun' = [on |-> TRUE, budget |-> TurnBudget, turns |-> 0] /\ verdict' = "none"
    /\ UNCHANGED <<tickBox, work, next, domainRun, systemTurns, systemResult, domainResult, moved>>
    /\ UNCHANGED <<ended, started, since>> /\ Frame

\* The domain whose turn it is, or the other one if that has no work.
Turn == IF Pending(next) > 0 THEN next ELSE Other(next)
Between == systemRun.on /\ domainRun = NoDomainRun
Continues == systemRun.budget > 0 /\ \E d \in Domains : Pending(d) > 0

\* pump_calls is counted first.
DomainStarts ==
    /\ Between /\ Continues
    /\ domainRun' = [domain |-> Turn, left |-> DomainBudget] /\ next' = Other(Turn)
    /\ moved' = [moved EXCEPT ![Turn] = TRUE] /\ started' = started \cup {Turn}
    /\ verdict' = "none"
    /\ UNCHANGED <<tickBox, work, systemRun, systemTurns, systemResult, domainResult, ended, since>>
    /\ Frame

\* Turns are added to the counter when the run returns, with its result.
Returns(turns, result) ==
    /\ systemRun' = NoSystemRun /\ systemResult' = result
    /\ systemTurns' = (systemTurns + turns) % TurnValues
    /\ ended' = (ended \/ turns > 0) /\ since' = since + turns

RunEnds ==
    /\ Between /\ ~Continues
    /\ Returns(systemRun.turns, "OK") /\ verdict' = "none"
    /\ UNCHANGED <<tickBox, work, next, domainRun, domainResult, moved, started>> /\ Frame

Running(d) == domainRun.domain = d /\ domainRun.left > 0

\* A handler that fails ends the run of its domain, and the whole run, of
\* whose turns only the last is then counted.
OtherHandled(d, ok) ==
    /\ Running(d) /\ work[d] > 0
    /\ work' = [work EXCEPT ![d] = @ - 1] /\ verdict' = "none"
    /\ \/ /\ ok /\ domainRun' = [domainRun EXCEPT !.left = @ - 1]
          /\ UNCHANGED <<systemRun, systemTurns, systemResult, domainResult, ended, since>>
       \/ /\ ~ok /\ domainRun' = NoDomainRun
          /\ domainResult' = [domainResult EXCEPT ![d] = "FAILED"]
          /\ Returns(1, "FAILED")
    /\ UNCHANGED <<tickBox, next, moved, started>> /\ Frame

DomainEnds ==
    LET d == domainRun.domain
    IN  /\ d \in Domains /\ (domainRun.left = 0 \/ Pending(d) = 0)
        /\ domainRun' = NoDomainRun /\ domainResult' = [domainResult EXCEPT ![d] = "OK"]
        /\ moved' = [moved EXCEPT ![d] = @ \/ Pending(d) > 0]
        /\ systemRun' = [systemRun EXCEPT !.budget = @ - 1, !.turns = @ + 1]
        /\ verdict' = "none"
        /\ UNCHANGED <<tickBox, work, next, systemTurns, systemResult, ended, started, since>>
        /\ Frame

-----------------------------------------------------------------------------
(* The watchdog actor.  The tick is no longer pending when it is handled. *)

\* Fault: a snapshot with the same turn counter passes.
Fault_NotProgressing == snapshot.taken /\ systemTurns < snapshot.turns

NotProgressing == snapshot.taken /\ systemTurns <= snapshot.turns

DomainStalled(d) ==
    \/ domainResult[d] = "FAILED"
    \/ /\ snapshot.taken /\ ~moved[d]
       /\ work[d] + (IF d = Home THEN tickBox - 1 ELSE 0) > 0

Rejected ==
    \/ sleepArming \/ systemResult = "FAILED" \/ systemTurns = 0 \/ NotProgressing
    \/ \E d \in Domains : DomainStalled(d)

\* Fault: a snapshot that is rejected is not kept.
Fault_SnapshotAfter(rejected) ==
    IF rejected THEN snapshot ELSE [taken |-> TRUE, turns |-> systemTurns]

SnapshotAfter(rejected) == [taken |-> TRUE, turns |-> systemTurns]

\* The counter shows fewer turns than there were since the tick before.
Wrapped == systemTurns < since

\* A rejection is excused by sleep, by a failure, by the counter's wrap, or by
\* sharing a run with the tick before.
Excused ==
    \/ sleepArming \/ Wrapped \/ ~ended
    \/ "FAILED" \in {systemResult} \cup {domainResult[d] : d \in Domains}

TickHandled(fed) ==
    /\ Running(Home) /\ tickBox > 0
    /\ tickBox' = tickBox - 1 /\ domainRun' = [domainRun EXCEPT !.left = @ - 1]
    /\ \/ /\ ~supported /\ verdict' = "unsupported"
          /\ UNCHANGED <<snapshot, moved, misses>>
       \/ /\ supported
          /\ verdict' = IF Rejected THEN "rejected" ELSE IF fed THEN "fed" ELSE "failed"
          /\ snapshot' = SnapshotAfter(Rejected)
          /\ moved' = All(FALSE)
          /\ misses' = IF Rejected /\ ~Excused THEN misses + 1 ELSE 0
    /\ ended' = FALSE /\ started' = {} /\ since' = 0
    /\ UNCHANGED <<supported, sleepArming, work, next, systemRun, systemTurns, systemResult, domainResult>>

WatchdogNext ==
    \/ Second \/ SleepArms \/ RunStarts \/ DomainStarts \/ DomainEnds \/ RunEnds
    \/ \E d \in Domains : Arrives(d) \/ \E ok \in BOOLEAN : OtherHandled(d, ok)
    \/ \E fed \in BOOLEAN : TickHandled(fed)

WatchdogSpec == WatchdogInit /\ [][WatchdogNext]_watchdogVars

-----------------------------------------------------------------------------
(***************************************************************************)
(* The watchdog is fed only if, since the tick before, a whole run of the  *)
(* system pump ended that did something, and every domain with pending     *)
(* messages was started on (docs/specs/watchdog-actor.md, rule 4), and     *)
(* never while sleep is being armed (rule 3) or after a run that failed.   *)
(***************************************************************************)
FeedMeansProgress ==
    [][verdict' = "fed" =>
          /\ ended /\ ~sleepArming /\ systemResult # "FAILED"
          /\ snapshot.taken => \A d \in Domains : work[d] > 0 => d \in started]_watchdogVars

(***************************************************************************)
(* A working system is fed: of the ticks that neither share a run with the *)
(* tick before nor meet sleep, a failure or the wrap of the turn counter,  *)
(* no two in a row are rejected; and one wrap excuses one tick.             *)
(***************************************************************************)
WorkingIsFed == misses <= 1
=============================================================================
