------------------------------ MODULE AppLoop ------------------------------
(***************************************************************************)
(* The main loop: ev_esp8266_runtime_app_run() calls ev_demo_app_poll()    *)
(* forever and waits in between.  One poll collects interrupt and network  *)
(* samples, drains the actors, and publishes the ticks that are due, all   *)
(* under one budget; an error ends the loop with a restart of the chip.    *)
(*                                                                         *)
(* Interrupts and network callbacks fill the adapters' rings at any time,  *)
(* and the clock runs at any time.  The clock is a 32-bit counter that     *)
(* wraps; deadlines are compared by the sign of the difference.            *)
(*                                                                         *)
(* The actors are a number of pending messages.  A run of the system pump  *)
(* is one step that keeps the contract shown in Scheduler.                 *)
(***************************************************************************)
EXTENDS Integers

CONSTANTS MaxIrq, MaxNet,            \* EV_APP_POLL_MAX_IRQ_SAMPLES, .._NET_SAMPLES
          ReservedIrq, ReservedNet,  \* EV_APP_POLL_RESERVED_IRQ_SAMPLES, .._NET_SAMPLES
          MaxTurns, MaxMessages,     \* EV_APP_POLL_MAX_PUMP_TURNS, .._MESSAGES
          TurnBudget,                \* EV_DEMO_APP_TURN_BUDGET
          Quantum,                   \* most messages one domain turn handles
          FanOut,                    \* most actors one sample or tick is delivered to
          MaxPend,                   \* messages all mailboxes can hold
          RingCap,                   \* samples an adapter ring can hold
          Fast, Slow,                \* EV_DEMO_APP_FAST_TICK_MS, tick_period_ms
          Wrap,                      \* 2^32: values of the clock
          MaxLag                     \* bound: how late the loop may come to a deadline

ASSUME AppLoopAssumption ==
    /\ MaxIrq \in Nat \ {0} /\ MaxNet \in Nat \ {0}
    /\ ReservedIrq \in Nat \ {0} /\ ReservedNet \in Nat \ {0}
    /\ MaxTurns \in Nat \ {0} /\ MaxMessages \in Nat \ {0} /\ TurnBudget \in Nat \ {0}
    /\ Quantum \in Nat \ {0} /\ FanOut \in Nat \ {0} /\ MaxPend \in Nat \ {0}
    /\ RingCap \in Nat \ {0}
    /\ Fast \in Nat \ {0} /\ Slow \in Nat /\ Slow >= Fast
    /\ Wrap \in Nat /\ MaxLag \in Nat /\ 2 * (MaxLag + Slow) < Wrap

VARIABLES irq, net,       \* samples waiting in the adapters' rings
          pend,           \* pending messages of all actors
          clock,          \* the monotonic clock, in ms
          next100, next1s,\* deadlines of the two ticks
          pc,             \* where the loop is
          b,              \* ev_poll_budget_t, a local of the poll as the next two
          round,          \* what the loops inside the poll remember of this round
          now,            \* the clock as the timer phase read it
          rc              \* what the last poll returned
vars == <<irq, net, pend, clock, next100, next1s, pc, b, round, now, rc>>

NoBudget == [irq |-> 0, net |-> 0, calls |-> 0, turns |-> 0, msgs |-> 0, exhausted |-> FALSE]
NoRound == [reserved |-> 0, sampled |-> FALSE, ticked |-> FALSE]

Init ==
    /\ irq = 0 /\ net = 0
    /\ pend \in 1..MaxPend           \* ev_demo_app_publish_boot()
    /\ clock = 0
    /\ next100 = (clock + Fast) % Wrap /\ next1s = (clock + Slow) % Wrap
    /\ pc = "wait" /\ b = NoBudget /\ round = NoRound /\ now = 0 /\ rc = "OK"

-----------------------------------------------------------------------------
\* (int32_t)(x - y): the signed difference of two clock values.
Minus(x, y) ==
    LET d == (x - y + Wrap) % Wrap IN IF d < Wrap \div 2 THEN d ELSE d - Wrap

\* Seeded fault: deadlines compared as unsigned numbers.
Fault_DueUnsigned(t, deadline) == t >= deadline

Due(t, deadline) == Minus(t, deadline) >= 0

\* Seeded fault: the message limit is not looked at.
Fault_MessagesUnlimited(x) ==
    \/ x.calls >= MaxTurns \/ x.turns >= MaxTurns
    \/ x.irq >= MaxIrq \/ x.net >= MaxNet

\* ev_demo_app_budget_exhausted()
UsedUp(x) ==
    \/ x.calls >= MaxTurns \/ x.turns >= MaxTurns \/ x.msgs >= MaxMessages
    \/ x.irq >= MaxIrq \/ x.net >= MaxNet

Checked(x) == [x EXCEPT !.exhausted = UsedUp(x)]

-----------------------------------------------------------------------------
(* The world: interrupts, network callbacks and time. *)
IrqArrives == irq < RingCap /\ irq' = irq + 1 /\ UNCHANGED <<net, clock>>
NetArrives == net < RingCap /\ net' = net + 1 /\ UNCHANGED <<irq, clock>>

\* MaxLag keeps the deadlines in the half of the clock's range where the
\* sign of a difference tells their order.
TimePasses ==
    /\ Minus(clock, next100) < MaxLag /\ Minus(clock, next1s) < MaxLag
    /\ clock' = (clock + 1) % Wrap
    /\ UNCHANGED <<irq, net>>

Environment ==
    /\ IrqArrives \/ NetArrives \/ TimePasses
    /\ UNCHANGED <<pend, next100, next1s, pc, b, round, now, rc>>

-----------------------------------------------------------------------------
(* ev_esp8266_runtime_app_run(): wait, poll, restart. *)

\* ev_runtime_app_compute_wait_ms() answers 0 when messages are pending or a
\* tick is due; else the wait lasts to the next deadline, unless an interrupt
\* ends it.  The network callbacks do not.
WaitOver == pend > 0 \/ irq > 0 \/ Due(clock, next100) \/ Due(clock, next1s)

\* A stale token of the interrupt semaphore may end the wait early.
StartPoll ==
    /\ pc = "wait"
    /\ rc' = "OK" /\ pc' = "irq"
    /\ UNCHANGED <<irq, net, pend, clock, next100, next1s, b, round, now>>

\* A restarted chip boots anew: what was in memory is gone.
Restart ==
    /\ pc = "failed"
    /\ irq' = 0 /\ net' = 0
    /\ pend' \in 1..MaxPend
    /\ next100' = (clock + Fast) % Wrap /\ next1s' = (clock + Slow) % Wrap
    /\ pc' = "wait" /\ rc' = "OK"
    /\ UNCHANGED <<clock, b, round, now>>

-----------------------------------------------------------------------------
(* ev_demo_app_collect_ingress(). *)

\* A publication that is accepted by its targets; it may reach disabled ones
\* only, and then leaves no message.
Published == \E k \in 0..FanOut : pend + k <= MaxPend /\ pend' = pend + k

\* Fail-fast fan-out into a full mailbox: what was delivered stays delivered.
PublishFails ==
    /\ \E k \in 0..(FanOut - 1) : pend + k <= MaxPend /\ pend' = pend + k
    /\ pend > 0
    /\ rc' = "FULL" /\ pc' = "final"

\* Seeded fault: the interrupt ring is not limited to its reserve.
Fault_IrqUnreserved == b.irq < MaxIrq /\ ~b.exhausted

IrqOpen == b.irq < MaxIrq /\ ~b.exhausted /\ round.reserved < ReservedIrq
NetOpen == b.net < MaxNet /\ ~b.exhausted /\ round.reserved < ReservedNet

TakeIrq ==
    /\ pc = "irq" /\ IrqOpen /\ irq > 0
    /\ irq' = irq - 1
    /\ LET taken == [b EXCEPT !.irq = @ + 1]
       IN  \/ Published /\ b' = Checked(taken) /\ UNCHANGED <<pc, rc>>
           \/ PublishFails /\ b' = taken
    /\ round' = [round EXCEPT !.reserved = @ + 1, !.sampled = TRUE]
    /\ UNCHANGED <<net, clock, next100, next1s, now>>

IrqTaken ==
    /\ pc = "irq" /\ (~IrqOpen \/ irq = 0)
    /\ b' = [b EXCEPT !.exhausted = @ \/ b.irq >= MaxIrq]
    /\ round' = [round EXCEPT !.reserved = 0]
    /\ pc' = "net"
    /\ UNCHANGED <<irq, net, pend, clock, next100, next1s, now, rc>>

TakeNet ==
    /\ pc = "net" /\ NetOpen /\ net > 0
    /\ net' = net - 1
    /\ LET taken == [b EXCEPT !.net = @ + 1]
       IN  \/ Published /\ b' = Checked(taken) /\ UNCHANGED <<pc, rc>>
           \/ PublishFails /\ b' = taken
    /\ round' = [round EXCEPT !.reserved = @ + 1, !.sampled = TRUE]
    /\ UNCHANGED <<irq, clock, next100, next1s, now>>

NetTaken ==
    /\ pc = "net" /\ (~NetOpen \/ net = 0)
    /\ b' = [b EXCEPT !.exhausted = @ \/ b.net >= MaxNet]
    /\ pc' = "drain"
    /\ UNCHANGED <<irq, net, pend, clock, next100, next1s, round, now, rc>>

-----------------------------------------------------------------------------
(* ev_demo_app_drain_budgeted(), in both phases. *)
Draining == pc \in {"drain", "timer drain"}

\* What a run of the pump reports is used up, also when it failed.
RunCounted(x, turns, msgs) ==
    [x EXCEPT !.calls = @ + 1, !.turns = @ + turns, !.msgs = @ + msgs]

\* ev_system_pump_run(): up to TurnBudget turns of up to Quantum messages; it
\* stops early only when nothing is pending.
PumpRun ==
    /\ Draining /\ pend > 0 /\ ~b.exhausted /\ ~UsedUp(b)
    /\ \E turns \in 1..TurnBudget : \E msgs \in turns..(turns * Quantum) :
          /\ \E p \in 0..MaxPend :
                /\ p >= pend - msgs /\ (p > 0 => turns = TurnBudget)
                /\ pend' = p
          /\ b' = Checked(RunCounted(b, turns, msgs))
    /\ UNCHANGED <<irq, net, clock, next100, next1s, pc, round, now, rc>>

\* A handler failed, in any turn of the run: its message and its turn count, and
\* the poll ends with its error.
PumpFails ==
    /\ Draining /\ pend > 0 /\ ~b.exhausted /\ ~UsedUp(b)
    /\ \E turns \in 1..TurnBudget : \E msgs \in turns..(turns * Quantum) :
          /\ pend' \in {p \in 0..MaxPend : p >= pend - msgs}
          /\ b' = RunCounted(b, turns, msgs)
    /\ rc' = "ERR" /\ pc' = "final"
    /\ UNCHANGED <<irq, net, clock, next100, next1s, round, now>>

\* The end of a drain; exhausted is also set when the budget was used up before.
Drained(then) ==
    /\ pend = 0 \/ b.exhausted \/ UsedUp(b)
    /\ b' = [b EXCEPT !.exhausted = @ \/ (pend > 0 /\ UsedUp(b))]
    /\ pc' = IF b'.exhausted THEN "final" ELSE then

\* Another round when this one found samples, else the timers.
IngressDrained ==
    /\ pc = "drain"
    /\ Drained(IF round.sampled THEN "irq" ELSE "timers")
    /\ round' = NoRound
    /\ now' = IF pc' = "timers" THEN clock ELSE now
    /\ UNCHANGED <<irq, net, pend, clock, next100, next1s, rc>>

\* Seeded fault: one tick a poll.
Fault_TimersOnce ==
    /\ pc = "timer drain"
    /\ Drained("final")
    /\ round' = NoRound
    /\ UNCHANGED <<irq, net, pend, clock, next100, next1s, now, rc>>

TimersDrained ==
    /\ pc = "timer drain"
    /\ Drained(IF round.ticked THEN "timers" ELSE "final")
    /\ round' = NoRound
    /\ UNCHANGED <<irq, net, pend, clock, next100, next1s, now, rc>>

-----------------------------------------------------------------------------
(* ev_demo_app_process_timers(). *)
FastDue == Due(now, next100)
SlowDue == Due(now, next1s)
FastFirst == FastDue /\ (~SlowDue \/ Minus(next100, next1s) <= 0)

\* With nothing pending no mailbox can refuse a tick.
Tick ==
    /\ pc = "timers" /\ pend = 0
    /\ Published
    /\ b' = Checked(b)
    /\ round' = [round EXCEPT !.ticked = TRUE]
    /\ pc' = "timer drain"
    /\ UNCHANGED <<irq, net, clock, now, rc>>

FastTick ==
    /\ FastFirst /\ Tick
    /\ next100' = (next100 + Fast) % Wrap
    /\ UNCHANGED next1s

SlowTick ==
    /\ SlowDue /\ ~FastFirst /\ Tick
    /\ next1s' = (next1s + Slow) % Wrap
    /\ UNCHANGED next100

NoTick ==
    /\ pc = "timers" /\ (pend > 0 \/ (~FastDue /\ ~SlowDue))
    /\ pc' = "timer drain"
    /\ UNCHANGED <<irq, net, pend, clock, next100, next1s, b, round, now, rc>>

-----------------------------------------------------------------------------
\* What is left to do is looked at again, now; only then PARTIAL is answered.
WorkLeft == pend > 0 \/ irq > 0 \/ net > 0 \/ Due(clock, next100) \/ Due(clock, next1s)

\* Seeded fault: the budget of the last poll is carried over.
Fault_BudgetCarriedOver ==
    /\ pc = "final"
    /\ rc' = IF rc \in {"FULL", "ERR"} THEN rc
             ELSE IF b.exhausted /\ WorkLeft THEN "PARTIAL" ELSE "OK"
    /\ pc' = IF rc' \in {"OK", "PARTIAL"} THEN "wait" ELSE "failed"
    /\ round' = NoRound /\ now' = 0
    /\ UNCHANGED <<irq, net, pend, clock, next100, next1s, b>>

EndPoll ==
    /\ pc = "final"
    /\ rc' = IF rc \in {"FULL", "ERR"} THEN rc
             ELSE IF b.exhausted /\ WorkLeft THEN "PARTIAL" ELSE "OK"
    /\ pc' = IF rc' \in {"OK", "PARTIAL"} THEN "wait" ELSE "failed"
    /\ b' = NoBudget /\ round' = NoRound /\ now' = 0
    /\ UNCHANGED <<irq, net, pend, clock, next100, next1s>>

Poll ==
    \/ TakeIrq \/ IrqTaken \/ TakeNet \/ NetTaken
    \/ PumpRun \/ PumpFails \/ IngressDrained \/ TimersDrained
    \/ FastTick \/ SlowTick \/ NoTick \/ EndPoll

Next == Environment \/ StartPoll \/ Restart \/ Poll

Spec == Init /\ [][Next]_vars

\* The task runs whenever it is not waiting, its waits end, and time goes on.
Fairness ==
    /\ WF_vars(Poll) /\ WF_vars(Restart) /\ WF_vars(StartPoll /\ WaitOver)
    /\ WF_vars(TimePasses /\ Environment)

FairSpec == Spec /\ Fairness

-----------------------------------------------------------------------------
TypeOK ==
    /\ irq \in 0..RingCap /\ net \in 0..RingCap /\ pend \in 0..MaxPend
    /\ {clock, next100, next1s, now} \subseteq 0..(Wrap - 1)
    /\ pc \in {"wait", "irq", "net", "drain", "timers", "timer drain", "final", "failed"}
    /\ b \in [irq : Nat, net : Nat, calls : Nat, turns : Nat, msgs : Nat, exhausted : BOOLEAN]
    /\ round \in [reserved : Nat, sampled : BOOLEAN, ticked : BOOLEAN]
    /\ rc \in {"OK", "PARTIAL", "FULL", "ERR"}

(***************************************************************************)
(* One poll is bounded work.  The sample and call limits are exact; turns  *)
(* and messages are looked at between two runs of the pump, so one run can *)
(* overshoot its limit by a full turn budget, less one, and its messages.  *)
(***************************************************************************)
PollBounded ==
    /\ b.irq <= MaxIrq /\ b.net <= MaxNet
    /\ b.calls <= MaxTurns
    /\ b.turns <= MaxTurns - 1 + TurnBudget
    /\ b.msgs <= MaxMessages - 1 + TurnBudget * Quantum

(***************************************************************************)
(* "pump_stats->turns_processed - before_turns <= 10U"                     *)
(* (tests/host/test_app_starvation.c): a poll never takes more turns than  *)
(* EV_APP_POLL_MAX_PUMP_TURNS.                                             *)
(***************************************************************************)
TurnsWithinLimit == b.turns <= MaxTurns

(***************************************************************************)
(* A deadline never runs ahead of the clock by more than its period: ticks *)
(* are not published early, and none is published twice, over the wrap of  *)
(* the 32-bit clock and however late the loop comes.                       *)
(***************************************************************************)
NeverAhead ==
    /\ Minus(next100, clock) <= Fast
    /\ Minus(next1s, clock) <= Slow

(***************************************************************************)
(* A poll that answers OK left nothing undone: without exhaustion the      *)
(* mailboxes are empty and every tick that was due is out; with exhaustion *)
(* no work at all was left when it returned.                               *)
(***************************************************************************)
OkMeansDone ==
    [][pc = "final" /\ pc' = "wait" /\ rc' = "OK" =>
          /\ pend = 0
          /\ ~b.exhausted => ~Due(now, next100) /\ ~Due(now, next1s)
          /\ b.exhausted => irq = 0 /\ net = 0]_vars

(***************************************************************************)
(* Neither source of samples is shut out by a flood of the other, or by    *)
(* actors that keep each other busy: a full ring always gets room again,   *)
(* and pending messages are always handled.                                *)
(***************************************************************************)
IngressServed ==
    /\ irq = RingCap ~> irq < RingCap
    /\ net = RingCap ~> net < RingCap
    /\ pend = MaxPend ~> (pend < MaxPend \/ b.calls > 0 \/ pc = "failed")

(***************************************************************************)
(* Once samples stop coming, handlers stop feeding each other and none     *)
(* fails, both ticks keep coming, even if the loop is always late: the     *)
(* fast one never shuts the slow one out.                                  *)
(***************************************************************************)
Quiet == irq' <= irq /\ net' <= net /\ (PumpRun => pend' < pend) /\ pc' # "failed"

TicksComeWhenQuiet ==
    <>[][Quiet]_vars => /\ []<><<next100' # next100>>_vars
                        /\ []<><<next1s' # next1s>>_vars
=============================================================================
