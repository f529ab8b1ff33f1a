------------------------------- MODULE Sleep --------------------------------
(***************************************************************************)
(* The way into deep sleep: ev_power_actor_handle() for                    *)
(* EV_SYS_GOTO_SLEEP_CMD, the application's arming guard, and the system   *)
(* port of ev_platform_ports.c over the interrupt adapter.  Interrupts go  *)
(* on through all of it.                                                   *)
(*                                                                         *)
(* The port is modelled as its callers may use it: a request that fails    *)
(* may be followed by another.  (In the runtime a failed handler ends the  *)
(* poll and restarts the chip: AppLoop.)                                   *)
(***************************************************************************)
EXTENDS IrqAdapter

CONSTANT Profile   \* resources of the board: subset of {"irq", "onewire", "i2c"}

ASSUME ProfileAssumption == Profile \subseteq {"irq", "onewire", "i2c"}

VARIABLES step,      \* where the handler is; "none": not in it
          arming,    \* app->sleep_arming
          prepared   \* sleep_prepared of the system port
vars == <<on, status, ring, decode, dropped, sem, frozen, op, wanted, deaf, step, arming, prepared>>

Init == IrqInit /\ step = "none" /\ arming = FALSE /\ prepared = FALSE

Free == step = "none" /\ op.at = "idle"

-----------------------------------------------------------------------------
(* The task outside the handler. *)
Ingress ==
    /\ Free
    /\ Pop \/ WaitReturns \/ WaitBlocks \/ \E l \in Lines : EnableClears(l)
    /\ UNCHANGED <<step, arming, prepared>>

-----------------------------------------------------------------------------
(* The handler.  ev_demo_app_sleep_arm() asks the guard: nothing may wait   *)
(* in the mailboxes, in the interrupt ring or in the drivers, and no tick   *)
(* may be due.                                                              *)
RequestRefused ==
    /\ Free
    /\ op' = Idle("STATE")
    /\ UNCHANGED <<on, status, ring, decode, dropped, sem, frozen, wanted, deaf, step, arming, prepared>>

RequestArmed ==
    /\ Free /\ ~arming /\ ~Pending
    /\ arming' = TRUE /\ step' = "flush"
    /\ UNCHANGED <<irqVars, prepared>>

\* Every failure after the arming disarms, and the handler is left.
Leave == step' = "none" /\ arming' = FALSE

FlushFails ==
    /\ step = "flush"
    /\ Leave
    /\ UNCHANGED <<irqVars, prepared>>

\* ev_system_prepare_for_sleep_impl(): interrupts first, then the buses.
Flushed ==
    /\ step = "flush"
    /\ step' = IF prepared THEN "deep sleep" ELSE IF "irq" \in Profile THEN "prepare" ELSE "onewire"
    /\ UNCHANGED <<irqVars, arming, prepared>>

CallPrepare ==
    /\ step = "prepare" /\ StartPrepare
    /\ step' = "prepared?"
    /\ UNCHANGED <<arming, prepared>>

PrepareAnswers ==
    /\ step = "prepared?" /\ op.at = "idle"
    /\ IF op.rc = "OK" THEN step' = "onewire" /\ UNCHANGED arming ELSE Leave
    /\ UNCHANGED <<irqVars, prepared>>

BusReady(bus, then) ==
    /\ step = bus /\ op.at = "idle"
    /\ step' = then
    /\ UNCHANGED <<irqVars, arming, prepared>>

\* A bus that is busy or held low: what was frozen is restored.
BusBusy(bus) ==
    /\ step = bus /\ bus \in Profile
    /\ IF "irq" \in Profile
       THEN StartAbort /\ step' = "leave" /\ UNCHANGED arming
       ELSE Leave /\ UNCHANGED irqVars
    /\ UNCHANGED prepared

CallConfirm ==
    /\ step = "confirm"
    /\ IF "irq" \in Profile
       THEN StartConfirm /\ step' = "confirmed?" /\ UNCHANGED prepared
       ELSE UNCHANGED irqVars /\ step' = "deep sleep" /\ prepared' = TRUE
    /\ UNCHANGED arming

ConfirmAnswers ==
    /\ step = "confirmed?" /\ op.at = "idle"
    /\ IF op.rc = "OK"
       THEN prepared' = TRUE /\ step' = "deep sleep" /\ UNCHANGED irqVars
       ELSE StartAbort /\ step' = "leave" /\ UNCHANGED prepared
    /\ UNCHANGED arming

-----------------------------------------------------------------------------
(* ev_system_deep_sleep_impl(), and the handler's answer to its failure.   *)
CallCommit ==
    /\ step = "deep sleep"
    /\ IF "irq" \in Profile
       THEN StartCommit /\ step' = "committed?"
       ELSE UNCHANGED irqVars /\ step' = "enter"
    /\ UNCHANGED <<arming, prepared>>

\* ev_system_abort_sleep_prepare_impl()
CancelPrepare ==
    /\ IF prepared /\ "irq" \in Profile THEN StartAbort ELSE UNCHANGED irqVars
    /\ prepared' = FALSE /\ step' = "leave"
    /\ UNCHANGED arming

CommitAnswers ==
    /\ step = "committed?" /\ op.at = "idle"
    /\ IF op.rc = "OK"
       THEN step' = "enter" /\ UNCHANGED <<irqVars, arming, prepared>>
       ELSE CancelPrepare

EnterSleep ==
    /\ step = "enter"
    /\ step' = "asleep"
    /\ UNCHANGED <<irqVars, arming, prepared>>

\* Seeded fault: a deep sleep that fails is not cancelled.
Fault_NotCancelled ==
    /\ step = "enter"
    /\ Leave
    /\ UNCHANGED <<irqVars, prepared>>

\* esp_deep_sleep() came back: ev_power_actor_cancel_platform_sleep_prepare().
SleepFails == step = "enter" /\ CancelPrepare

Left ==
    /\ step = "leave" /\ op.at = "idle"
    /\ Leave
    /\ UNCHANGED <<irqVars, prepared>>

\* The chip wakes with a reset.
Wake ==
    /\ step = "asleep"
    /\ on' = {} /\ status' = {} /\ ring' = <<>> /\ decode' = {}
    /\ dropped' = 0 /\ sem' = FALSE /\ frozen' = {}
    /\ op' = Idle("none") /\ wanted' = {} /\ deaf' = {}
    /\ step' = "none" /\ arming' = FALSE /\ prepared' = FALSE

-----------------------------------------------------------------------------
Handler ==
    \/ RequestRefused \/ RequestArmed \/ FlushFails \/ Flushed
    \/ CallPrepare \/ PrepareAnswers
    \/ BusReady("onewire", "i2c") \/ BusReady("i2c", "confirm")
    \/ BusBusy("onewire") \/ BusBusy("i2c")
    \/ CallConfirm \/ ConfirmAnswers \/ CallCommit \/ CommitAnswers
    \/ EnterSleep \/ SleepFails \/ Left

Awake == step # "asleep"

Next ==
    \/ Ingress \/ Handler \/ Wake
    \/ Awake /\ (CallStep \/ Interrupts) /\ UNCHANGED <<step, arming, prepared>>

Spec == Init /\ [][Next]_vars

-----------------------------------------------------------------------------
Steps == {"none", "flush", "prepare", "prepared?", "onewire", "i2c", "confirm", "confirmed?",
          "deep sleep", "committed?", "enter", "leave", "asleep"}
TypeOK == IrqTypeOK /\ step \in Steps /\ arming \in BOOLEAN /\ prepared \in BOOLEAN

(***************************************************************************)
(* The chip goes to sleep with no interrupt unhandled: whenever the edge   *)
(* came, between any two steps of the handshake, its sample would be lost  *)
(* with the memory (docs/specs/power-deep-sleep-hil.md, scenario 1).       *)
(***************************************************************************)
AsleepMeansQuiet == step = "asleep" /\ "irq" \in Profile => ~Pending /\ status = {} /\ on = {}

(***************************************************************************)
(* The commit writes all latches away; none of them holds an edge then.    *)
(***************************************************************************)
CommitDiscardsNothing == [][op.at = "clear" /\ op'.at = "idle" => status = {}]_vars

(***************************************************************************)
(* However the handler ends, nothing of the handshake is left behind: a    *)
(* stale prepared flag would make the next prepare answer OK unchecked,    *)
(* and a stale arming flag stops ingress, ticks and the watchdog's feed.   *)
(***************************************************************************)
HandlerLeavesNothing == step = "none" => ~arming /\ ~prepared /\ frozen = {}

(***************************************************************************)
(* A sleep that does not happen leaves the board as it was ("without       *)
(* leaving the board in a partially disabled state", same document): the   *)
(* enabled lines are armed again, but for those the SDK refused to re-arm. *)
(***************************************************************************)
LinesRestored == Free => on = wanted \ deaf
=============================================================================
