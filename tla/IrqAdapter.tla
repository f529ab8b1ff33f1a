----------------------------- MODULE IrqAdapter -----------------------------
(***************************************************************************)
(* The GPIO interrupt adapter (ev_irq_adapter.c): an interrupt handler     *)
(* that moves the latched edges of all lines into a ring, one sample for   *)
(* the edges of one interrupt, and the calls of the one task: pop, wait,   *)
(* enable, and the three calls that freeze the lines before a deep sleep.  *)
(*                                                                         *)
(* The handler may run between any two steps of a call, except inside its  *)
(* critical sections; each step below is one of these sections, or one     *)
(* access to the GPIO registers.  An edge may be latched for a while       *)
(* before the handler runs: interrupts are held off elsewhere, too.        *)
(*                                                                         *)
(* The task's call in progress is op.  ev_gpio_irq_line armed flags, the   *)
(* mask of enabled lines and the trigger type in the hardware change       *)
(* together and are one set, on.                                           *)
(***************************************************************************)
EXTENDS Integers, Sequences, FiniteSetsExt

CONSTANTS NLines,     \* configured lines, in the order of the configuration
          RingCap,    \* EV_ESP8266_IRQ_RING_CAPACITY
          CountWrap   \* 2^32: values of the dropped_samples counter

ASSUME IrqAssumption ==
    NLines \in Nat \ {0} /\ RingCap \in Nat \ {0} /\ CountWrap \in Nat \ {0, 1}

Lines == 1..NLines

VARIABLES on,       \* lines whose trigger is set in the hardware
          status,   \* lines with a latched edge: GPIO_STATUS
          ring,     \* samples: nonempty sets of lines
          decode,   \* decode_status: rest of the sample being popped
          dropped,  \* dropped_samples
          sem,      \* the binary wait semaphore
          frozen,   \* sleep_prepared_gpio_mask; sleep_prepared is its non-emptiness
          op,       \* the call in progress and the answer of the last one
          wanted,   \* not in the code: lines last enabled by ev_esp8266_irq_enable()
          deaf      \* not in the code: wanted lines the SDK refused to re-arm
irqVars == <<on, status, ring, decode, dropped, sem, frozen, op, wanted, deaf>>

Idle(answer) == [at |-> "idle", site |-> "none", line |-> 0, mask |-> {}, seen |-> FALSE, rc |-> answer]
Entered(at, site) == [at |-> at, site |-> site, line |-> 0, mask |-> {}, seen |-> FALSE, rc |-> "none"]

IrqInit ==
    /\ on = {} /\ status = {} /\ ring = <<>> /\ decode = {}
    /\ dropped = 0 /\ sem = FALSE /\ frozen = {}
    /\ op = Idle("none") /\ wanted = {} /\ deaf = {}

Pending == ring # <<>> \/ decode # {}

-----------------------------------------------------------------------------
(* The hardware and the interrupt handler. *)
Edge(l) ==
    /\ l \in on /\ l \notin status
    /\ status' = status \cup {l}
    /\ UNCHANGED <<on, ring, decode, dropped, sem, frozen, op, wanted, deaf>>

Isr ==
    /\ status # {}
    /\ status' = {}
    /\ IF Len(ring) < RingCap
       THEN ring' = Append(ring, status) /\ sem' = TRUE /\ UNCHANGED dropped
       ELSE dropped' = (dropped + 1) % CountWrap /\ UNCHANGED <<ring, sem>>
    /\ UNCHANGED <<on, decode, frozen, op, wanted, deaf>>

-----------------------------------------------------------------------------
(* ev_esp8266_irq_pop(), _wait() and _enable(). *)
Pop ==
    /\ op.at = "idle" /\ Pending
    /\ LET current == IF decode = {} THEN Head(ring) ELSE decode
       IN  decode' = current \ {Min(current)}
    /\ ring' = IF decode = {} THEN Tail(ring) ELSE ring
    /\ op' = Idle("OK")
    /\ UNCHANGED <<on, status, dropped, sem, frozen, wanted, deaf>>

WaitReturns ==
    /\ op.at = "idle" /\ Pending
    /\ op' = Idle("woken")
    /\ UNCHANGED <<on, status, ring, decode, dropped, sem, frozen, wanted, deaf>>

\* Seeded fault: the rest of a sample being popped is forgotten.
Fault_WaitIgnoresDecode ==
    /\ op.at = "idle" /\ ring = <<>>
    /\ op' = Entered("blocked", "wait")
    /\ UNCHANGED <<on, status, ring, decode, dropped, sem, frozen, wanted, deaf>>

WaitBlocks ==
    /\ op.at = "idle" /\ ~Pending
    /\ op' = Entered("blocked", "wait")
    /\ UNCHANGED <<on, status, ring, decode, dropped, sem, frozen, wanted, deaf>>

WaitWoken ==
    /\ op.at = "blocked" /\ sem
    /\ sem' = FALSE /\ op' = Idle("woken")
    /\ UNCHANGED <<on, status, ring, decode, dropped, frozen, wanted, deaf>>

WaitTimesOut ==
    /\ op.at = "blocked" /\ ~sem
    /\ op' = Idle("timeout")
    /\ UNCHANGED <<on, status, ring, decode, dropped, sem, frozen, wanted, deaf>>

\* A line's latched edge is cleared before its trigger is set.
EnableClears(l) ==
    /\ op.at = "idle"
    /\ status' = status \ {l}
    /\ op' = [Entered("arm", "enable") EXCEPT !.line = l]
    /\ UNCHANGED <<on, ring, decode, dropped, sem, frozen, wanted, deaf>>

\* The SDK may refuse the trigger type.
EnableArms(enabled, accepted) ==
    /\ op.at = "arm"
    /\ IF accepted
       THEN /\ on' = IF enabled THEN on \cup {op.line} ELSE on \ {op.line}
            /\ wanted' = IF enabled THEN wanted \cup {op.line} ELSE wanted \ {op.line}
            /\ deaf' = deaf \ {op.line}
       ELSE UNCHANGED <<on, wanted, deaf>>
    /\ op' = Idle(IF accepted THEN "OK" ELSE "STATE")
    /\ UNCHANGED <<status, ring, decode, dropped, sem, frozen>>

-----------------------------------------------------------------------------
(* ev_esp8266_irq_prepare_for_sleep(), _confirm_sleep_ready(),             *)
(* _abort_sleep_prepare() and _commit_sleep_prepare().                     *)
StartPrepare ==
    /\ op.at = "idle"
    /\ op' = IF frozen # {} THEN Idle("OK") ELSE Entered("count", "prepare")
    /\ UNCHANGED <<on, status, ring, decode, dropped, sem, frozen, wanted, deaf>>

StartConfirm ==
    /\ op.at = "idle"
    /\ op' = Entered("count", "confirm")
    /\ UNCHANGED <<on, status, ring, decode, dropped, sem, frozen, wanted, deaf>>

StartCommit ==
    /\ op.at = "idle"
    /\ op' = IF frozen = {} THEN Idle("OK") ELSE Entered("count", "commit")
    /\ UNCHANGED <<on, status, ring, decode, dropped, sem, frozen, wanted, deaf>>

StartAbort ==
    /\ op.at = "idle"
    /\ op' = IF frozen = {} THEN Idle("OK")
             ELSE [Entered("restore", "abort") EXCEPT !.mask = frozen, !.rc = "OK"]
    /\ UNCHANGED <<on, status, ring, decode, dropped, sem, frozen, wanted, deaf>>

\* The pending samples are counted in a critical section, the latches are
\* read after it.
CountPending ==
    /\ op.at = "count"
    /\ op' = [op EXCEPT !.at = "status", !.seen = Pending]
    /\ UNCHANGED <<on, status, ring, decode, dropped, sem, frozen, wanted, deaf>>

Rollback == [op EXCEPT !.at = "restore", !.rc = "STATE"]

\* Seeded faults: one half of the check is left out.
Fault_CheckLatchesOnly ==
    /\ op.at = "status" /\ status = {}
    /\ op' = CASE op.site = "prepare" -> [op EXCEPT !.at = "disable"]
               [] op.site = "commit"  -> [op EXCEPT !.at = "clear"]
               [] OTHER               -> Idle("OK")
    /\ frozen' = IF op.site = "recheck" THEN op.mask ELSE frozen
    /\ UNCHANGED <<on, status, ring, decode, dropped, sem, wanted, deaf>>

Fault_CheckSamplesOnly ==
    /\ op.at = "status" /\ ~op.seen
    /\ op' = CASE op.site = "prepare" -> [op EXCEPT !.at = "disable"]
               [] op.site = "commit"  -> [op EXCEPT !.at = "clear"]
               [] OTHER               -> Idle("OK")
    /\ frozen' = IF op.site = "recheck" THEN op.mask ELSE frozen
    /\ UNCHANGED <<on, status, ring, decode, dropped, sem, wanted, deaf>>

CheckPassed ==
    /\ op.at = "status" /\ ~op.seen /\ status = {}
    /\ op' = CASE op.site = "prepare" -> [op EXCEPT !.at = "disable"]
               [] op.site = "commit"  -> [op EXCEPT !.at = "clear"]
               [] OTHER               -> Idle("OK")
    /\ frozen' = IF op.site = "recheck" THEN op.mask ELSE frozen
    /\ UNCHANGED <<on, status, ring, decode, dropped, sem, wanted, deaf>>

CheckFailed ==
    /\ op.at = "status" /\ (op.seen \/ status # {})
    /\ op' = IF op.site = "recheck" THEN Rollback ELSE Idle("STATE")
    /\ UNCHANGED <<on, status, ring, decode, dropped, sem, frozen, wanted, deaf>>

\* The lines are disabled in their order; one that is off is passed over.
DisableLine ==
    /\ op.at = "disable" /\ on # {}
    /\ on' = on \ {Min(on)}
    /\ op' = [op EXCEPT !.at = "discard", !.line = Min(on), !.mask = @ \cup {Min(on)}]
    /\ UNCHANGED <<status, ring, decode, dropped, sem, frozen, wanted, deaf>>

\* Seeded fault: a line that cannot be disabled ends the call at once.
Fault_DisableNoRollback ==
    /\ op.at = "disable" /\ on # {}
    /\ op' = Idle("STATE")
    /\ UNCHANGED <<on, status, ring, decode, dropped, sem, frozen, wanted, deaf>>

DisableFails ==
    /\ op.at = "disable" /\ on # {}
    /\ op' = Rollback
    /\ UNCHANGED <<on, status, ring, decode, dropped, sem, frozen, wanted, deaf>>

DiscardLatch ==
    /\ op.at = "discard"
    /\ status' = status \ {op.line}
    /\ op' = [op EXCEPT !.at = "disable"]
    /\ UNCHANGED <<on, ring, decode, dropped, sem, frozen, wanted, deaf>>

AllDisabled ==
    /\ op.at = "disable" /\ on = {}
    /\ op' = [op EXCEPT !.at = "count", !.site = "recheck"]
    /\ UNCHANGED <<on, status, ring, decode, dropped, sem, frozen, wanted, deaf>>

ClearLatches ==
    /\ op.at = "clear"
    /\ status' = {}
    /\ op' = Idle("OK")
    /\ UNCHANGED <<on, ring, decode, dropped, sem, frozen, wanted, deaf>>

\* ev_esp8266_irq_restore_mask(): a line the SDK refuses is passed over, and
\* is no longer in the mask of frozen lines either.
RestoreLine(accepted) ==
    /\ op.at = "restore" /\ op.mask # {}
    /\ LET l == Min(op.mask)
       IN  /\ on' = IF accepted THEN on \cup {l} ELSE on
           /\ deaf' = IF accepted THEN deaf ELSE deaf \cup {l}
           /\ op' = [op EXCEPT !.mask = @ \ {l}, !.rc = IF accepted THEN @ ELSE "STATE"]
    /\ UNCHANGED <<status, ring, decode, dropped, sem, frozen, wanted>>

Restored ==
    /\ op.at = "restore" /\ op.mask = {}
    /\ frozen' = {} /\ op' = Idle(op.rc)
    /\ UNCHANGED <<on, status, ring, decode, dropped, sem, wanted, deaf>>

-----------------------------------------------------------------------------
\* The rest of a call that has begun.
CallStep ==
    \/ WaitWoken \/ WaitTimesOut
    \/ \E enabled, accepted \in BOOLEAN : EnableArms(enabled, accepted)
    \/ CountPending \/ CheckPassed \/ CheckFailed
    \/ DisableLine \/ DisableFails \/ DiscardLatch \/ AllDisabled \/ ClearLatches
    \/ \E accepted \in BOOLEAN : RestoreLine(accepted)
    \/ Restored

Interrupts == Isr \/ \E l \in Lines : Edge(l)

IrqTypeOK ==
    /\ on \subseteq Lines /\ status \subseteq Lines /\ decode \subseteq Lines
    /\ ring \in Seq((SUBSET Lines) \ {{}}) /\ Len(ring) <= RingCap
    /\ dropped \in 0..(CountWrap - 1) /\ sem \in BOOLEAN
    /\ frozen \subseteq Lines /\ wanted \subseteq Lines /\ deaf \subseteq wanted
    /\ op.line \in 0..NLines /\ op.mask \subseteq Lines

(***************************************************************************)
(* ev_esp8266_irq_wait() looks at the ring, leaves the critical section    *)
(* and only then takes the semaphore.  A sample that comes in between, or  *)
(* while the task is blocked, leaves a token: the task never sleeps on a   *)
(* ring that holds samples.                                                *)
(***************************************************************************)
NoLostWakeup == op.at = "blocked" /\ Pending => sem
=============================================================================
