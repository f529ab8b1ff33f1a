----------------------------- MODULE Scheduler -----------------------------
(***************************************************************************)
(* The cooperative scheduling stack: ev_actor_runtime_pump() drains one    *)
(* actor, ev_domain_pump_run() the actors of a domain and                  *)
(* ev_system_pump_run() the domains.  One task runs all three, so each is  *)
(* a frame on one stack: sys calls dom, dom calls act, act calls handlers, *)
(* which deliver messages to any actor.  Outside a run the caller delivers *)
(* (ingress, timers) and starts the next run.                              *)
(*                                                                         *)
(* A mailbox is its number of pending messages.  The scan over actors or   *)
(* domains is one step: between two pumps nothing can change what the scan *)
(* sees, so it stops at the first offset with pending work.                *)
(***************************************************************************)
EXTENDS Integers, FiniteSets, FiniteSetsExt

CONSTANTS NActors,   \* ev_actor_count()
          NDomains,  \* EV_DOMAIN_COUNT
          DomainOf,  \* execution domain of each actor
          Quantum,   \* drain budget of each actor
          CapOf,     \* mailbox capacity of each actor
          Bound,     \* actors with a runtime in the registry
          Served,    \* domains bound in the system pump
          Feeds,     \* to whom each actor's handler may deliver
          Outcomes,  \* what handlers may answer
          TurnBudgets \* turn budgets callers grant

Actors == 0..(NActors - 1)
Domains == 0..(NDomains - 1)

ASSUME SchedulerAssumption ==
    /\ NActors \in Nat \ {0} /\ NDomains \in Nat \ {0}
    /\ DomainOf \in [Actors -> Domains]
    /\ Quantum \in [Actors -> Nat]
    /\ CapOf \in [Actors -> Nat \ {0}]
    /\ Bound \subseteq Actors /\ Served \subseteq Domains /\ Served # {}
    /\ Feeds \in [Actors -> SUBSET Bound]
    /\ TurnBudgets \subseteq Nat \ {0}
    /\ Outcomes \cap {"busy", "none"} = {}

NoActor == NActors
NoDomain == NDomains

VARIABLES pend,     \* pending messages of each actor
          cursor,   \* next_actor_index of each domain pump
          next,     \* next_domain_index of the system pump
          act,      \* frame of ev_actor_runtime_pump()
          dom,      \* frame of ev_domain_pump_run()
          sys,      \* frame of ev_system_pump_run()
          domAnswer, sysAnswer   \* reports and results, from the return to the next run
vars == <<pend, cursor, next, act, dom, sys, domAnswer, sysAnswer>>

\* rc is "busy" while the frame has not answered yet.
NoPump == [actor |-> NoActor, left |-> 0, done |-> 0, rc |-> "busy"]

\* handled and swallowed are not in the code: messages really taken from a
\* mailbox in this run, and whether a handler failed in it.
NoRun == [domain |-> NoDomain, budget |-> 0, left |-> 0, start |-> 0, offset |-> 0,
          progressed |-> FALSE, made |-> FALSE, processed |-> 0, rc |-> "busy",
          handled |-> 0, failed |-> FALSE]

NoCall == [on |-> FALSE, budget |-> 0, left |-> 0, start |-> 0, offset |-> 0,
           progressed |-> FALSE, made |-> FALSE, turns |-> 0]

\* idle says that no work was pending at the return.
NoAnswer == [rc |-> "none", stop |-> "none", exhausted |-> FALSE, budget |-> 0,
             used |-> 0, idle |-> TRUE, handled |-> 0, failed |-> FALSE]

Init ==
    /\ pend = [a \in Actors |-> 0]
    /\ cursor = [d \in Domains |-> 0] /\ next = 0
    /\ act = NoPump /\ dom = NoRun /\ sys = NoCall
    /\ domAnswer = NoAnswer /\ sysAnswer = NoAnswer

-----------------------------------------------------------------------------
ActorsOf(d) == {a \in Bound : DomainOf[a] = d}
WaitingIn(d) == {a \in ActorsOf(d) : pend[a] > 0}
WaitingDomains == {d \in Served : WaitingIn(d) # {}}

\* ev_domain_pump_default_budget(): the messages that the actors of the
\* catalog, bound or not, may handle in one quantum each.
DomainQuantum(d) ==
    Cardinality(UNION {{a} \X (1..Quantum[a]) : a \in {b \in Actors : DomainOf[b] = d}})

\* Where a scan that has looked at the members before offset finds the next
\* one with work; a scan looks at n members, from start on, wrapping around.
Found(start, offset, n, waiting) == {o \in offset..(n - 1) : (start + o) % n \in waiting}

Advance(i, n) == IF i + 1 >= n THEN 0 ELSE i + 1

-----------------------------------------------------------------------------
(* The caller, between runs. *)
Deliver(a) ==
    /\ ~sys.on
    /\ pend[a] < CapOf[a]
    /\ pend' = [pend EXCEPT ![a] = @ + 1]
    /\ UNCHANGED <<cursor, next, act, dom, sys, domAnswer, sysAnswer>>

RunEmpty(budget) ==
    /\ ~sys.on
    /\ WaitingDomains = {}
    /\ sysAnswer' = [NoAnswer EXCEPT !.rc = "EMPTY", !.stop = "EMPTY", !.budget = budget]
    /\ UNCHANGED <<pend, cursor, next, act, dom, sys, domAnswer>>

Run(budget) ==
    /\ ~sys.on
    /\ WaitingDomains # {}
    /\ sys' = [NoCall EXCEPT !.on = TRUE, !.budget = budget, !.left = budget, !.start = next]
    /\ domAnswer' = NoAnswer /\ sysAnswer' = NoAnswer
    /\ UNCHANGED <<pend, cursor, next, act, dom>>

-----------------------------------------------------------------------------
(* ev_system_pump_run(). *)
Answered(rc, stop, exhausted, turns) ==
    sysAnswer' = [NoAnswer EXCEPT !.rc = rc, !.stop = stop, !.exhausted = exhausted,
                    !.budget = sys.budget, !.used = turns,
                    !.idle = (WaitingDomains = {})]

DomainOffsets == Found(sys.start, sys.offset, NDomains, WaitingDomains)
SystemScans == sys.on /\ dom.domain = NoDomain /\ sys.left > 0

GrantDomain ==
    /\ SystemScans /\ DomainOffsets # {}
    /\ LET o == Min(DomainOffsets)
           d == (sys.start + o) % NDomains
       IN  /\ DomainQuantum(d) > 0
           /\ sys' = [sys EXCEPT !.offset = o + 1]
           /\ dom' = [NoRun EXCEPT !.domain = d, !.budget = DomainQuantum(d),
                                   !.left = DomainQuantum(d), !.start = cursor[d]]
    /\ domAnswer' = NoAnswer
    /\ UNCHANGED <<pend, cursor, next, act, sysAnswer>>

RefuseDomain ==
    /\ SystemScans /\ DomainOffsets # {}
    /\ DomainQuantum((sys.start + Min(DomainOffsets)) % NDomains) = 0
    /\ Answered("CONTRACT", "CONTRACT", FALSE, sys.turns)
    /\ sys' = NoCall
    /\ UNCHANGED <<pend, cursor, next, act, dom, domAnswer>>

\* Fault: every pass starts with the first domain.
Fault_PassFromFirstDomain ==
    /\ SystemScans /\ DomainOffsets = {} /\ sys.progressed
    /\ sys' = [sys EXCEPT !.start = 0, !.offset = 0, !.progressed = FALSE]
    /\ UNCHANGED <<pend, cursor, next, act, dom, domAnswer, sysAnswer>>

NextSystemPass ==
    /\ SystemScans /\ DomainOffsets = {} /\ sys.progressed
    /\ sys' = [sys EXCEPT !.start = next, !.offset = 0, !.progressed = FALSE]
    /\ UNCHANGED <<pend, cursor, next, act, dom, domAnswer, sysAnswer>>

\* Either the turn budget is used up or a whole pass found nothing to do.
SystemStops ==
    /\ sys.on /\ dom.domain = NoDomain
    /\ sys.left = 0 \/ (DomainOffsets = {} /\ ~sys.progressed)
    /\ LET more == sys.left = 0 /\ WaitingDomains # {}
       IN  IF ~sys.made THEN Answered("STATE", "STATE", FALSE, sys.turns)
           ELSE Answered("OK", IF more THEN "OK" ELSE "EMPTY", more, sys.turns)
    /\ sys' = NoCall
    /\ UNCHANGED <<pend, cursor, next, act, dom, domAnswer>>

-----------------------------------------------------------------------------
(* ev_domain_pump_run() of dom.domain. *)
ActorOffsets == Found(dom.start, dom.offset, NActors, WaitingIn(dom.domain))
DomainRuns == dom.domain # NoDomain /\ dom.rc = "busy" /\ act.actor = NoActor
DomainScans == DomainRuns /\ dom.left > 0

GrantActor ==
    /\ DomainScans /\ ActorOffsets # {}
    /\ LET o == Min(ActorOffsets)
           a == (dom.start + o) % NActors
       IN  /\ Quantum[a] > 0
           /\ dom' = [dom EXCEPT !.offset = o + 1]
           /\ act' = [NoPump EXCEPT !.actor = a, !.left = Min({Quantum[a], dom.left})]
    /\ UNCHANGED <<pend, cursor, next, sys, domAnswer, sysAnswer>>

DomainAnswers(rc, stop, exhausted) ==
    /\ dom' = [dom EXCEPT !.rc = rc]
    /\ domAnswer' = [NoAnswer EXCEPT !.rc = rc, !.stop = stop, !.exhausted = exhausted,
                       !.budget = dom.budget, !.used = dom.processed,
                       !.idle = (WaitingIn(dom.domain) = {}),
                       !.handled = dom.handled, !.failed = dom.failed]

RefuseActor ==
    /\ DomainScans /\ ActorOffsets # {}
    /\ Quantum[(dom.start + Min(ActorOffsets)) % NActors] = 0
    /\ DomainAnswers("CONTRACT", "CONTRACT", FALSE)
    /\ UNCHANGED <<pend, cursor, next, act, sys, sysAnswer>>

\* Fault: every pass starts with the first actor.
Fault_PassFromFirstActor ==
    /\ DomainScans /\ ActorOffsets = {} /\ dom.progressed
    /\ dom' = [dom EXCEPT !.start = 0, !.offset = 0, !.progressed = FALSE]
    /\ UNCHANGED <<pend, cursor, next, act, sys, domAnswer, sysAnswer>>

NextDomainPass ==
    /\ DomainScans /\ ActorOffsets = {} /\ dom.progressed
    /\ dom' = [dom EXCEPT !.start = cursor[dom.domain], !.offset = 0, !.progressed = FALSE]
    /\ UNCHANGED <<pend, cursor, next, act, sys, domAnswer, sysAnswer>>

\* Fault: a run that used its budget up is always reported as exhausted.
Fault_DomainStopsExhausted ==
    /\ DomainRuns
    /\ dom.left = 0 \/ (ActorOffsets = {} /\ ~dom.progressed)
    /\ IF ~dom.made THEN DomainAnswers("STATE", "STATE", FALSE)
       ELSE DomainAnswers("OK", IF dom.left = 0 THEN "OK" ELSE "EMPTY", dom.left = 0)
    /\ UNCHANGED <<pend, cursor, next, act, sys, sysAnswer>>

DomainStops ==
    /\ DomainRuns
    /\ dom.left = 0 \/ (ActorOffsets = {} /\ ~dom.progressed)
    /\ LET more == dom.left = 0 /\ WaitingIn(dom.domain) # {}
       IN  IF ~dom.made THEN DomainAnswers("STATE", "STATE", FALSE)
           ELSE DomainAnswers("OK", IF more THEN "OK" ELSE "EMPTY", more)
    /\ UNCHANGED <<pend, cursor, next, act, sys, sysAnswer>>

\* Fault: the cursor stays at the domain that was served.
Fault_DomainReturnsToSame ==
    /\ dom.domain # NoDomain /\ dom.rc # "busy"
    /\ next' = dom.domain
    /\ dom' = NoRun
    /\ IF dom.rc = "OK"
       THEN /\ sys' = [sys EXCEPT !.turns = @ + 1, !.left = @ - 1,
                                  !.progressed = TRUE, !.made = TRUE]
            /\ UNCHANGED sysAnswer
       ELSE /\ Answered(dom.rc, dom.rc, FALSE, sys.turns + 1)
            /\ sys' = NoCall
    /\ UNCHANGED <<pend, cursor, act, domAnswer>>

\* Back in ev_system_pump_run(): the cursor moves whatever the answer was.
DomainReturns ==
    /\ dom.domain # NoDomain /\ dom.rc # "busy"
    /\ next' = Advance(dom.domain, NDomains)
    /\ dom' = NoRun
    /\ IF dom.rc = "OK"
       THEN /\ sys' = [sys EXCEPT !.turns = @ + 1, !.left = @ - 1,
                                  !.progressed = TRUE, !.made = TRUE]
            /\ UNCHANGED sysAnswer
       ELSE /\ Answered(dom.rc, dom.rc, FALSE, sys.turns + 1)
            /\ sys' = NoCall
    /\ UNCHANGED <<pend, cursor, act, domAnswer>>

-----------------------------------------------------------------------------
(* ev_actor_runtime_pump() of act.actor. *)
ActorRuns == act.actor # NoActor /\ act.rc = "busy"

\* Fault: the actor is drained until its mailbox is empty.
Fault_HandleUntilEmpty(rc, fed) ==
    /\ ActorRuns /\ pend[act.actor] > 0
    /\ LET popped == [pend EXCEPT ![act.actor] = @ - 1]
       IN  /\ fed \subseteq Feeds[act.actor]
           /\ \A b \in fed : popped[b] < CapOf[b]
           /\ pend' = [b \in Actors |-> popped[b] + (IF b \in fed THEN 1 ELSE 0)]
    /\ act' = [act EXCEPT !.rc = IF rc = "OK" THEN @ ELSE rc]
    /\ UNCHANGED <<cursor, next, dom, sys, domAnswer, sysAnswer>>

\* One message is popped, handled and disposed.  Its handler delivers to the
\* mailboxes in the set fed, which have room, and answers rc.
HandleOne(rc, fed) ==
    /\ ActorRuns /\ act.done < act.left /\ pend[act.actor] > 0
    /\ LET popped == [pend EXCEPT ![act.actor] = @ - 1]
       IN  /\ fed \subseteq Feeds[act.actor]
           /\ \A b \in fed : popped[b] < CapOf[b]
           /\ pend' = [b \in Actors |-> popped[b] + (IF b \in fed THEN 1 ELSE 0)]
    /\ act' = [act EXCEPT !.done = @ + 1, !.rc = IF rc = "OK" THEN @ ELSE rc]
    /\ dom' = [dom EXCEPT !.handled = @ + 1, !.failed = @ \/ rc # "OK"]
    /\ UNCHANGED <<cursor, next, sys, domAnswer, sysAnswer>>

QuantumOver ==
    /\ ActorRuns
    /\ act.done = act.left \/ pend[act.actor] = 0
    /\ act' = [act EXCEPT !.rc = "OK"]
    /\ UNCHANGED <<pend, cursor, next, dom, sys, domAnswer, sysAnswer>>

\* Back in ev_domain_pump_run(): EV_ERR_EMPTY goes on with the scan as if
\* nothing had been pumped, another error ends the run at once.
ActorReturns ==
    /\ act.actor # NoActor /\ act.rc # "busy"
    /\ cursor' = [cursor EXCEPT ![dom.domain] = Advance(act.actor, NActors)]
    /\ act' = NoPump
    /\ LET counted == [dom EXCEPT !.processed = @ + act.done]
       IN  CASE act.rc = "EMPTY" ->
                  dom' = dom /\ UNCHANGED domAnswer
             [] act.rc = "OK" ->
                  /\ dom' = [counted EXCEPT !.left = @ - act.done,
                                            !.progressed = TRUE, !.made = TRUE]
                  /\ UNCHANGED domAnswer
             [] OTHER ->
                  /\ dom' = [counted EXCEPT !.rc = act.rc]
                  /\ domAnswer' = [NoAnswer EXCEPT !.rc = act.rc, !.stop = act.rc,
                        !.budget = dom.budget, !.used = counted.processed,
                        !.idle = (WaitingIn(dom.domain) = {}),
                        !.handled = dom.handled, !.failed = dom.failed]
    /\ UNCHANGED <<pend, next, sys, sysAnswer>>

-----------------------------------------------------------------------------
PumpStep ==
    \/ GrantDomain \/ RefuseDomain \/ NextSystemPass \/ SystemStops
    \/ GrantActor \/ RefuseActor \/ NextDomainPass \/ DomainStops \/ DomainReturns
    \/ \E rc \in Outcomes, fed \in SUBSET Bound : HandleOne(rc, fed)
    \/ QuantumOver \/ ActorReturns

Next ==
    \/ \E a \in Bound : Deliver(a)
    \/ \E budget \in TurnBudgets : RunEmpty(budget) \/ Run(budget)
    \/ PumpStep

Spec == Init /\ [][Next]_vars

\* The runtime loop calls the pump whenever work is pending, and a run that
\* has begun goes on to its end: the task is never abandoned in the middle.
Fairness == WF_vars(PumpStep) /\ WF_vars(\E budget \in TurnBudgets : Run(budget))
FairSpec == Spec /\ Fairness

-----------------------------------------------------------------------------
Codes == Outcomes \cup {"OK", "EMPTY", "STATE", "CONTRACT", "none"}
Answer == [rc : Codes, stop : Codes, exhausted : BOOLEAN, budget : Nat, used : Nat,
           idle : BOOLEAN, handled : Nat, failed : BOOLEAN]

PumpFrame == [actor : Actors \cup {NoActor}, left : Nat, done : Nat, rc : Outcomes \cup {"busy", "OK"}]
RunFrame == [domain : Domains \cup {NoDomain}, budget : Nat, left : Nat, start : Actors,
             offset : 0..NActors, progressed : BOOLEAN, made : BOOLEAN, processed : Nat,
             rc : Codes \cup {"busy"}, handled : Nat, failed : BOOLEAN]
CallFrame == [on : BOOLEAN, budget : Nat, left : Nat, start : Domains,
              offset : 0..NDomains, progressed : BOOLEAN, made : BOOLEAN, turns : Nat]

TypeOK ==
    /\ pend \in [Actors -> Nat] /\ \A a \in Actors : pend[a] <= CapOf[a]
    /\ cursor \in [Domains -> Actors] /\ next \in Domains
    /\ act \in PumpFrame /\ act.done <= act.left
    /\ dom \in RunFrame /\ sys \in CallFrame
    /\ domAnswer \in Answer /\ sysAnswer \in Answer

ActorTurns(d) == INSTANCE FairTurns
    WITH N <- NActors, waiting <- WaitingIn(d), cursor <- cursor[d],
         serving <- IF dom.domain = d THEN act.actor ELSE NoActor

DomainTurns == INSTANCE FairTurns
    WITH N <- NDomains, waiting <- WaitingDomains, cursor <- next, serving <- dom.domain

(***************************************************************************)
(* Each domain pump grants quanta round-robin among its actors: cursor     *)
(* updates in the middle of a pass, early ends at a used up budget or at a *)
(* handler error, and messages fed forwards or backwards never make a scan *)
(* skip an actor or return to one out of turn.                             *)
(***************************************************************************)
ActorsInTurn ==
    /\ \A d \in Domains : ActorTurns(d)!Init
    /\ [][\A d \in Domains : [ActorTurns(d)!Next]_(ActorTurns(d)!vars)]_vars

(***************************************************************************)
(* The system pump does the same among the domains.                        *)
(***************************************************************************)
DomainsInTurn == DomainTurns!Spec

(***************************************************************************)
(* What a run reports is what happened: within its budget, exhausted only  *)
(* with the whole budget used and work left, EMPTY only when idle; an      *)
(* error answer means that a handler failed or an actor had no quantum.    *)
(***************************************************************************)
Truthful(answer) ==
    /\ answer.used <= answer.budget
    /\ answer.exhausted => answer.used = answer.budget /\ ~answer.idle
    /\ answer.rc = "OK" /\ ~answer.exhausted => answer.idle
    /\ answer.stop = "EMPTY" => answer.idle

AnswersTruthful ==
    /\ Truthful(domAnswer) /\ Truthful(sysAnswer)
    /\ domAnswer.handled = domAnswer.used
    /\ domAnswer.failed => domAnswer.rc # "OK"
    /\ domAnswer.rc \notin {"OK", "CONTRACT", "none"} => domAnswer.failed

\* Work is pending that nobody may drain.
Blocked == \E a \in Bound : pend[a] > 0 /\ Quantum[a] = 0

(***************************************************************************)
(* "an actor-level error when a handler or dispose path fails"             *)
(* (docs/specs/domain-pump-model.md): a run in which a handler failed does *)
(* not answer EV_OK.                                                       *)
(***************************************************************************)
HandlerFailureReported == domAnswer.failed => domAnswer.rc # "OK"

(***************************************************************************)
(* A run always comes back to its caller, even when handlers keep feeding  *)
(* each other: the budgets bound it, not the traffic.                      *)
(***************************************************************************)
RunReturns == sys.on ~> ~sys.on

(***************************************************************************)
(* No actor starves: one with pending messages in a served domain gets a   *)
(* quantum, whatever traffic the others have, unless a message for an      *)
(* actor that the catalog gives none stops every run.                      *)
(***************************************************************************)
NoStarvation ==
    \A a \in Bound : DomainOf[a] \in Served => (pend[a] > 0 ~> (act.actor = a \/ Blocked))
=============================================================================
