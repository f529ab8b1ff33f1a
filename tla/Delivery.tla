------------------------------ MODULE Delivery ------------------------------
(***************************************************************************)
(* Publication, mailboxes and leases together: the path of an envelope     *)
(* from the code that builds it (ev_demo_app_publish_snapshot and the      *)
(* OLED scene commit in app/ev_demo_app.c), over the fan-out of            *)
(* core/src/ev_publish.c and the mailboxes of its targets, to the handler  *)
(* and the disposal in core/src/ev_actor_runtime.c.                        *)
(*                                                                         *)
(* The runtime is one cooperative task.  What interleaves is nesting: the  *)
(* handler of a popped message may itself build and publish envelopes      *)
(* before the popped one is disposed.  frame is the publisher's stack      *)
(* frame, run the frame of ev_actor_runtime_process_one().                 *)
(***************************************************************************)
EXTENDS LeasePool, MailboxOps, Sequences

CONSTANTS Actors,      \* the actors with a mailbox
          KindOf,      \* mailbox kind of each actor
          CapOf,       \* mailbox capacity of each actor
          Events,      \* event identifiers
          NoEvent,     \* the event of a frame that publishes nothing
          LeaseEvents, \* those whose payload kind is EV_PAYLOAD_LEASE
          Routes,      \* each event's static targets, in route-table order
          Enabled,     \* actors the board profile enables
          Bound        \* actors bound in the registry

ASSUME DeliveryAssumption ==
    /\ KindOf \in [Actors -> Kinds]
    /\ CapOf \in [Actors -> Nat \ {0}]
    /\ \A a \in Actors : KindOf[a] \notin RingKinds => CapOf[a] = 1
    /\ LeaseEvents \subseteq Events
    /\ Routes \in [Events -> Seq(Actors)]
    /\ Enabled \subseteq Actors /\ Bound \subseteq Actors

\* gen is not in the code: the generation the envelope's share was taken in.
Message == [event : Events, payload : {"none", "inline", "lease"},
        slot : Slots \cup {NoSlot}, gen : Generations]

ASSUME NoMsgAssumption == NoMsg \notin Message

PlainMsg(e, payload) == [event |-> e, payload |-> payload, slot |-> NoSlot, gen |-> 0]
LeaseMsg(e, h) ==
    [event |-> e, payload |-> "lease", slot |-> h.slot, gen |-> h.generation]

Policies == {"FAIL_FAST", "BEST_EFFORT"}

\* NoSlot in a handle: ev_lease_handle_t {0}.
NoHandle == [slot |-> NoSlot, generation |-> 0]

Frame == [pc : {"idle", "acquired", "publish", "dispose", "release"},
          event : Events \cup {NoEvent}, handle : Handle \cup {NoHandle}, msg : Message \cup {NoMsg},
          policy : Policies, next : Nat, delivered : Nat, failed : Nat]

VARIABLES pool,     \* the lease pool
          stale,    \* whether the pool ever counted a stale handle
          box,      \* the mailbox of each actor
          frame,    \* the publisher
          run,      \* the message being handled, or NoMsg
          rc        \* the result of the last publication
deliveryVars == <<pool, stale, box, frame, run, rc>>

IdleFrame ==
    [pc |-> "idle", event |-> NoEvent, handle |-> NoHandle, msg |-> NoMsg,
     policy |-> "FAIL_FAST", next |-> 1, delivered |-> 0, failed |-> 0]

DeliveryInit ==
    /\ pool = FreshPool
    /\ stale = FALSE
    /\ box = [a \in Actors |-> EmptyMailbox(KindOf[a], CapOf[a])]
    /\ frame = IdleFrame
    /\ run = NoMsg
    /\ rc = "OK"

-----------------------------------------------------------------------------
\* Disposing an envelope releases its lease through the slot callback, which
\* counts a stale handle when the slot no longer accepts it.
PoolAfterDispose(p, m) ==
    IF m # NoMsg /\ m.slot # NoSlot /\ SlotLive(p, m.slot, 1)
    THEN Released(p, HandleOf(p, m.slot)) ELSE p

StaleDispose(p, m) == m # NoMsg /\ m.slot # NoSlot /\ ~SlotLive(p, m.slot, 1)

AcquireLease(e, size, policy) ==
    /\ frame.pc = "idle"
    /\ FreeSlots(pool) # {}
    /\ LET s == FirstFree(pool)
           p == Acquired(pool, s, size)
       IN  /\ pool' = p
           /\ frame' = [IdleFrame EXCEPT !.pc = "acquired", !.event = e,
                         !.policy = policy, !.handle = HandleOf(p, s)]
    /\ UNCHANGED <<stale, box, run, rc>>

\* EV_ERR_FULL before anything was built.
AcquireFails ==
    /\ frame.pc = "idle"
    /\ FreeSlots(pool) = {}
    /\ rc' = "FULL"
    /\ UNCHANGED <<pool, stale, box, frame, run>>

\* ev_lease_pool_attach_msg(): the message takes a share of its own, unless
\* the lease is empty, which attaches no payload and retains nothing.
AttachLease ==
    /\ frame.pc = "acquired"
    /\ LET h == frame.handle
       IN  IF ~Live(pool, h)
           THEN /\ stale' = TRUE /\ rc' = "STATE"
                /\ frame' = [frame EXCEPT !.pc = "dispose"]
                /\ UNCHANGED pool
           ELSE IF pool[h.slot].size = 0
           THEN /\ frame' = [frame EXCEPT !.pc = "publish",
                                          !.msg = PlainMsg(frame.event, "none")]
                /\ UNCHANGED <<pool, stale, rc>>
           ELSE /\ pool' = Retained(pool, h)
                /\ frame' = [frame EXCEPT !.pc = "publish",
                                          !.msg = LeaseMsg(frame.event, h)]
                /\ UNCHANGED <<stale, rc>>
    /\ UNCHANGED <<box, run>>

\* An envelope without a lease: ticks, interrupts, ready indications.
BuildPlain(e, payload, policy) ==
    /\ frame.pc = "idle"
    /\ frame' = [IdleFrame EXCEPT !.pc = "publish", !.event = e, !.policy = policy,
                                  !.msg = PlainMsg(e, payload)]
    /\ UNCHANGED <<pool, stale, box, run, rc>>

-----------------------------------------------------------------------------
Targets == Routes[frame.event]

\* What the loop of ev_publish_ex() does with the answer of one delivery.
Counted(ok) ==
    IF ok
    THEN frame' = [frame EXCEPT !.next = @ + 1, !.delivered = @ + 1]
    ELSE frame' = [frame EXCEPT !.next = @ + 1, !.failed = @ + 1,
                     !.pc = IF frame.policy = "FAIL_FAST" THEN "dispose" ELSE @]

\* ev_publish_ex() answers the first error, PARTIAL when some got through.
AnswerFailed(err) ==
    rc' = IF frame.policy = "FAIL_FAST" \/ frame.failed = 0 THEN err ELSE rc

\* A route to an actor the board does not have succeeds without delivery.
SkipDisabled ==
    /\ frame.pc = "publish"
    /\ frame.next <= Len(Targets)
    /\ Targets[frame.next] \notin Enabled
    /\ Counted(TRUE)
    /\ UNCHANGED <<pool, stale, box, run, rc>>

TargetMissing ==
    /\ frame.pc = "publish"
    /\ frame.next <= Len(Targets)
    /\ Targets[frame.next] \in Enabled \ Bound
    /\ Counted(FALSE)
    /\ AnswerFailed("NOT_FOUND")
    /\ UNCHANGED <<pool, stale, box, run>>

\* The retain callback of the envelope, as the mailbox would call it.
RetainRc(m) == IF m.slot = NoSlot \/ SlotLive(pool, m.slot, 1) THEN "OK" ELSE "STATE"

\* Fault: the queued copy takes no share of its own.
Fault_PoolWithoutQueueShare(m) == pool

PoolAfterRetain(m) ==
    IF m.slot = NoSlot THEN pool ELSE Retained(pool, HandleOf(pool, m.slot))

PushOf(a) == Push(box[a], frame.msg, RetainRc(frame.msg), frame.msg.payload = "none")

\* The mailbox retains the envelope for the queue before it disposes the one
\* it has to make room for.
DeliverAccepted ==
    /\ frame.pc = "publish"
    /\ frame.next <= Len(Targets)
    /\ LET a == Targets[frame.next]
           r == PushOf(a)
           p == IF r.counter = "coalesced" THEN pool ELSE PoolAfterRetain(frame.msg)
       IN  /\ a \in Enabled \cap Bound
           /\ r.rc = "OK"
           /\ box' = [box EXCEPT ![a] = r.mb]
           /\ pool' = PoolAfterDispose(p, r.evicted)
           /\ stale' = (stale \/ StaleDispose(p, r.evicted))
    /\ Counted(TRUE)
    /\ UNCHANGED <<run, rc>>

DeliverRejected ==
    /\ frame.pc = "publish"
    /\ frame.next <= Len(Targets)
    /\ LET a == Targets[frame.next]
           r == PushOf(a)
       IN  /\ a \in Enabled \cap Bound
           /\ r.rc # "OK"
           /\ stale' = (stale \/ r.rc = "STATE")
           /\ AnswerFailed(r.rc)
    /\ Counted(FALSE)
    /\ UNCHANGED <<pool, box, run>>

FanOutDone ==
    /\ frame.pc = "publish"
    /\ frame.next > Len(Targets)
    /\ frame' = [frame EXCEPT !.pc = "dispose"]
    /\ rc' = CASE Targets = <<>>        -> "NOT_FOUND"
               [] Targets # <<>> /\ frame.failed = 0 -> "OK"
               [] Targets # <<>> /\ frame.failed > 0 ->
                    IF frame.delivered > 0 THEN "PARTIAL" ELSE rc
    /\ UNCHANGED <<pool, stale, box, run>>

\* ev_demo_app_publish_owned() disposes whatever the publication answered.
DisposeBuilt ==
    /\ frame.pc = "dispose"
    /\ pool' = PoolAfterDispose(pool, frame.msg)
    /\ stale' = (stale \/ StaleDispose(pool, frame.msg))
    /\ frame' = [frame EXCEPT !.pc = "release", !.msg = NoMsg]
    /\ UNCHANGED <<box, run, rc>>

ReleaseHandle ==
    /\ frame.pc = "release"
    /\ LET h == frame.handle
           held == h # NoHandle
       IN  /\ pool' = IF held /\ Live(pool, h) THEN Released(pool, h) ELSE pool
           /\ stale' = (stale \/ (held /\ ~Live(pool, h)))
    /\ frame' = IdleFrame
    /\ UNCHANGED <<box, run, rc>>

-----------------------------------------------------------------------------
\* ev_actor_runtime_process_one(): ownership moves from the queue to the frame.
PopMessage(a) ==
    /\ frame.pc = "idle" /\ run = NoMsg
    /\ box[a].count > 0
    /\ run' = Popped(box[a])
    /\ box' = [box EXCEPT ![a] = Pop(@)]
    /\ UNCHANGED <<pool, stale, frame, rc>>

\* The handler returned, with any result; the message is disposed regardless.
HandlerDone ==
    /\ frame.pc = "idle" /\ run # NoMsg
    /\ pool' = PoolAfterDispose(pool, run)
    /\ stale' = (stale \/ StaleDispose(pool, run))
    /\ run' = NoMsg
    /\ UNCHANGED <<box, frame, rc>>

DeliveryNext ==
    \/ \E e \in LeaseEvents, size \in 0..1, policy \in Policies : AcquireLease(e, size, policy)
    \/ AcquireFails \/ AttachLease
    \/ \E e \in Events \ LeaseEvents, payload \in {"none", "inline"}, policy \in Policies :
          BuildPlain(e, payload, policy)
    \/ SkipDisabled \/ TargetMissing \/ DeliverAccepted \/ DeliverRejected \/ FanOutDone
    \/ DisposeBuilt \/ ReleaseHandle
    \/ \E a \in Actors : PopMessage(a)
    \/ HandlerDone

DeliverySpec == DeliveryInit /\ [][DeliveryNext]_deliveryVars

-----------------------------------------------------------------------------
Results == {"OK", "FULL", "STATE", "CONTRACT", "NOT_FOUND", "PARTIAL"}

DeliveryTypeOK ==
    /\ pool \in [Slots -> Slot]
    /\ stale \in BOOLEAN
    /\ DOMAIN box = Actors
    /\ \A a \in Actors : box[a] \in Mailbox(KindOf[a], CapOf[a], Message)
    /\ frame \in Frame
    /\ run \in Message \cup {NoMsg}
    /\ rc \in Results

\* Every mailbox cell of the system.
Cells == UNION {{a} \X (0..(CapOf[a] - 1)) : a \in Actors}
Content(c) == box[c[1]].buf[c[2]]

Carries(m, s) == m # NoMsg /\ m.slot = s
CellsHolding(s) == {c \in Cells : Carries(Content(c), s)}

Share(p) == IF p THEN 1 ELSE 0

\* The references to slot s that exist: the publisher's handle, the envelope
\* it builds, the envelope being handled and the queued copies.
Shares(s) ==
    Share(frame.handle.slot = s) + Share(Carries(frame.msg, s))
        + Share(Carries(run, s)) + Cardinality(CellsHolding(s))

(***************************************************************************)
(* A slot's refcount is exactly the number of references to it, and the    *)
(* slot is free exactly when there are none: no interleaving of fan-out,   *)
(* rejection, eviction and nested publication leaks a lease, and none      *)
(* frees it under a reader.                                                *)
(***************************************************************************)
SharesExact ==
    \A s \in Slots :
        /\ pool[s].refcount = Shares(s)
        /\ pool[s].inUse <=> Shares(s) > 0

\* m still refers to the acquisition its share was taken in.
Current(m) == m # NoMsg /\ m.slot # NoSlot =>
    /\ pool[m.slot].inUse
    /\ pool[m.slot].generation = m.gen
    /\ pool[m.slot].size = 1

(***************************************************************************)
(* No envelope that is being built, queued or handled refers to a slot     *)
(* that was recycled for another payload: the callbacks, which look at the *)
(* slot's present generation, always meet the generation of the share.     *)
(***************************************************************************)
NoDangling ==
    /\ Current(frame.msg) /\ Current(run)
    /\ \A c \in Cells : Current(Content(c))
    /\ frame.handle # NoHandle => Live(pool, frame.handle)

(***************************************************************************)
(* The application's own traffic never makes the pool count a stale        *)
(* handle: the counter moves only for a caller outside this discipline.    *)
(***************************************************************************)
NeverStale == ~stale
=============================================================================
