------------------------------ MODULE Mailbox ------------------------------
(***************************************************************************)
(* One mailbox of core/src/ev_mailbox.c: every push, pop and reset, in any *)
(* order, with the diagnostic counters the code keeps.  The operations     *)
(* themselves are in MailboxOps; this module gives them callers and shows  *)
(* that the ring implements MailboxContract.                               *)
(*                                                                         *)
(* An envelope is an event, a payload class and an identity.  The payload  *)
(* class decides whether the queued copy can own its payload: a lease has  *)
(* a retain callback, which answers EV_ERR_STATE for a slot that is not    *)
(* live, a stream view has no queue ownership yet.                         *)
(***************************************************************************)
EXTENDS MailboxOps, Sequences

CONSTANTS RingCap,     \* cells of the FIFO and the lossy ring
          Msg,         \* set of envelopes: records with an event and a payload
          MaxOps       \* bound on the counters: operations between resets

ASSUME MailboxAssumption ==
    /\ RingCap \in Nat \ {0}
    /\ MaxOps \in Nat
    /\ NoMsg \notin Msg

Capacity == [k \in Kinds |-> IF k \in RingKinds THEN RingCap ELSE 1]

\* ev_mailbox_retain_for_queue(): what the retain of an envelope may answer.
RetainAnswers(m) ==
    CASE m.payload = "lease"  -> {"OK", "STATE"}
      [] m.payload = "stream" -> {"UNSUPPORTED"}
      [] OTHER                -> {"OK"}

VARIABLES mb, stats, answer, taken
vars == <<mb, stats, answer, taken>>

Counters == {"posted", "dropped", "replaced", "coalesced", "popped", "rejected"}
ZeroStats == [c \in Counters |-> 0]

Init ==
    /\ \E k \in Kinds : mb = EmptyMailbox(k, Capacity[k])
    /\ stats = [n |-> ZeroStats, high |-> 0]
    /\ answer = "OK"
    /\ taken = NoMsg

Bump(n, c) == [n EXCEPT ![c] = @ + 1]

\* ev_mailbox_record_high_watermark()
HighAfter(high, count) == IF count > high THEN count ELSE high

\* Fault: an eviction is not counted.
Fault_CountersForgetDropped(r) == Bump(stats.n, r.counter)

\* A lossy ring that evicts bumps dropped besides the counter of the push.
CountersAfter(r) ==
    LET dropped == IF mb.kind = "LOSSY_RING" /\ r.evicted # NoMsg
                   THEN Bump(stats.n, "dropped") ELSE stats.n
    IN  Bump(dropped, r.counter)

PushMsg(m) ==
    \E retainRc \in RetainAnswers(m) :
        LET r == Push(mb, m, retainRc, m.payload = "none")
        IN  /\ mb' = r.mb
            /\ stats' = [n |-> CountersAfter(r), high |-> HighAfter(stats.high, r.mb.count)]
            /\ answer' = r.rc
            /\ UNCHANGED taken

\* ev_msg_validate() refuses the envelope, a disposed one for instance.
PushInvalid ==
    /\ stats' = [stats EXCEPT !.n = Bump(@, "rejected")]
    /\ answer' = "STATE"
    /\ UNCHANGED <<mb, taken>>

PopMsg ==
    /\ mb.count > 0
    /\ mb' = Pop(mb)
    /\ taken' = Popped(mb)
    /\ stats' = [stats EXCEPT !.n = Bump(@, "popped")]
    /\ answer' = "OK"

PopEmpty ==
    /\ mb.count = 0
    /\ answer' = "EMPTY"
    /\ UNCHANGED <<mb, stats, taken>>

Reset ==
    /\ mb' = EmptyMailbox(mb.kind, mb.cap)
    /\ stats' = [n |-> ZeroStats, high |-> 0]
    /\ answer' = "OK"
    /\ UNCHANGED taken

\* MaxOps bounds the counters, not the mailbox.
InBound == \A c \in Counters : stats.n[c] < MaxOps

Next ==
    \/ InBound /\ (PushInvalid \/ PopMsg \/ \E m \in Msg : PushMsg(m))
    \/ PopEmpty
    \/ Reset

Spec == Init /\ [][Next]_vars

-----------------------------------------------------------------------------
TypeOK ==
    /\ \E k \in Kinds : mb \in Mailbox(k, Capacity[k], Msg)
    /\ stats \in [n : [Counters -> Nat], high : 0..mb.cap]
    /\ answer \in {"OK", "FULL", "STATE", "UNSUPPORTED", "CONTRACT", "EMPTY"}
    /\ taken \in Msg \cup {NoMsg}

\* The i-th pending envelope (i = 0 is the next to be popped).
CellAt(i) == (mb.head + i) % mb.cap

(***************************************************************************)
(* The occupied cells are exactly the count cells from head on, and tail   *)
(* is the cell after them: after any sequence of pushes, evictions, pops   *)
(* and resets no pending envelope is overwritten in place or left behind   *)
(* in a cell the indices no longer cover (whose lease share would leak).   *)
(***************************************************************************)
RingShape ==
    /\ \A c \in 0..(mb.cap - 1) :
          (mb.buf[c] # NoMsg) <=> \E i \in 0..(mb.count - 1) : c = CellAt(i)
    /\ mb.tail = IF mb.kind \in RingKinds THEN CellAt(mb.count) ELSE 0

(***************************************************************************)
(* The counters account for every envelope: what was posted was popped,    *)
(* dropped or is still pending.  Coalesced and replaced deliveries are     *)
(* counted apart and leave the balance alone.  The high watermark is never *)
(* below the present count.                                                *)
(***************************************************************************)
Accounting ==
    /\ stats.n["posted"] = stats.n["popped"] + stats.n["dropped"] + mb.count
    /\ stats.n["dropped"] > 0 => mb.kind = "LOSSY_RING"
    /\ stats.n["replaced"] > 0 => mb.kind = "MAILBOX_1"
    /\ mb.count <= stats.high

\* The pending envelopes in delivery order.
Pending == [i \in 1..mb.count |-> mb.buf[CellAt(i - 1)]]

Contract == INSTANCE MailboxContract WITH kind <- mb.kind, queue <- Pending

(***************************************************************************)
(* The ring with its wrapping indices implements the contract: envelopes   *)
(* leave in acceptance order, a full FIFO refuses, a full lossy ring loses *)
(* its oldest, the single slot keeps the latest and a flag collapses only  *)
(* repetitions of the pending event.                                       *)
(***************************************************************************)
ImplementsContract == Contract!Spec
=============================================================================
