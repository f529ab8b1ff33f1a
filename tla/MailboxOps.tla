----------------------------- MODULE MailboxOps -----------------------------
(***************************************************************************)
(* The mailbox of core/src/ev_mailbox.c as operators on a value: the ring  *)
(* (or the single slot), its indices and its count.  A push answers a      *)
(* record with the result code, the new mailbox, the queued envelope it    *)
(* had to dispose to make room and the counter it bumps.                   *)
(*                                                                         *)
(* The two FIFO kinds (8 and 16 cells) share one code path and differ in   *)
(* their capacity only, so the capacity is part of the value.              *)
(***************************************************************************)
EXTENDS Integers

CONSTANT NoMsg          \* a cell after ev_msg_reset(): carries no envelope

Kinds == {"FIFO", "MAILBOX_1", "LOSSY_RING", "COALESCED_FLAG"}

\* The kinds with indices that wrap; the others have one cell.
RingKinds == {"FIFO", "LOSSY_RING"}

Mailbox(kind, cap, Msg) ==
    [kind : {kind}, cap : {cap}, buf : [0..(cap - 1) -> Msg \cup {NoMsg}],
     head : 0..(cap - 1), tail : 0..(cap - 1), count : 0..cap]

EmptyMailbox(kind, cap) ==
    [kind |-> kind, cap |-> cap, buf |-> [i \in 0..(cap - 1) |-> NoMsg],
     head |-> 0, tail |-> 0, count |-> 0]

\* (index + 1) & storage_mask, with storage_count a power of two.
Advance(mb, i) == (i + 1) % mb.cap

-----------------------------------------------------------------------------
Rejected(mb, rc) ==
    [rc |-> rc, mb |-> mb, evicted |-> NoMsg, counter |-> "rejected"]

Stored(mb, evicted, counter) ==
    [rc |-> "OK", mb |-> mb, evicted |-> evicted, counter |-> counter]

\* Storing at the tail of a ring that has a free cell.
Enqueue(mb, m) ==
    [mb EXCEPT !.buf[mb.tail] = m, !.tail = Advance(mb, @), !.count = @ + 1]

\* Fault: the evicted cell is disposed but head stays.
Fault_DropHeadStuck(mb) == [mb EXCEPT !.buf[mb.head] = NoMsg, !.count = @ - 1]

\* Disposing the head cell of a full ring: drop-oldest.
DropHead(mb) ==
    [mb EXCEPT !.buf[mb.head] = NoMsg, !.head = Advance(mb, @), !.count = @ - 1]

\* retainRc is the answer of the payload's retain callback for the queued copy.
PushFifo(mb, m, retainRc) ==
    IF mb.count >= mb.cap THEN Rejected(mb, "FULL")
    ELSE IF retainRc # "OK" THEN Rejected(mb, retainRc)
    ELSE Stored(Enqueue(mb, m), NoMsg, "posted")

PushMailbox1(mb, m, retainRc) ==
    IF retainRc # "OK" THEN Rejected(mb, retainRc)
    ELSE Stored([mb EXCEPT !.buf[0] = m, !.count = 1], mb.buf[0],
                IF mb.count = 0 THEN "posted" ELSE "replaced")

PushLossyRing(mb, m, retainRc) ==
    IF retainRc # "OK" THEN Rejected(mb, retainRc)
    ELSE IF mb.count >= mb.cap
         THEN Stored(Enqueue(DropHead(mb), m), mb.buf[mb.head], "posted")
         ELSE Stored(Enqueue(mb, m), NoMsg, "posted")

\* Only a payloadless envelope of the pending event collapses into the flag.
PushCoalescedFlag(mb, m, payloadless) ==
    IF ~payloadless THEN Rejected(mb, "CONTRACT")
    ELSE IF mb.count = 0
         THEN Stored([mb EXCEPT !.buf[0] = m, !.count = 1], NoMsg, "posted")
    ELSE IF mb.buf[0].event # m.event THEN Rejected(mb, "CONTRACT")
    ELSE Stored(mb, NoMsg, "coalesced")

\* ev_mailbox_push() of a message that ev_msg_validate() accepts.
Push(mb, m, retainRc, payloadless) ==
    CASE mb.kind = "FIFO"           -> PushFifo(mb, m, retainRc)
      [] mb.kind = "MAILBOX_1"      -> PushMailbox1(mb, m, retainRc)
      [] mb.kind = "LOSSY_RING"     -> PushLossyRing(mb, m, retainRc)
      [] mb.kind = "COALESCED_FLAG" -> PushCoalescedFlag(mb, m, payloadless)

\* ev_mailbox_pop() of a mailbox with a pending message; what it hands out is
\* the head cell, whose ownership moves to the caller.
PopCell(mb) == IF mb.kind \in RingKinds THEN mb.head ELSE 0

Popped(mb) == mb.buf[PopCell(mb)]

Pop(mb) ==
    IF mb.kind \in RingKinds
    THEN [mb EXCEPT !.buf[mb.head] = NoMsg, !.head = Advance(mb, @), !.count = @ - 1]
    ELSE [mb EXCEPT !.buf[0] = NoMsg, !.count = 0]
=============================================================================
