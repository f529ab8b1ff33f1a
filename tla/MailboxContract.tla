-------------------------- MODULE MailboxContract --------------------------
(***************************************************************************)
(* What a mailbox promises its senders and its actor                       *)
(* (docs/specs/mailbox-semantics.md): a bounded sequence of envelopes,     *)
(* taken in the order in which they were accepted, and one explicit        *)
(* overflow policy per kind.  queue is what is pending, answer the result  *)
(* the last caller got and taken the envelope the last pop handed out.     *)
(***************************************************************************)
EXTENDS Naturals, Sequences

CONSTANTS Capacity,  \* of each mailbox kind, in envelopes
          Msg,       \* the envelopes that may be posted: records with an event
          NoMsg      \* what taken holds before the first pop

VARIABLES kind,      \* the mailbox kind, fixed at initialisation
          queue, answer, taken
vars == <<kind, queue, answer, taken>>

Init ==
    /\ kind \in DOMAIN Capacity
    /\ queue = <<>> /\ answer = "OK" /\ taken = NoMsg

Accept(m) ==
    /\ Len(queue) < Capacity[kind]
    /\ kind = "COALESCED_FLAG" => queue = <<>>
    /\ queue' = Append(queue, m) /\ answer' = "OK"
    /\ UNCHANGED taken

\* A full FIFO keeps what it holds and refuses the newcomer.
RejectFull ==
    /\ kind = "FIFO" /\ Len(queue) = Capacity[kind]
    /\ answer' = "FULL" /\ UNCHANGED <<queue, taken>>

\* Any kind may refuse an envelope it cannot own; the queue is left alone.
RejectUnqueueable ==
    /\ answer' \in {"STATE", "UNSUPPORTED", "CONTRACT"}
    /\ UNCHANGED <<queue, taken>>

\* A full lossy ring forgets the oldest pending envelope.
DropOldest(m) ==
    /\ kind = "LOSSY_RING" /\ Len(queue) = Capacity[kind]
    /\ queue' = Append(Tail(queue), m) /\ answer' = "OK"
    /\ UNCHANGED taken

\* The single slot holds the latest envelope only.
Overwrite(m) ==
    /\ kind = "MAILBOX_1" /\ queue # <<>>
    /\ queue' = <<m>> /\ answer' = "OK"
    /\ UNCHANGED taken

\* A repeated indication of the pending event collapses into it.
Coalesce(m) ==
    /\ kind = "COALESCED_FLAG" /\ queue # <<>>
    /\ Head(queue).event = m.event
    /\ answer' = "OK" /\ UNCHANGED <<queue, taken>>

Take ==
    /\ queue # <<>>
    /\ taken' = Head(queue) /\ queue' = Tail(queue) /\ answer' = "OK"

TakeEmpty ==
    /\ queue = <<>>
    /\ answer' = "EMPTY" /\ UNCHANGED <<queue, taken>>

Clear == queue' = <<>> /\ answer' = "OK" /\ UNCHANGED taken

Next ==
    /\ UNCHANGED kind
    /\ \/ \E m \in Msg : Accept(m) \/ DropOldest(m) \/ Overwrite(m) \/ Coalesce(m)
       \/ RejectFull \/ RejectUnqueueable \/ Take \/ TakeEmpty \/ Clear

Spec == Init /\ [][Next]_vars
=============================================================================
