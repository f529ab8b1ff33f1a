----------------------------- MODULE MCMessages -----------------------------
(* A mailbox on its own, and the delivery through mailboxes on a small board:*)
(* a FIFO, a lossy ring and a single-slot mailbox behind one leased event, a *)
(* plain event that shares two of them, and an unbound and a disabled actor  *)
(* at the end of its route.  The two share nothing: one run looks at each.   *)
EXTENDS Mailbox, Delivery

\* Two events; every payload class appears; the two plain ones differ in event.
MCMsg ==
    {[event |-> "tick", payload |-> "none",   id |-> 1],
     [event |-> "irq",  payload |-> "none",   id |-> 2],
     [event |-> "irq",  payload |-> "inline", id |-> 3],
     [event |-> "rsp",  payload |-> "lease",  id |-> 4],
     [event |-> "view", payload |-> "stream", id |-> 5]}

MCActors == {"app", "log", "view", "ghost", "off"}
MCKindOf == [a \in MCActors |->
    CASE a = "log" -> "LOSSY_RING" [] a = "view" -> "MAILBOX_1" [] OTHER -> "FIFO"]
MCCapOf == [a \in MCActors |-> IF a = "log" THEN 2 ELSE 1]
MCEvents == {"rsp", "tick", "orphan"}
MCRoutes == [e \in MCEvents |->
    CASE e = "rsp"    -> <<"view", "app", "log">>
      [] e = "tick"   -> <<"app", "off", "ghost", "log">>
      [] e = "orphan" -> <<>>]

VARIABLE part    \* the one looked at; the other stands still

MCInit ==
    /\ part \in {"mailbox", "delivery"} /\ Init /\ DeliveryInit
    /\ part = "delivery" => mb.kind = "FIFO"
MCNext ==
    \/ part = "mailbox" /\ Next /\ UNCHANGED <<part, deliveryVars>>
    \/ part = "delivery" /\ DeliveryNext /\ UNCHANGED <<part, vars>>
MCSpec == MCInit /\ [][MCNext]_<<part, vars, deliveryVars>>
=============================================================================
