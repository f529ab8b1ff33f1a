--------------------------- MODULE Messages_proofs ---------------------------
(***************************************************************************)
(* Proofs about the mailboxes and about the life of a message.             *)
(*                                                                         *)
(* First one mailbox, for every capacity and every set of envelopes: as a  *)
(* value, what the operations of MailboxOps keep and change (from the      *)
(* lemma Covered on the indices are reasoned about without %); then the    *)
(* inductive invariant TypeOK /\ RingShape /\ Accounting of Mailbox; then  *)
(* that the ring of cells and indices implements the bounded queue of      *)
(* MailboxContract: the queue a mailbox stands for is a function of its    *)
(* value, and each operation on the value is shown to be the contract's    *)
(* operation on that queue.                                                *)
(*                                                                         *)
(* Then all of them with the leases: no lease is leaked and none is freed  *)
(* under a reader, for every number of actors, slots and generations,      *)
(* every mailbox kind and capacity and every route: SharesExact and        *)
(* NeverStale are invariants of Delivery.                                  *)
(*                                                                         *)
(* They are not inductive.  A release through a slot callback looks at the *)
(* slot as it is now, so one more share than there are references would be *)
(* given back if an envelope could outlive the acquisition it belongs to:  *)
(* NoDangling goes with them.  The shares in the mailboxes are counted by  *)
(* the cells that hold one; a push or pop writes one cell only in a        *)
(* mailbox whose indices agree with its cells: Sound.                      *)
(***************************************************************************)
EXTENDS Mailbox, Delivery, Extrema, SequenceTheorems

-----------------------------------------------------------------------------
\* RingShape as a property of a value, and without the remainder.
Covers(b, c) ==
    \/ b.head <= c /\ c < b.head + b.count
    \/ c < b.head + b.count - b.cap

Behind(b) == IF b.head + b.count < b.cap THEN b.head + b.count ELSE b.head + b.count - b.cap

Shape(b) ==
    /\ \A c \in 0..(b.cap - 1) : (b.buf[c] # NoMsg) <=> Covers(b, c)
    /\ b.tail = IF b.kind \in RingKinds THEN Behind(b) ELSE 0

Caps == Nat \ {0}

\* At most one round from head on: the remainder is one subtraction.
LEMMA Residue ==
  ASSUME NEW cap \in Caps, NEW head \in 0..(cap - 1), NEW i \in 0..cap
  PROVE  (head + i) % cap = IF head + i < cap THEN head + i ELSE head + i - cap
  BY DEF Caps

\* The cells that count cells from head on cover.
LEMMA Covered ==
  ASSUME NEW cap \in Caps, NEW head \in 0..(cap - 1), NEW count \in 0..cap, NEW c \in 0..(cap - 1)
  PROVE  (\E i \in 0..(count - 1) : c = (head + i) % cap)
           <=> (head <= c /\ c < head + count) \/ c < head + count - cap
<1>1. \A i \in 0..(count - 1) :
         (head + i) % cap = IF head + i < cap THEN head + i ELSE head + i - cap
  <2>1. \A i \in 0..(count - 1) : i \in 0..cap
    BY DEF Caps
  <2>2. QED
    BY <2>1, Residue
<1>2. ASSUME head <= c /\ c < head + count
      PROVE  \E i \in 0..(count - 1) : c = (head + i) % cap
  <2>1. c - head \in 0..(count - 1) /\ head + (c - head) < cap /\ head + (c - head) = c
    BY <1>2 DEF Caps
  <2>2. QED
    BY <1>1, <2>1
<1>3. ASSUME c < head + count - cap
      PROVE  \E i \in 0..(count - 1) : c = (head + i) % cap
  <2>1. /\ c + cap - head \in 0..(count - 1)
        /\ ~(head + (c + cap - head) < cap)
        /\ head + (c + cap - head) - cap = c
    BY <1>3 DEF Caps
  <2>2. QED
    BY <1>1, <2>1
<1>4. ASSUME NEW i \in 0..(count - 1), c = (head + i) % cap
      PROVE  (head <= c /\ c < head + count) \/ c < head + count - cap
  BY <1>1, <1>4 DEF Caps
<1>5. QED
  BY <1>2, <1>3, <1>4

-----------------------------------------------------------------------------
(* The operations on the value. *)

\* A mailbox of the right type whose indices agree with its cells.
Sound(b, k, cap, Envelopes) == b \in Mailbox(k, cap, Envelopes) /\ Shape(b)

LEMMA AdvanceFacts ==
  ASSUME NEW cap \in Caps, NEW b, b.cap = cap, NEW i \in 0..(cap - 1)
  PROVE  Advance(b, i) = IF i + 1 < cap THEN i + 1 ELSE 0
  BY DEF Advance, Caps

LEMMA EmptySound ==
  ASSUME NEW Envelopes, NEW k \in Kinds, NEW cap \in Caps
  PROVE  Sound(EmptyMailbox(k, cap), k, cap, Envelopes)
  BY DEF EmptyMailbox, Sound, Mailbox, Shape, Covers, Behind, Caps

\* A ring with a free cell takes the envelope behind the others.
LEMMA EnqueueSound ==
  ASSUME NEW Envelopes, NoMsg \notin Envelopes,
         NEW k \in RingKinds, NEW cap \in Caps, NEW b, Sound(b, k, cap, Envelopes),
         b.count < cap, NEW m \in Envelopes
  PROVE  Sound(Enqueue(b, m), k, cap, Envelopes) /\ Enqueue(b, m).count = b.count + 1
<1> DEFINE e == Enqueue(b, m)
<1>0. b \in Mailbox(k, cap, Envelopes) /\ Shape(b)
  BY DEF Sound
<1>1. /\ b.kind = k /\ b.cap = cap /\ b.tail = Behind(b)
      /\ b.buf \in [0..(cap - 1) -> Envelopes \cup {NoMsg}]
  BY <1>0 DEF Mailbox, Shape
<1>2. b.head \in 0..(cap - 1) /\ b.tail \in 0..(cap - 1) /\ b.count \in 0..(cap - 1)
  BY <1>0 DEF Mailbox, Caps
<1>3. Advance(b, b.tail) = IF b.tail + 1 < cap THEN b.tail + 1 ELSE 0
  BY <1>1, <1>2, AdvanceFacts
<1>4. e = [b EXCEPT !.buf = [b.buf EXCEPT ![b.tail] = m], !.tail = Advance(b, b.tail),
                    !.count = b.count + 1]
  BY <1>0 DEF Enqueue, Mailbox
<1>5. e.kind = k /\ e.cap = cap /\ e.buf = [b.buf EXCEPT ![b.tail] = m]
  BY <1>0, <1>1, <1>4 DEF Mailbox
<1>6. /\ e.head = b.head /\ e.count = b.count + 1
      /\ e.tail = IF b.tail + 1 < cap THEN b.tail + 1 ELSE 0
  BY <1>0, <1>3, <1>4 DEF Mailbox
<1>7. e \in Mailbox(k, cap, Envelopes)
  <2>1. Advance(b, b.tail) \in 0..(cap - 1) /\ b.count + 1 \in 0..cap
    BY <1>2, <1>3 DEF Caps
  <2>2. [b.buf EXCEPT ![b.tail] = m] \in [0..(cap - 1) -> Envelopes \cup {NoMsg}]
    BY <1>1
  <2>3. QED
    BY <1>0, <1>4, <2>1, <2>2 DEF Mailbox
<1> HIDE DEF e
<1>8. ASSUME NEW c \in 0..(cap - 1) PROVE (e.buf[c] # NoMsg) <=> Covers(e, c)
  <2>1. Covers(e, c) <=> c = b.tail \/ Covers(b, c)
    <3>1. e.cap = cap /\ b.cap = cap /\ b.tail = Behind(b)
      BY <1>1, <1>5
    <3>2. QED
      BY <1>2, <1>6, <3>1 DEF Covers, Behind, Caps
  <2>2. (b.buf[c] # NoMsg) <=> Covers(b, c)
    BY <1>0, <1>1 DEF Shape
  <2>3. e.buf[c] = IF c = b.tail THEN m ELSE b.buf[c]
    BY <1>1, <1>5
  <2>4. QED
    BY <2>1, <2>2, <2>3
<1>9. e.tail = Behind(e)
  <2>1. e.cap = cap /\ b.cap = cap /\ b.tail = Behind(b)
    BY <1>1, <1>5
  <2>2. QED
    BY <1>2, <1>6, <2>1 DEF Behind, Caps
<1>10. QED
  BY <1>5, <1>6, <1>7, <1>8, <1>9 DEF Sound, Shape, e

\* Taking the head cell of a ring leaves the ring of the others.
LEMMA DropHeadSound ==
  ASSUME NEW Envelopes, NEW k \in RingKinds, NEW cap \in Caps, NEW b, Sound(b, k, cap, Envelopes), b.count > 0
  PROVE  /\ Sound(DropHead(b), k, cap, Envelopes) /\ DropHead(b).count = b.count - 1
         /\ b.buf[b.head] \in Envelopes
<1> DEFINE e == DropHead(b)
<1>0. b \in Mailbox(k, cap, Envelopes) /\ Shape(b)
  BY DEF Sound
<1>1. /\ b.kind = k /\ b.cap = cap /\ b.tail = Behind(b)
      /\ b.buf \in [0..(cap - 1) -> Envelopes \cup {NoMsg}]
  BY <1>0 DEF Mailbox, Shape
<1>2. b.head \in 0..(cap - 1) /\ b.tail \in 0..(cap - 1) /\ b.count \in 1..cap
  BY <1>0 DEF Mailbox, Caps
<1>3. Advance(b, b.head) = IF b.head + 1 < cap THEN b.head + 1 ELSE 0
  BY <1>1, <1>2, AdvanceFacts
<1>4. e = [b EXCEPT !.buf = [b.buf EXCEPT ![b.head] = NoMsg], !.head = Advance(b, b.head),
                    !.count = b.count - 1]
  BY <1>0 DEF DropHead, Mailbox
<1>5. /\ e.kind = k /\ e.cap = cap /\ e.tail = b.tail
      /\ e.buf = [b.buf EXCEPT ![b.head] = NoMsg]
  BY <1>0, <1>1, <1>4 DEF Mailbox
<1>6. e.count = b.count - 1 /\ e.head = IF b.head + 1 < cap THEN b.head + 1 ELSE 0
  BY <1>0, <1>3, <1>4 DEF Mailbox
<1>7. e \in Mailbox(k, cap, Envelopes)
  <2>1. Advance(b, b.head) \in 0..(cap - 1) /\ b.count - 1 \in 0..cap
    BY <1>2, <1>3 DEF Caps
  <2>2. [b.buf EXCEPT ![b.head] = NoMsg] \in [0..(cap - 1) -> Envelopes \cup {NoMsg}]
    BY <1>1
  <2>3. QED
    BY <1>0, <1>4, <2>1, <2>2 DEF Mailbox
<1> HIDE DEF e
<1>8. ASSUME NEW c \in 0..(cap - 1) PROVE (e.buf[c] # NoMsg) <=> Covers(e, c)
  <2>1. Covers(e, c) <=> c # b.head /\ Covers(b, c)
    <3>1. e.cap = cap /\ b.cap = cap
      BY <1>1, <1>5
    <3>2. QED
      BY <1>2, <1>6, <3>1 DEF Covers, Caps
  <2>2. (b.buf[c] # NoMsg) <=> Covers(b, c)
    BY <1>0, <1>1 DEF Shape
  <2>3. e.buf[c] = IF c = b.head THEN NoMsg ELSE b.buf[c]
    BY <1>1, <1>5
  <2>4. QED
    BY <2>1, <2>2, <2>3
<1>9. e.tail = Behind(e)
  <2>1. e.cap = cap /\ b.cap = cap /\ e.tail = Behind(b)
    BY <1>1, <1>5
  <2>2. QED
    BY <1>2, <1>6, <2>1 DEF Behind, Caps
<1>10. b.buf[b.head] \in Envelopes
  <2>1. Covers(b, b.head)
    BY <1>1, <1>2 DEF Covers
  <2>2. QED
    BY <1>0, <1>1, <1>2, <2>1 DEF Shape
<1>11. QED
  BY <1>5, <1>6, <1>7, <1>8, <1>9, <1>10 DEF Sound, Shape, e

\* The single cell of the kinds without a ring.
Filled(b, v, n) == [b EXCEPT !.buf[0] = v, !.count = n]

LEMMA SingleSound ==
  ASSUME NEW Envelopes, NEW k \in Kinds \ RingKinds, NEW b, Sound(b, k, 1, Envelopes),
         NEW v \in Envelopes \cup {NoMsg}, NEW n \in 0..1, (v # NoMsg) <=> n = 1
  PROVE  Sound(Filled(b, v, n), k, 1, Envelopes) /\ Filled(b, v, n).count = n
<1> DEFINE e == Filled(b, v, n)
<1>0. b \in Mailbox(k, 1, Envelopes)
  BY DEF Sound
<1>1. b.kind = k /\ b.cap = 1 /\ b.head = 0 /\ b.tail = 0 /\ b.buf \in [0..0 -> Envelopes \cup {NoMsg}]
  BY <1>0 DEF Mailbox
<1>2. e \in Mailbox(k, 1, Envelopes)
  BY <1>0, <1>1 DEF Mailbox, Filled
<1>3. e.kind = k /\ e.cap = 1 /\ e.head = 0 /\ e.tail = 0 /\ e.count = n /\ e.buf[0] = v
  BY <1>0, <1>1 DEF Mailbox, Filled
<1> HIDE DEF e
<1>4. Shape(e)
  BY <1>3 DEF Shape, Covers
<1>5. QED
  BY <1>2, <1>3, <1>4 DEF Sound, e

LEMMA SingleCell ==
  ASSUME NEW Envelopes, NEW k \in Kinds \ RingKinds, NEW b, Sound(b, k, 1, Envelopes), b.count = 1
  PROVE  b.buf[0] \in Envelopes
<1>1. b.cap = 1 /\ b.head = 0 /\ b.buf \in [0..0 -> Envelopes \cup {NoMsg}]
  BY DEF Sound, Mailbox
<1>2. b.buf[0] # NoMsg
  BY <1>1 DEF Sound, Shape, Covers
<1>3. QED
  BY <1>1, <1>2

\* What every push leaves: a sound mailbox, and a count that the counter it
\* names accounts for.
PushKeeps(b, r, k, cap, Envelopes) ==
    LET evicts == k = "LOSSY_RING" /\ r.evicted # NoMsg
    IN  /\ Sound(r.mb, k, cap, Envelopes)
        /\ r.rc \in {"OK", "FULL", "STATE", "UNSUPPORTED", "CONTRACT"}
        /\ r.counter \in {"posted", "replaced", "coalesced", "rejected"}
        /\ r.counter = "replaced" => k = "MAILBOX_1"
        /\ evicts => r.counter = "posted" /\ r.mb.count = b.count
        /\ ~evicts => r.mb.count = IF r.counter = "posted" THEN b.count + 1 ELSE b.count

LEMMA PushSound ==
  ASSUME NEW Envelopes, NoMsg \notin Envelopes,
         NEW k \in Kinds, NEW cap \in Caps, k \notin RingKinds => cap = 1,
         NEW b, Sound(b, k, cap, Envelopes), NEW m \in Envelopes,
         NEW retainRc \in {"OK", "STATE", "UNSUPPORTED"}, NEW plain \in BOOLEAN
  PROVE  PushKeeps(b, Push(b, m, retainRc, plain), k, cap, Envelopes)
<1> USE DEF Rejected, Stored, PushKeeps
<1>1. b.kind = k /\ b.cap = cap /\ b.count \in 0..cap
  BY DEF Sound, Mailbox
<1>2. ASSUME NEW ans \in {"FULL", "STATE", "UNSUPPORTED", "CONTRACT"}
      PROVE  PushKeeps(b, Rejected(b, ans), k, cap, Envelopes)
  BY <1>1
<1>3. CASE k = "FIFO"
  <2>1. Push(b, m, retainRc, plain) = PushFifo(b, m, retainRc)
    BY <1>1, <1>3 DEF Push
  <2>2. CASE b.count >= cap \/ retainRc # "OK"
    BY <1>1, <1>2, <2>1, <2>2 DEF PushFifo
  <2>3. CASE ~(b.count >= cap) /\ retainRc = "OK"
    <3>1. k \in RingKinds /\ b.count < cap
      BY <1>1, <1>3, <2>3 DEF RingKinds, Caps
    <3>2. Sound(Enqueue(b, m), k, cap, Envelopes) /\ Enqueue(b, m).count = b.count + 1
      BY <3>1, EnqueueSound
    <3>3. QED
      BY <1>1, <1>3, <2>1, <2>3, <3>2 DEF PushFifo
  <2>4. QED
    BY <2>2, <2>3
<1>4. CASE k = "LOSSY_RING"
  <2>1. Push(b, m, retainRc, plain) = PushLossyRing(b, m, retainRc) /\ k \in RingKinds
    BY <1>1, <1>4 DEF Push, RingKinds
  <2>2. CASE retainRc # "OK"
    BY <1>1, <1>2, <2>1, <2>2 DEF PushLossyRing
  <2>3. CASE retainRc = "OK" /\ b.count >= cap
    <3> DEFINE d == DropHead(b)
    <3>1. Sound(d, k, cap, Envelopes) /\ d.count = b.count - 1 /\ b.buf[b.head] \in Envelopes
      BY <1>1, <2>1, <2>3, DropHeadSound DEF Caps
    <3>2. d.count < cap /\ b.buf[b.head] # NoMsg
      BY <1>1, <3>1 DEF Caps
    <3>3. Sound(Enqueue(d, m), k, cap, Envelopes) /\ Enqueue(d, m).count = b.count
      BY <1>1, <2>1, <3>1, <3>2, EnqueueSound DEF Caps
    <3>4. QED
      BY <1>1, <1>4, <2>1, <2>3, <3>2, <3>3 DEF PushLossyRing
  <2>4. CASE retainRc = "OK" /\ ~(b.count >= cap)
    <3>1. Sound(Enqueue(b, m), k, cap, Envelopes) /\ Enqueue(b, m).count = b.count + 1
      BY <1>1, <2>1, <2>4, EnqueueSound DEF Caps
    <3>2. QED
      BY <1>1, <2>1, <2>4, <3>1 DEF PushLossyRing
  <2>5. QED
    BY <2>2, <2>3, <2>4
<1>5. CASE k = "MAILBOX_1"
  <2>1. /\ Push(b, m, retainRc, plain) = PushMailbox1(b, m, retainRc)
        /\ cap = 1 /\ k \in Kinds \ RingKinds
    BY <1>1, <1>5 DEF Push, RingKinds
  <2>2. CASE retainRc # "OK"
    BY <1>1, <1>2, <2>1, <2>2 DEF PushMailbox1
  <2>3. CASE retainRc = "OK"
    <3> DEFINE e == Filled(b, m, 1)
    <3>1. Sound(e, k, cap, Envelopes) /\ e.count = 1
      BY <2>1, SingleSound
    <3>2. Push(b, m, retainRc, plain) = Stored(e, b.buf[0], IF b.count = 0 THEN "posted" ELSE "replaced")
      BY <2>1, <2>3 DEF PushMailbox1, Filled
    <3> HIDE DEF e
    <3>3. QED
      BY <1>1, <1>5, <2>1, <3>1, <3>2
  <2>4. QED
    BY <2>2, <2>3
<1>6. CASE k = "COALESCED_FLAG"
  <2>1. /\ Push(b, m, retainRc, plain) = PushCoalescedFlag(b, m, plain)
        /\ cap = 1 /\ k \in Kinds \ RingKinds
    BY <1>1, <1>6 DEF Push, RingKinds
  <2>2. CASE plain /\ b.count = 0
    <3> DEFINE e == Filled(b, m, 1)
    <3>1. Sound(e, k, cap, Envelopes) /\ e.count = 1
      BY <2>1, SingleSound
    <3>2. Push(b, m, retainRc, plain) = Stored(e, NoMsg, "posted")
      BY <2>1, <2>2 DEF PushCoalescedFlag, Filled
    <3> HIDE DEF e
    <3>3. b.count = 0
      BY <2>2
    <3>4. QED
      BY <1>6, <3>1, <3>2, <3>3
  <2>3. CASE ~(plain /\ b.count = 0)
    BY <1>1, <1>2, <1>6, <2>1, <2>3 DEF PushCoalescedFlag
  <2>4. QED
    BY <2>2, <2>3
<1>7. QED
  BY <1>3, <1>4, <1>5, <1>6 DEF Kinds

LEMMA PopSound ==
  ASSUME NEW Envelopes, NEW k \in Kinds, NEW cap \in Caps, k \notin RingKinds => cap = 1,
         NEW b, Sound(b, k, cap, Envelopes), b.count > 0
  PROVE  Sound(Pop(b), k, cap, Envelopes) /\ Pop(b).count = b.count - 1 /\ Popped(b) \in Envelopes
<1>1. b.kind = k /\ b.cap = cap /\ b.count \in 0..cap
  BY DEF Sound, Mailbox
<1>2. CASE k \in RingKinds
  <2>1. Pop(b) = DropHead(b) /\ Popped(b) = b.buf[b.head]
    BY <1>1, <1>2 DEF Pop, DropHead, Popped, PopCell
  <2>2. QED
    BY <1>2, <2>1, DropHeadSound
<1>3. CASE k \notin RingKinds
  <2>1. cap = 1 /\ k \in Kinds \ RingKinds /\ b.count = 1
    BY <1>1, <1>3
  <2>2. Pop(b) = Filled(b, NoMsg, 0) /\ Popped(b) = b.buf[0]
    BY <1>1, <1>3 DEF Pop, Popped, PopCell, Filled
  <2>3. Sound(Filled(b, NoMsg, 0), k, 1, Envelopes) /\ Filled(b, NoMsg, 0).count = 0
    BY <2>1, SingleSound
  <2>4. QED
    BY <2>1, <2>2, <2>3, SingleCell
<1>4. QED
  BY <1>2, <1>3

-----------------------------------------------------------------------------
(* Which cell an operation touches. *)

\* The cells after v was written to one of them.
Written(buf, c, v) == [buf EXCEPT ![c] = v]

\* A push that answers OK writes one cell and hands back what was in it: a
\* full lossy ring its oldest envelope, a single slot the one it replaces, a
\* free cell nothing.  A repetition that collapses into the flag writes none.
PushTouches(b, r, m, retainRc, cap) ==
    /\ r.rc \in {"OK", "FULL", "CONTRACT", retainRc}
    /\ r.counter = "coalesced" => r.mb = b /\ r.evicted = NoMsg
    /\ r.rc = "OK" /\ r.counter # "coalesced" =>
          \E c \in 0..(cap - 1) :
             r.evicted = b.buf[c] /\ r.mb.buf = Written(b.buf, c, m)

\* The cell behind the last of a ring that is not full is empty.
LEMMA EnqueueTouches ==
  ASSUME NEW Envelopes, NEW k \in RingKinds, NEW cap \in Caps, NEW b, Sound(b, k, cap, Envelopes),
         b.count < cap, NEW m \in Envelopes
  PROVE  /\ b.tail \in 0..(cap - 1) /\ b.buf[b.tail] = NoMsg
         /\ Enqueue(b, m).buf = Written(b.buf, b.tail, m)
<1>1. b \in Mailbox(k, cap, Envelopes) /\ Shape(b)
  BY DEF Sound
<1>2. /\ b.kind = k /\ b.cap = cap /\ b.tail = Behind(b)
      /\ b.head \in 0..(cap - 1) /\ b.tail \in 0..(cap - 1) /\ b.count \in 0..(cap - 1)
  BY <1>1 DEF Mailbox, Shape, Caps
<1>3. ~Covers(b, b.tail)
  BY <1>2 DEF Covers, Behind, Caps
<1>4. Enqueue(b, m).buf = Written(b.buf, b.tail, m)
  BY <1>1 DEF Enqueue, Mailbox, Written
<1>5. QED
  BY <1>1, <1>2, <1>3, <1>4 DEF Shape

LEMMA PushWrites ==
  ASSUME NEW Envelopes, NoMsg \notin Envelopes,
         NEW k \in Kinds, NEW cap \in Caps, k \notin RingKinds => cap = 1,
         NEW b, Sound(b, k, cap, Envelopes), NEW m \in Envelopes,
         NEW retainRc \in {"OK", "STATE", "UNSUPPORTED"}, NEW plain \in BOOLEAN
  PROVE  /\ PushTouches(b, Push(b, m, retainRc, plain), m, retainRc, cap)
         /\ Push(b, m, retainRc, plain).counter = "coalesced" => plain
<1> USE DEF Rejected, Stored, PushTouches
<1>1. /\ b.kind = k /\ b.cap = cap /\ b.count \in 0..cap
      /\ b.buf \in [0..(cap - 1) -> Envelopes \cup {NoMsg}]
  BY DEF Sound, Mailbox
<1>2. CASE k = "FIFO"
  <2>1. Push(b, m, retainRc, plain) = PushFifo(b, m, retainRc) /\ k \in RingKinds
    BY <1>1, <1>2 DEF Push, RingKinds
  <2>2. CASE b.count >= cap \/ retainRc # "OK"
    BY <1>1, <2>1, <2>2 DEF PushFifo
  <2>3. CASE ~(b.count >= cap) /\ retainRc = "OK"
    <3>1. /\ b.tail \in 0..(cap - 1) /\ b.buf[b.tail] = NoMsg
          /\ Enqueue(b, m).buf = Written(b.buf, b.tail, m)
      BY <1>1, <2>1, <2>3, EnqueueTouches DEF Caps
    <3>2. QED
      BY <1>1, <2>1, <2>3, <3>1 DEF PushFifo
  <2>4. QED
    BY <2>2, <2>3
<1>3. CASE k = "LOSSY_RING"
  <2>1. Push(b, m, retainRc, plain) = PushLossyRing(b, m, retainRc) /\ k \in RingKinds
    BY <1>1, <1>3 DEF Push, RingKinds
  <2>2. CASE retainRc # "OK"
    BY <1>1, <2>1, <2>2 DEF PushLossyRing
  <2>3. CASE retainRc = "OK" /\ b.count >= cap
    <3> DEFINE d == DropHead(b)
    <3>1. /\ Sound(d, k, cap, Envelopes) /\ d.count = b.count - 1
      BY <1>1, <2>1, <2>3, DropHeadSound DEF Caps
    <3>2. /\ b.head \in 0..(cap - 1) /\ d.tail = b.tail /\ b.tail = b.head
          /\ d.buf = Written(b.buf, b.head, NoMsg)
      BY <1>1, <2>1, <2>3 DEF DropHead, Sound, Mailbox, Shape, Behind, Caps, Written
    <3>3. Enqueue(d, m).buf = Written(d.buf, d.tail, m)
      BY <1>1, <2>1, <3>1, EnqueueTouches DEF Caps
    <3>4. Enqueue(d, m).buf = Written(b.buf, b.head, m)
      BY <1>1, <3>2, <3>3 DEF Written
    <3>5. QED
      BY <1>1, <2>1, <2>3, <3>2, <3>4 DEF PushLossyRing
  <2>4. CASE retainRc = "OK" /\ ~(b.count >= cap)
    <3>1. /\ b.tail \in 0..(cap - 1) /\ b.buf[b.tail] = NoMsg
          /\ Enqueue(b, m).buf = Written(b.buf, b.tail, m)
      BY <1>1, <2>1, <2>4, EnqueueTouches DEF Caps
    <3>2. QED
      BY <1>1, <2>1, <2>4, <3>1 DEF PushLossyRing
  <2>5. QED
    BY <2>2, <2>3, <2>4
<1>4. CASE k = "MAILBOX_1"
  <2>1. Push(b, m, retainRc, plain) = PushMailbox1(b, m, retainRc) /\ cap = 1
    BY <1>1, <1>4 DEF Push, RingKinds
  <2>2. [b EXCEPT !.buf[0] = m, !.count = 1].buf = Written(b.buf, 0, m)
    BY DEF Sound, Mailbox, Written
  <2>3. QED
    BY <1>1, <2>1, <2>2 DEF PushMailbox1
<1>5. CASE k = "COALESCED_FLAG"
  <2>1. /\ Push(b, m, retainRc, plain) = PushCoalescedFlag(b, m, plain)
        /\ cap = 1 /\ k \in Kinds \ RingKinds
    BY <1>1, <1>5 DEF Push, RingKinds
  <2>2. [b EXCEPT !.buf[0] = m, !.count = 1].buf = Written(b.buf, 0, m)
    BY DEF Sound, Mailbox, Written
  <2>3. b.count = 0 => b.buf[0] = NoMsg
    BY <2>1, <1>1 DEF Sound, Mailbox, Shape, Covers
  <2>4. QED
    BY <1>1, <2>1, <2>2, <2>3 DEF PushCoalescedFlag
<1>6. QED
  BY <1>2, <1>3, <1>4, <1>5 DEF Kinds

\* A pop empties the cell it answers, and no other.
LEMMA PopEmpties ==
  ASSUME NEW Envelopes, NEW k \in Kinds, NEW cap \in Caps, k \notin RingKinds => cap = 1,
         NEW b, Sound(b, k, cap, Envelopes), b.count > 0
  PROVE  /\ PopCell(b) \in 0..(cap - 1)
         /\ Pop(b).buf = Written(b.buf, PopCell(b), NoMsg)
  BY DEF Sound, Mailbox, Pop, PopCell, Caps, Written

-----------------------------------------------------------------------------
(* The mailbox of the specification. *)

\* RingShape is the Shape of the present mailbox.
LEMMA ShapeIsRingShape ==
  ASSUME NEW k \in Kinds, NEW cap \in Caps, mb \in Mailbox(k, cap, Msg)
  PROVE  RingShape <=> Shape(mb)
<1>1. /\ mb.cap = cap /\ mb.head \in 0..(cap - 1) /\ mb.count \in 0..cap
  BY DEF Mailbox
<1>2. \A c \in 0..(cap - 1) :
         (\E i \in 0..(mb.count - 1) : c = CellAt(i)) <=> Covers(mb, c)
  BY <1>1, Covered DEF Covers, CellAt
<1>3. CellAt(mb.count) = Behind(mb)
  BY <1>1, Residue DEF CellAt, Behind
<1>4. QED
  BY <1>1, <1>2, <1>3 DEF RingShape, Shape

-----------------------------------------------------------------------------
(* The invariants. *)

\* The inductive invariant, and the same in terms of the lemmas.
MailboxInv == TypeOK /\ RingShape /\ Accounting

LEMMA CapacityFacts ==
  ASSUME NEW k \in Kinds
  PROVE  Capacity[k] \in Caps /\ (k \notin RingKinds => Capacity[k] = 1)
  BY MailboxAssumption DEF Capacity, Caps

SoundInv ==
    /\ \E k \in Kinds : Sound(mb, k, Capacity[k], Msg)
    /\ stats \in [n : [Counters -> Nat], high : 0..mb.cap]
    /\ answer \in {"OK", "FULL", "STATE", "UNSUPPORTED", "CONTRACT", "EMPTY"}
    /\ taken \in Msg \cup {NoMsg}
    /\ Accounting

LEMMA InvIsSound == MailboxInv <=> SoundInv
<1>1. ASSUME NEW k \in Kinds, mb \in Mailbox(k, Capacity[k], Msg)
      PROVE  RingShape <=> Shape(mb)
  BY <1>1, CapacityFacts, ShapeIsRingShape
<1>2. QED
  BY <1>1 DEF MailboxInv, SoundInv, TypeOK, Sound

LEMMA MailboxInvInit == Init => SoundInv
<1> SUFFICES ASSUME Init PROVE SoundInv
  OBVIOUS
<1>1. PICK k \in Kinds : mb = EmptyMailbox(k, Capacity[k])
  BY DEF Init
<1>2. Sound(mb, k, Capacity[k], Msg) /\ mb.cap = Capacity[k] /\ mb.count = 0
  BY <1>1, CapacityFacts, EmptySound DEF EmptyMailbox
<1>3. stats = [n |-> ZeroStats, high |-> 0] /\ answer = "OK" /\ taken = NoMsg
  BY DEF Init
<1>4. Accounting
  BY <1>2, <1>3 DEF Accounting, ZeroStats, Counters
<1>5. stats \in [n : [Counters -> Nat], high : 0..mb.cap]
  BY <1>2, <1>3, CapacityFacts DEF ZeroStats, Caps
<1>6. QED
  BY <1>2, <1>3, <1>4, <1>5 DEF SoundInv

\* What Accounting says of the counters alone.
Balanced(n, count, k) ==
    /\ n["posted"] = n["popped"] + n["dropped"] + count
    /\ n["dropped"] > 0 => k = "LOSSY_RING"
    /\ n["replaced"] > 0 => k = "MAILBOX_1"

LEMMA InvPush ==
  ASSUME SoundInv, NEW m \in Msg, PushMsg(m)
  PROVE  SoundInv'
<1>1. PICK k \in Kinds : Sound(mb, k, Capacity[k], Msg)
  BY DEF SoundInv
<1> DEFINE cap == Capacity[k]
<1>2. PICK retainRc \in RetainAnswers(m) :
         LET r == Push(mb, m, retainRc, m.payload = "none")
         IN  /\ mb' = r.mb
             /\ stats' = [n |-> CountersAfter(r), high |-> HighAfter(stats.high, r.mb.count)]
             /\ answer' = r.rc
             /\ UNCHANGED taken
  BY DEF PushMsg
<1> DEFINE r == Push(mb, m, retainRc, m.payload = "none")
<1>3. PushKeeps(mb, r, k, cap, Msg)
  <2>1. retainRc \in {"OK", "STATE", "UNSUPPORTED"} /\ (m.payload = "none") \in BOOLEAN
    BY <1>2 DEF RetainAnswers
  <2>2. QED
    BY <1>1, <2>1, CapacityFacts, PushSound, MailboxAssumption
<1>4. mb.kind = k /\ mb.cap = cap /\ mb.count \in 0..cap /\ cap \in Caps
  BY <1>1, CapacityFacts DEF Sound, Mailbox
<1>5. /\ Sound(mb', k, cap, Msg) /\ mb'.kind = k /\ mb'.cap = cap /\ mb'.count \in 0..cap
  BY <1>2, <1>3 DEF PushKeeps, Sound, Mailbox
<1>6. /\ stats.n \in [Counters -> Nat] /\ stats.high \in 0..cap
      /\ stats' = [n |-> CountersAfter(r), high |-> HighAfter(stats.high, mb'.count)]
  BY <1>2, <1>4 DEF SoundInv
<1>8. Balanced(stats.n, mb.count, k)
  BY <1>4 DEF SoundInv, Accounting, Balanced
<1>9. ASSUME k = "LOSSY_RING", r.evicted # NoMsg
      PROVE  stats'.n \in [Counters -> Nat] /\ Balanced(stats'.n, mb'.count, k)
  <2>1. r.counter = "posted" /\ mb'.count = mb.count
    BY <1>2, <1>3, <1>9 DEF PushKeeps
  <2>2. stats'.n = Bump(Bump(stats.n, "dropped"), "posted")
    BY <1>4, <1>6, <1>9, <2>1 DEF CountersAfter
  <2>3. QED
    BY <1>4, <1>6, <1>8, <1>9, <2>1, <2>2 DEF Bump, Balanced, Counters
<1>10. ASSUME ~(k = "LOSSY_RING" /\ r.evicted # NoMsg)
       PROVE  stats'.n \in [Counters -> Nat] /\ Balanced(stats'.n, mb'.count, k)
  <2>1. /\ mb'.count = IF r.counter = "posted" THEN mb.count + 1 ELSE mb.count
        /\ r.counter \in {"posted", "replaced", "coalesced", "rejected"}
        /\ r.counter = "replaced" => k = "MAILBOX_1"
    BY <1>2, <1>3, <1>10 DEF PushKeeps
  <2>2. stats'.n = Bump(stats.n, r.counter)
    BY <1>4, <1>6, <1>10 DEF CountersAfter
  <2> HIDE DEF r
  <2>3. QED
    BY <1>4, <1>6, <1>8, <2>1, <2>2 DEF Bump, Balanced, Counters
<1>11. stats'.high \in 0..cap /\ mb'.count <= stats'.high
  BY <1>4, <1>5, <1>6 DEF HighAfter
<1>12. answer' \in {"OK", "FULL", "STATE", "UNSUPPORTED", "CONTRACT", "EMPTY"} /\ taken' = taken
  BY <1>2, <1>3 DEF PushKeeps
<1>13. QED
  <2>1. stats'.n \in [Counters -> Nat] /\ Balanced(stats'.n, mb'.count, k)
    BY <1>9, <1>10
  <2>2. stats' = [n |-> stats'.n, high |-> stats'.high]
    BY <1>6
  <2>3. Accounting'
    BY <1>5, <1>11, <2>1 DEF Accounting, Balanced
  <2>4. QED
    BY <1>5, <1>11, <1>12, <2>1, <2>2, <2>3 DEF SoundInv
LEMMA MailboxInvPop ==
  ASSUME SoundInv, PopMsg
  PROVE  SoundInv'
<1>1. PICK k \in Kinds : Sound(mb, k, Capacity[k], Msg)
  BY DEF SoundInv
<1> DEFINE cap == Capacity[k]
<1>2. mb.kind = k /\ mb.cap = cap /\ mb.count \in 0..cap /\ mb.count > 0 /\ cap \in Caps
  BY <1>1, CapacityFacts DEF Sound, Mailbox, PopMsg
<1>3. Sound(mb', k, cap, Msg) /\ mb'.count = mb.count - 1 /\ taken' \in Msg
  BY <1>1, <1>2, CapacityFacts, PopSound DEF PopMsg
<1>4. mb'.kind = k /\ mb'.cap = cap
  BY <1>3 DEF Sound, Mailbox
<1>5. stats.n \in [Counters -> Nat] /\ stats.high \in 0..cap /\ mb.count <= stats.high
  BY <1>2 DEF SoundInv, Accounting
<1>6. stats'.n = Bump(stats.n, "popped") /\ stats'.high = stats.high
      /\ stats' = [n |-> stats'.n, high |-> stats'.high]
  BY DEF PopMsg, SoundInv
<1>7. stats'.n \in [Counters -> Nat] /\ Balanced(stats'.n, mb'.count, k)
  <2>1. Balanced(stats.n, mb.count, k)
    BY <1>2 DEF SoundInv, Accounting, Balanced
  <2>2. QED
    BY <1>2, <1>3, <1>5, <1>6, <2>1 DEF Bump, Balanced, Counters
<1>8. Accounting'
  BY <1>2, <1>3, <1>4, <1>5, <1>6, <1>7 DEF Accounting, Balanced
<1>9. QED
  BY <1>3, <1>4, <1>5, <1>6, <1>7, <1>8 DEF SoundInv, PopMsg

LEMMA InvReset ==
  ASSUME SoundInv, Reset
  PROVE  SoundInv'
<1>1. PICK k \in Kinds : Sound(mb, k, Capacity[k], Msg)
  BY DEF SoundInv
<1>2. mb' = EmptyMailbox(k, Capacity[k])
  BY <1>1 DEF Reset, Sound, Mailbox
<1>3. Sound(mb', k, Capacity[k], Msg) /\ mb'.cap = Capacity[k] /\ mb'.count = 0
  BY <1>2, CapacityFacts, EmptySound DEF EmptyMailbox
<1>4. stats' = [n |-> ZeroStats, high |-> 0] /\ answer' = "OK" /\ taken' = taken
  BY DEF Reset
<1>5. Accounting'
  BY <1>3, <1>4 DEF Accounting, ZeroStats, Counters
<1>6. stats' \in [n : [Counters -> Nat], high : 0..mb'.cap]
  BY <1>3, <1>4, CapacityFacts DEF ZeroStats, Caps
<1>7. QED
  BY <1>3, <1>4, <1>5, <1>6 DEF SoundInv

LEMMA MailboxInvNext == SoundInv /\ [Next]_vars => SoundInv'
<1> SUFFICES ASSUME SoundInv, [Next]_vars PROVE SoundInv'
  OBVIOUS
<1>1. CASE \E m \in Msg : PushMsg(m)
  BY <1>1, InvPush
<1>2. CASE PushInvalid
  <2>1. stats.n \in [Counters -> Nat]
    BY DEF SoundInv
  <2>2. /\ stats' = [n |-> Bump(stats.n, "rejected"), high |-> stats.high]
        /\ answer' = "STATE" /\ UNCHANGED <<mb, taken>>
    BY <1>2 DEF PushInvalid, SoundInv
  <2>3. /\ stats'.n \in [Counters -> Nat] /\ stats'.high = stats.high
        /\ \A c \in Counters \ {"rejected"} : stats'.n[c] = stats.n[c]
    BY <2>1, <2>2 DEF Bump, Counters
  <2>4. Accounting'
    BY <2>2, <2>3 DEF SoundInv, Accounting, Counters
  <2>5. QED
    BY <2>2, <2>3, <2>4 DEF SoundInv
<1>3. CASE PopMsg
  BY <1>3, MailboxInvPop
<1>4. CASE PopEmpty
  BY <1>4 DEF PopEmpty, SoundInv, Accounting
<1>5. CASE Reset
  BY <1>5, InvReset
<1>6. CASE UNCHANGED vars
  BY <1>6 DEF vars, SoundInv, Accounting
<1>7. QED
  BY <1>1, <1>2, <1>3, <1>4, <1>5, <1>6 DEF Next

\* The invariant holds in every reachable state, for every capacity.
THEOREM InvAlways == Spec => []MailboxInv
<1>1. SoundInv /\ [][Next]_vars => []SoundInv
  BY MailboxInvNext, PTL
<1>2. QED
  BY <1>1, MailboxInvInit, InvIsSound, PTL DEF Spec

\* The mailbox keeps its type, its count stays within its capacity and its
\* indices within its cells (ev_mailbox_push, ev_mailbox_pop, ev_mailbox_reset).
THEOREM TypeAlways == Spec => []TypeOK
<1>1. MailboxInv => TypeOK
  BY DEF MailboxInv
<1>2. QED
  BY <1>1, InvAlways, PTL

\* The occupied cells are always those from head on: no push or eviction ever
\* overwrites a pending envelope in place or leaves one behind.
THEOREM RingShapeAlways == Spec => []RingShape
<1>1. MailboxInv => RingShape
  BY DEF MailboxInv
<1>2. QED
  BY <1>1, InvAlways, PTL

\* Posted envelopes are popped, dropped or pending, whatever the operations.
THEOREM AccountingAlways == Spec => []Accounting
<1>1. MailboxInv => Accounting
  BY DEF MailboxInv
<1>2. QED
  BY <1>1, InvAlways, PTL

-----------------------------------------------------------------------------
(* The refinement of MailboxContract. *)
\* The i-th cell from head on, as in Covers without the remainder.
Place(b, i) == IF b.head + i < b.cap THEN b.head + i ELSE b.head + i - b.cap

\* The queue that a mailbox stands for.
QueueOf(b) == [i \in 1..b.count |-> b.buf[Place(b, i - 1)]]

QueueCells == Msg \cup {NoMsg}

LEMMA SoundFacts ==
  ASSUME NEW k \in Kinds, NEW cap \in Caps, NEW b, Sound(b, k, cap, Msg)
  PROVE  /\ b.kind = k /\ b.cap = cap /\ b.buf \in [0..(cap - 1) -> QueueCells]
         /\ b.head \in 0..(cap - 1) /\ b.tail \in 0..(cap - 1) /\ b.count \in 0..cap
         /\ b.tail = IF k \in RingKinds THEN Behind(b) ELSE 0
  BY DEF Sound, Mailbox, Shape, QueueCells

LEMMA QueueFacts ==
  ASSUME NEW k \in Kinds, NEW cap \in Caps, NEW b, Sound(b, k, cap, Msg)
  PROVE  /\ QueueOf(b) \in Seq(QueueCells) /\ Len(QueueOf(b)) = b.count
         /\ \A i \in 1..b.count : QueueOf(b)[i] = b.buf[Place(b, i - 1)]
<1>1. /\ b.cap = cap /\ b.buf \in [0..(cap - 1) -> QueueCells]
      /\ b.head \in 0..(cap - 1) /\ b.count \in 0..cap
  BY SoundFacts
<1>2. \A i \in 1..b.count : Place(b, i - 1) \in 0..(cap - 1)
  BY <1>1 DEF Place, Caps
<1>3. \A i \in 1..b.count : b.buf[Place(b, i - 1)] \in QueueCells
  BY <1>1, <1>2
<1>4. b.count \in Nat
  BY <1>1 DEF Caps
<1>5. QED
  BY <1>3, <1>4 DEF QueueOf

LEMMA EmptyQueue ==
  ASSUME NEW b, b.count = 0
  PROVE  QueueOf(b) = << >>
  BY DEF QueueOf

\* Sequences with equal lengths and equal elements are equal.
LEMMA SameQueue ==
  ASSUME NEW s \in Seq(QueueCells), NEW t \in Seq(QueueCells), Len(s) = Len(t),
         \A i \in 1..Len(s) : s[i] = t[i]
  PROVE  s = t
  BY SeqEqual

\* No occupied place is the one behind them.
LEMMA PlaceApart ==
  ASSUME NEW cap \in Caps, NEW h \in 0..(cap - 1), NEW c \in 0..cap, c < cap, NEW j \in 0..(c - 1)
  PROVE  (IF h + j < cap THEN h + j ELSE h + j - cap) # (IF h + c < cap THEN h + c ELSE h + c - cap)
  BY DEF Caps

\* Storing at the tail appends to the queue.
LEMMA EnqueueAppends ==
  ASSUME NEW k \in RingKinds, NEW cap \in Caps, NEW b, Sound(b, k, cap, Msg),
         b.count < cap, NEW m \in Msg
  PROVE  QueueOf(Enqueue(b, m)) = Append(QueueOf(b), m)
<1> DEFINE e == Enqueue(b, m)
<1>0. k \in Kinds
  BY DEF Kinds, RingKinds
<1>1. Sound(e, k, cap, Msg) /\ e.count = b.count + 1
  BY EnqueueSound, MailboxAssumption
<1>2. /\ b.cap = cap /\ b.buf \in [0..(cap - 1) -> QueueCells]
      /\ b.head \in 0..(cap - 1) /\ b.tail \in 0..(cap - 1) /\ b.count \in 0..cap
      /\ b.tail = Behind(b)
  BY <1>0, SoundFacts
<1>3. e.buf = [b.buf EXCEPT ![b.tail] = m] /\ e.head = b.head /\ e.cap = cap
  BY <1>2 DEF Enqueue, Sound, Mailbox
<1> HIDE DEF e
<1>4. /\ QueueOf(b) \in Seq(QueueCells) /\ Len(QueueOf(b)) = b.count
      /\ \A i \in 1..b.count : QueueOf(b)[i] = b.buf[Place(b, i - 1)]
      /\ QueueOf(e) \in Seq(QueueCells) /\ Len(QueueOf(e)) = b.count + 1
      /\ \A i \in 1..(b.count + 1) : QueueOf(e)[i] = e.buf[Place(e, i - 1)]
  BY <1>0, <1>1, QueueFacts
<1>5. m \in QueueCells
  BY DEF QueueCells
<1>6. /\ Append(QueueOf(b), m) \in Seq(QueueCells)
      /\ Len(Append(QueueOf(b), m)) = b.count + 1
      /\ \A i \in 1..b.count : Append(QueueOf(b), m)[i] = QueueOf(b)[i]
      /\ Append(QueueOf(b), m)[b.count + 1] = m
  BY <1>4, <1>5, AppendProperties
<1>7. ASSUME NEW i \in 1..(b.count + 1)
      PROVE  QueueOf(e)[i] = Append(QueueOf(b), m)[i]
  <2>1. Place(e, i - 1) = Place(b, i - 1) /\ Place(b, i - 1) \in 0..(cap - 1)
    BY <1>2, <1>3 DEF Place, Caps
  <2>2. QueueOf(e)[i] = e.buf[Place(b, i - 1)]
    BY <1>4, <2>1
  <2>3. CASE i = b.count + 1
    <3>1. Place(b, i - 1) = b.tail
      BY <1>2, <2>3 DEF Place, Behind, Caps
    <3>2. QED
      BY <1>2, <1>3, <1>6, <2>2, <2>3, <3>1
  <2>4. CASE i # b.count + 1
    <3>1. i \in 1..b.count
      BY <1>2, <2>4 DEF Caps
    <3>2. i - 1 \in 0..(b.count - 1)
      BY <1>2, <3>1 DEF Caps
    <3>3. Place(b, i - 1) # b.tail
      BY <1>2, <3>2, PlaceApart DEF Place, Behind
    <3>4. e.buf[Place(b, i - 1)] = b.buf[Place(b, i - 1)]
      BY <1>2, <1>3, <2>1, <3>3
    <3>5. QED
      BY <1>4, <1>6, <2>2, <3>1, <3>4
  <2>5. QED
    BY <2>3, <2>4
<1>8. QueueOf(e) = Append(QueueOf(b), m)
  BY <1>4, <1>6, <1>7, SameQueue
<1>9. QED
  BY <1>8 DEF e

\* Taking the head cell takes the head of the queue.
LEMMA DropHeadTails ==
  ASSUME NEW k \in RingKinds, NEW cap \in Caps, NEW b, Sound(b, k, cap, Msg), b.count > 0
  PROVE  /\ QueueOf(b) # << >> /\ Head(QueueOf(b)) = b.buf[b.head]
         /\ QueueOf(DropHead(b)) = Tail(QueueOf(b))
<1> DEFINE e == DropHead(b)
<1>0. k \in Kinds
  BY DEF Kinds, RingKinds
<1>1. Sound(e, k, cap, Msg) /\ e.count = b.count - 1
  BY DropHeadSound
<1>2. /\ b.cap = cap /\ b.buf \in [0..(cap - 1) -> QueueCells]
      /\ b.head \in 0..(cap - 1) /\ b.count \in 1..cap
  <2>1. b.cap = cap /\ b.buf \in [0..(cap - 1) -> QueueCells] /\ b.head \in 0..(cap - 1)
    BY <1>0, SoundFacts
  <2>2. b.count \in 0..cap
    BY <1>0, SoundFacts
  <2>3. QED
    BY <2>1, <2>2 DEF Caps
<1>3. /\ e.buf = [b.buf EXCEPT ![b.head] = NoMsg] /\ e.cap = cap
      /\ e.head = Advance(b, b.head)
  BY <1>2 DEF DropHead, Sound, Mailbox
<1>4. e.head = IF b.head + 1 < cap THEN b.head + 1 ELSE 0
  BY <1>2, <1>3, AdvanceFacts
<1> HIDE DEF e
<1>5. /\ QueueOf(b) \in Seq(QueueCells) /\ Len(QueueOf(b)) = b.count
      /\ \A i \in 1..b.count : QueueOf(b)[i] = b.buf[Place(b, i - 1)]
      /\ QueueOf(e) \in Seq(QueueCells) /\ Len(QueueOf(e)) = b.count - 1
      /\ \A i \in 1..(b.count - 1) : QueueOf(e)[i] = e.buf[Place(e, i - 1)]
  BY <1>0, <1>1, QueueFacts
<1>6. QueueOf(b) # << >> /\ Head(QueueOf(b)) = b.buf[b.head]
  <2>1. Place(b, 1 - 1) = b.head /\ 1 \in 1..b.count
    BY <1>2 DEF Place, Caps
  <2>2. QueueOf(b)[1] = b.buf[b.head]
    BY <1>5, <2>1
  <2>3. QueueOf(b) # << >>
    BY <1>2, <1>5, EmptySeq
  <2>4. QED
    BY <2>2, <2>3
<1>7. /\ Tail(QueueOf(b)) \in Seq(QueueCells) /\ Len(Tail(QueueOf(b))) = b.count - 1
      /\ \A i \in 1..(b.count - 1) : Tail(QueueOf(b))[i] = QueueOf(b)[i + 1]
  BY <1>5, <1>6, HeadTailProperties
<1>8. ASSUME NEW i \in 1..(b.count - 1)
      PROVE  QueueOf(e)[i] = Tail(QueueOf(b))[i]
  <2>1. /\ Place(e, i - 1) = Place(b, i) /\ Place(b, i) \in 0..(cap - 1)
        /\ Place(b, i) # b.head
    <3>1. e.cap = cap /\ b.cap = cap /\ b.count \in 1..cap /\ b.head \in 0..(cap - 1)
      BY <1>2, <1>3
    <3>2. QED
      BY <1>4, <3>1 DEF Place, Caps
  <2>2. e.buf[Place(b, i)] = b.buf[Place(b, i)]
    BY <1>2, <1>3, <2>1
  <2>3. i + 1 \in 1..b.count /\ (i + 1) - 1 = i
    BY <1>2 DEF Caps
  <2>4. QueueOf(b)[i + 1] = b.buf[Place(b, i)]
    BY <1>5, <2>3
  <2>5. QED
    BY <1>5, <1>7, <2>1, <2>2, <2>4
<1>9. QueueOf(e) = Tail(QueueOf(b))
  BY <1>5, <1>7, <1>8, SameQueue
<1>10. QED
  BY <1>6, <1>9 DEF e

\* A single cell is a queue of one.
LEMMA SingleQueue ==
  ASSUME NEW k \in Kinds \ RingKinds, NEW b, Sound(b, k, 1, Msg), b.count = 1
  PROVE  QueueOf(b) = <<b.buf[0]>>
<1>1. b.cap = 1 /\ b.head = 0
  BY DEF Sound, Mailbox
<1>2. Place(b, 1 - 1) = 0
  BY <1>1 DEF Place
<1>3. QED
  BY <1>2 DEF QueueOf

-----------------------------------------------------------------------------
(* The pushes. *)

\* The contract's answers to a push, of the queue before and after it.
PushPromise(k, cap, q, p, ans, m) ==
    \/ ans = "OK" /\ Len(q) < cap /\ (k = "COALESCED_FLAG" => q = << >>) /\ p = Append(q, m)
    \/ ans = "OK" /\ k = "LOSSY_RING" /\ Len(q) = cap /\ p = Append(Tail(q), m)
    \/ ans = "OK" /\ k = "MAILBOX_1" /\ q # << >> /\ p = <<m>>
    \/ ans = "OK" /\ k = "COALESCED_FLAG" /\ q # << >> /\ Head(q).event = m.event /\ p = q
    \/ ans = "FULL" /\ k = "FIFO" /\ Len(q) = cap /\ p = q
    \/ ans \in {"STATE", "UNSUPPORTED", "CONTRACT"} /\ p = q

LEMMA PushPromises ==
  ASSUME NEW k \in Kinds, NEW cap \in Caps, k \notin RingKinds => cap = 1,
         NEW b, Sound(b, k, cap, Msg), NEW m \in Msg,
         NEW retainRc \in {"OK", "STATE", "UNSUPPORTED"}, NEW plain \in BOOLEAN,
         NEW r, r = Push(b, m, retainRc, plain)
  PROVE  PushPromise(k, cap, QueueOf(b), QueueOf(r.mb), r.rc, m)
<1> USE DEF Rejected, Stored
<1>1. b.kind = k /\ b.cap = cap /\ b.count \in 0..cap
  BY SoundFacts
<1>2. Len(QueueOf(b)) = b.count
  BY QueueFacts
<1>3. ASSUME NEW ans \in {"STATE", "UNSUPPORTED", "CONTRACT"}, r = Rejected(b, ans)
      PROVE  PushPromise(k, cap, QueueOf(b), QueueOf(r.mb), r.rc, m)
  BY <1>3 DEF PushPromise
<1>4. CASE k = "FIFO"
  <2>1. r = PushFifo(b, m, retainRc)
    BY <1>1, <1>4 DEF Push
  <2>2. CASE b.count >= cap
    <3>1. r = Rejected(b, "FULL")
      BY <1>1, <2>1, <2>2 DEF PushFifo
    <3>2. Len(QueueOf(b)) = cap
      BY <1>1, <1>2, <2>2 DEF Caps
    <3>3. QED
      BY <1>4, <3>1, <3>2 DEF PushPromise
  <2>3. CASE ~(b.count >= cap) /\ retainRc # "OK"
    BY <1>1, <1>3, <2>1, <2>3 DEF PushFifo
  <2>4. CASE ~(b.count >= cap) /\ retainRc = "OK"
    <3>1. b.count < cap /\ k \in RingKinds
      BY <1>1, <1>4, <2>4 DEF Caps, RingKinds
    <3>2. r = Stored(Enqueue(b, m), NoMsg, "posted")
      BY <1>1, <2>1, <2>4 DEF PushFifo
    <3>3. QueueOf(Enqueue(b, m)) = Append(QueueOf(b), m)
      BY <3>1, EnqueueAppends
    <3>4. r.mb = Enqueue(b, m) /\ r.rc = "OK"
      BY <3>2
    <3>5. QED
      BY <1>2, <1>4, <3>1, <3>3, <3>4 DEF PushPromise
  <2>5. QED
    BY <2>2, <2>3, <2>4
<1>5. CASE k = "LOSSY_RING"
  <2>1. r = PushLossyRing(b, m, retainRc) /\ k \in RingKinds
    BY <1>1, <1>5 DEF Push, RingKinds
  <2>2. CASE retainRc # "OK"
    BY <1>3, <2>1, <2>2 DEF PushLossyRing
  <2>3. CASE retainRc = "OK" /\ b.count >= cap
    <3> DEFINE d == DropHead(b)
    <3>1. b.count > 0 /\ b.count = cap
      BY <1>1, <2>3 DEF Caps
    <3>2. Sound(d, k, cap, Msg) /\ d.count = b.count - 1
      BY <2>1, <3>1, DropHeadSound
    <3>3. d.count < cap
      BY <1>1, <3>1, <3>2 DEF Caps
    <3>4. QueueOf(d) = Tail(QueueOf(b))
      BY <2>1, <3>1, DropHeadTails
    <3>5. r = Stored(Enqueue(d, m), b.buf[b.head], "posted")
      BY <1>1, <2>1, <2>3 DEF PushLossyRing
    <3> HIDE DEF d
    <3>6. QueueOf(Enqueue(d, m)) = Append(Tail(QueueOf(b)), m)
      BY <2>1, <3>2, <3>3, <3>4, EnqueueAppends
    <3>7. r.mb = Enqueue(d, m) /\ r.rc = "OK"
      BY <3>5
    <3>8. QED
      BY <1>2, <1>5, <3>1, <3>6, <3>7 DEF PushPromise
  <2>4. CASE retainRc = "OK" /\ ~(b.count >= cap)
    <3>1. b.count < cap
      BY <1>1, <2>4 DEF Caps
    <3>2. r = Stored(Enqueue(b, m), NoMsg, "posted")
      BY <1>1, <2>1, <2>4 DEF PushLossyRing
    <3>3. QueueOf(Enqueue(b, m)) = Append(QueueOf(b), m)
      BY <2>1, <3>1, EnqueueAppends
    <3>4. r.mb = Enqueue(b, m) /\ r.rc = "OK"
      BY <3>2
    <3>5. QED
      BY <1>2, <1>5, <3>1, <3>3, <3>4 DEF PushPromise
  <2>5. QED
    BY <2>2, <2>3, <2>4
<1>6. ASSUME k \notin RingKinds, NEW e, e = Filled(b, m, 1)
      PROVE  QueueOf(e) = <<m>>
  <2>1. cap = 1 /\ k \in Kinds \ RingKinds
    BY <1>6
  <2>2. Sound(e, k, 1, Msg) /\ e.count = 1
    BY <1>6, <2>1, SingleSound, MailboxAssumption
  <2>3. e.buf[0] = m
    BY <1>6, <2>1 DEF Filled, Sound, Mailbox
  <2>4. QED
    BY <2>1, <2>2, <2>3, SingleQueue
<1>7. ASSUME b.count = 0 PROVE Append(QueueOf(b), m) = <<m>> /\ QueueOf(b) = << >>
  <2>1. QueueOf(b) = << >>
    BY <1>7, EmptyQueue
  <2>2. Append(<< >>, m) = <<m>>
    OBVIOUS
  <2>3. QED
    BY <2>1, <2>2
<1>8. ASSUME b.count # 0 PROVE QueueOf(b) # << >>
  BY <1>2, <1>8
<1>9. CASE k = "MAILBOX_1"
  <2>1. r = PushMailbox1(b, m, retainRc) /\ k \notin RingKinds
    BY <1>1, <1>9 DEF Push, RingKinds
  <2>2. CASE retainRc # "OK"
    BY <1>3, <2>1, <2>2 DEF PushMailbox1
  <2>3. CASE retainRc = "OK"
    <3>1. r = Stored(Filled(b, m, 1), b.buf[0], IF b.count = 0 THEN "posted" ELSE "replaced")
      BY <2>1, <2>3 DEF PushMailbox1, Filled
    <3>2. r.mb = Filled(b, m, 1) /\ r.rc = "OK"
      BY <3>1
    <3>3. QueueOf(r.mb) = <<m>>
      BY <1>6, <2>1, <3>2
    <3>4. b.count = 0 => Len(QueueOf(b)) < cap
      BY <1>1, <1>2 DEF Caps
    <3>5. QED
      BY <1>7, <1>8, <1>9, <3>2, <3>3, <3>4 DEF PushPromise
  <2>4. QED
    BY <2>2, <2>3
<1>10. CASE k = "COALESCED_FLAG"
  <2>1. r = PushCoalescedFlag(b, m, plain) /\ k \notin RingKinds
    BY <1>1, <1>10 DEF Push, RingKinds
  <2>2. CASE ~plain
    BY <1>3, <2>1, <2>2 DEF PushCoalescedFlag
  <2>3. CASE plain /\ b.count = 0
    <3>1. r = Stored(Filled(b, m, 1), NoMsg, "posted")
      BY <2>1, <2>3 DEF PushCoalescedFlag, Filled
    <3>2. r.mb = Filled(b, m, 1) /\ r.rc = "OK"
      BY <3>1
    <3>3. QueueOf(r.mb) = <<m>>
      BY <1>6, <2>1, <3>2
    <3>4. Len(QueueOf(b)) < cap
      BY <1>1, <1>2, <2>3 DEF Caps
    <3>5. QED
      BY <1>7, <1>10, <2>3, <3>2, <3>3, <3>4 DEF PushPromise
  <2>4. CASE plain /\ b.count # 0
    <3>1. k \in Kinds \ RingKinds /\ Sound(b, k, 1, Msg) /\ b.count = 1
      BY <1>1, <2>1, <2>4
    <3>2. QueueOf(b) = <<b.buf[0]>>
      BY <3>1, SingleQueue
    <3>3. CASE b.buf[0].event # m.event
      BY <1>3, <2>1, <2>4, <3>3 DEF PushCoalescedFlag
    <3>4. CASE b.buf[0].event = m.event
      <4>1. r.mb = b /\ r.rc = "OK"
        BY <2>1, <2>4, <3>4 DEF PushCoalescedFlag
      <4>2. Head(QueueOf(b)).event = m.event
        BY <3>2, <3>4
      <4>3. QED
        BY <1>8, <1>10, <2>4, <4>1, <4>2 DEF PushPromise
    <3>5. QED
      BY <3>3, <3>4
  <2>5. QED
    BY <2>2, <2>3, <2>4
<1>11. QED
  BY <1>4, <1>5, <1>9, <1>10 DEF Kinds

-----------------------------------------------------------------------------
(* The refinement. *)
LEMMA PendingIsQueue == SoundInv => Pending = QueueOf(mb)
<1> SUFFICES ASSUME SoundInv PROVE Pending = QueueOf(mb)
  OBVIOUS
<1>1. PICK k \in Kinds : Sound(mb, k, Capacity[k], Msg)
  BY DEF SoundInv
<1>2. Capacity[k] \in Caps
  BY CapacityFacts
<1>3. mb.cap = Capacity[k] /\ mb.head \in 0..(mb.cap - 1) /\ mb.count \in 0..mb.cap
  BY <1>1, <1>2, SoundFacts
<1>4. ASSUME NEW i \in 1..mb.count PROVE CellAt(i - 1) = Place(mb, i - 1)
  <2>1. i - 1 \in 0..mb.cap
    BY <1>2, <1>3 DEF Caps
  <2>2. QED
    BY <1>2, <1>3, <2>1, Residue DEF CellAt, Place
<1>5. QED
  BY <1>4 DEF Pending, QueueOf

LEMMA PendingIsQueueNext == SoundInv' => Pending' = QueueOf(mb')
<1>1. (SoundInv => Pending = QueueOf(mb))'
  BY PendingIsQueue, PTL
<1>2. QueueOf(mb)' = QueueOf(mb')
  BY DEF QueueOf, Place
<1>3. QED
  BY <1>1, <1>2

LEMMA RefinesInit == Init => Contract!Init
<1> SUFFICES ASSUME Init PROVE Contract!Init
  OBVIOUS
<1>1. PICK k \in Kinds : mb = EmptyMailbox(k, Capacity[k])
  BY DEF Init
<1>2. mb.kind = k /\ mb.count = 0
  BY <1>1 DEF EmptyMailbox
<1>3. Pending = << >>
  BY <1>2 DEF Pending
<1>4. k \in DOMAIN Capacity
  BY DEF Capacity
<1>5. QED
  BY <1>2, <1>3, <1>4 DEF Init, Contract!Init

\* What a step leaves of the kind, and the queues before and after it.
LEMMA RefinesPush ==
  ASSUME SoundInv, SoundInv', NEW m \in Msg, PushMsg(m)
  PROVE  Contract!Next
<1>1. PICK k \in Kinds : Sound(mb, k, Capacity[k], Msg)
  BY DEF SoundInv
<1>2. PICK retainRc \in RetainAnswers(m) :
         LET r == Push(mb, m, retainRc, m.payload = "none")
         IN  mb' = r.mb /\ answer' = r.rc /\ UNCHANGED taken
  BY DEF PushMsg
<1> DEFINE r == Push(mb, m, retainRc, m.payload = "none")
<1>3. retainRc \in {"OK", "STATE", "UNSUPPORTED"} /\ (m.payload = "none") \in BOOLEAN
  BY <1>2 DEF RetainAnswers
<1>4. Capacity[k] \in Caps /\ (k \notin RingKinds => Capacity[k] = 1)
  BY CapacityFacts
<1>5. PushKeeps(mb, r, k, Capacity[k], Msg)
  BY <1>1, <1>3, <1>4, PushSound, MailboxAssumption
<1>6. mb.kind = k /\ mb'.kind = k
  BY <1>1, <1>2, <1>4, <1>5, SoundFacts DEF PushKeeps
<1>7. PushPromise(k, Capacity[k], QueueOf(mb), QueueOf(r.mb), r.rc, m)
  BY <1>1, <1>3, <1>4, PushPromises
<1>8. Pending = QueueOf(mb) /\ Pending' = QueueOf(r.mb) /\ answer' = r.rc /\ taken' = taken
  BY <1>2, PendingIsQueue, PendingIsQueueNext
<1> HIDE DEF r
<1>9. PushPromise(mb.kind, Capacity[mb.kind], Pending, Pending', answer', m)
  BY <1>6, <1>7, <1>8
<1>10. \/ Contract!Accept(m) \/ Contract!DropOldest(m) \/ Contract!Overwrite(m)
       \/ Contract!Coalesce(m) \/ Contract!RejectFull \/ Contract!RejectUnqueueable
  BY <1>8, <1>9 DEF PushPromise, Contract!Accept, Contract!DropOldest, Contract!Overwrite,
     Contract!Coalesce, Contract!RejectFull, Contract!RejectUnqueueable
<1>11. QED
  BY <1>6, <1>10 DEF Contract!Next

LEMMA RefinesPop ==
  ASSUME SoundInv, SoundInv', PopMsg
  PROVE  Contract!Next
<1>1. PICK k \in Kinds : Sound(mb, k, Capacity[k], Msg)
  BY DEF SoundInv
<1>2. Capacity[k] \in Caps /\ (k \notin RingKinds => Capacity[k] = 1)
  BY CapacityFacts
<1>3. mb.kind = k /\ mb.cap = Capacity[k] /\ mb.count \in 0..Capacity[k]
  BY <1>1, <1>2, SoundFacts
<1>4. mb.count > 0 /\ mb' = Pop(mb) /\ taken' = Popped(mb) /\ answer' = "OK"
  BY DEF PopMsg
<1>5. Sound(mb', k, Capacity[k], Msg) /\ mb'.count = mb.count - 1
  BY <1>1, <1>2, <1>4, PopSound
<1>6. mb'.kind = k
  BY <1>2, <1>5, SoundFacts
<1>7. QueueOf(mb) # << >> /\ Head(QueueOf(mb)) = Popped(mb) /\ QueueOf(mb') = Tail(QueueOf(mb))
  <2>1. CASE k \in RingKinds
    <3>1. Pop(mb) = DropHead(mb) /\ Popped(mb) = mb.buf[mb.head]
      BY <1>3, <2>1 DEF Pop, DropHead, Popped, PopCell
    <3>2. QED
      BY <1>1, <1>2, <1>4, <2>1, <3>1, DropHeadTails
  <2>2. CASE k \notin RingKinds
    <3>1. k \in Kinds \ RingKinds /\ Sound(mb, k, 1, Msg) /\ mb.count = 1 /\ mb'.count = 0
      BY <1>1, <1>2, <1>3, <1>4, <1>5, <2>2
    <3>2. QueueOf(mb) = <<mb.buf[0]>> /\ QueueOf(mb') = << >>
      BY <3>1, SingleQueue, EmptyQueue
    <3>3. Popped(mb) = mb.buf[0]
      BY <1>3, <2>2 DEF Popped, PopCell
    <3>4. QED
      BY <3>2, <3>3
  <2>3. QED
    BY <2>1, <2>2
<1>8. Pending = QueueOf(mb) /\ Pending' = QueueOf(mb')
  BY PendingIsQueue, PendingIsQueueNext
<1>9. Contract!Take
  BY <1>4, <1>7, <1>8 DEF Contract!Take
<1>10. QED
  BY <1>3, <1>6, <1>9 DEF Contract!Next

LEMMA RefinesNext == SoundInv /\ SoundInv' /\ [Next]_vars => [Contract!Next]_(Contract!vars)
<1> SUFFICES ASSUME SoundInv, SoundInv', [Next]_vars
             PROVE  [Contract!Next]_(Contract!vars)
  OBVIOUS
<1>1. CASE \E m \in Msg : PushMsg(m)
  BY <1>1, RefinesPush
<1>2. CASE PushInvalid
  <2>1. mb' = mb /\ taken' = taken /\ answer' = "STATE"
    BY <1>2 DEF PushInvalid
  <2>2. Pending' = Pending
    BY <2>1, PendingIsQueue, PendingIsQueueNext
  <2>3. Contract!RejectUnqueueable
    BY <2>1, <2>2 DEF Contract!RejectUnqueueable
  <2>4. QED
    BY <2>1, <2>3 DEF Contract!Next
<1>3. CASE PopMsg
  BY <1>3, RefinesPop
<1>4. CASE PopEmpty
  <2>1. mb.count = 0 /\ mb' = mb /\ taken' = taken /\ answer' = "EMPTY"
    BY <1>4 DEF PopEmpty
  <2>2. Pending' = Pending /\ Pending = << >>
    BY <2>1, PendingIsQueue, PendingIsQueueNext, EmptyQueue
  <2>3. Contract!TakeEmpty
    BY <2>1, <2>2 DEF Contract!TakeEmpty
  <2>4. QED
    BY <2>1, <2>3 DEF Contract!Next
<1>5. CASE Reset
  <2>1. mb'.count = 0 /\ mb'.kind = mb.kind /\ taken' = taken /\ answer' = "OK"
    BY <1>5 DEF Reset, EmptyMailbox
  <2>2. Pending' = << >>
    BY <2>1, PendingIsQueueNext, EmptyQueue
  <2>3. Contract!Clear
    BY <2>1, <2>2 DEF Contract!Clear
  <2>4. QED
    BY <2>1, <2>3 DEF Contract!Next
<1>6. CASE UNCHANGED vars
  <2>1. mb' = mb /\ answer' = answer /\ taken' = taken
    BY <1>6 DEF vars
  <2>2. Pending' = Pending
    BY <2>1, PendingIsQueue, PendingIsQueueNext
  <2>3. QED
    BY <2>1, <2>2 DEF Contract!vars
<1>7. QED
  BY <1>1, <1>2, <1>3, <1>4, <1>5, <1>6 DEF Next

\* For every capacity and every set of envelopes the ring of ev_mailbox.c is
\* the bounded queue of docs/specs/mailbox-semantics.md: envelopes leave in
\* acceptance order and an overflow does what the kind says and nothing else.
THEOREM MailboxRefines == Spec => ImplementsContract
<1>1. SoundInv /\ [][Next]_vars => []SoundInv
  BY MailboxInvNext, PTL
<1>2. []SoundInv /\ [][Next]_vars => [][Contract!Next]_(Contract!vars)
  BY RefinesNext, PTL
<1>3. QED
  BY <1>1, <1>2, MailboxInvInit, RefinesInit, PTL DEF Spec, ImplementsContract, Contract!Spec

-----------------------------------------------------------------------------
(* All mailboxes and the leases.                                            *)

(* The invariant. *)

\* A slot is in use exactly while it has references.
PoolSound(p) ==
    /\ p \in [Slots -> Slot]
    /\ \A s \in Slots : p[s].inUse <=> p[s].refcount > 0

BoxesSound(bx) ==
    /\ DOMAIN bx = Actors
    /\ \A a \in Actors : Sound(bx[a], KindOf[a], CapOf[a], Message)

\* What the publisher's frame holds at each place of its code.
FrameSound(f) ==
    /\ f \in Frame
    /\ f.pc = "idle" => f.handle = NoHandle /\ f.msg = NoMsg
    /\ f.pc = "acquired" =>
          f.handle \in Handle /\ f.msg = NoMsg /\ f.event \in Events /\ f.next = 1
    /\ f.pc = "publish" =>
          /\ f.msg \in Message /\ f.event \in Events /\ f.next >= 1
          /\ f.msg.payload = "lease" <=> f.msg.slot # NoSlot
    /\ f.pc = "release" => f.msg = NoMsg

\* Shares and CellsHolding as functions of the values they depend on.
Outside(f, r, s) == Share(f.handle.slot = s) + Share(Carries(f.msg, s)) + Share(Carries(r, s))
Holding(bx, s) == {c \in Cells : Carries(bx[c[1]].buf[c[2]], s)}

Tally(p, f, r, bx) ==
    \A s \in Slots :
        /\ IsFiniteSet(Holding(bx, s))
        /\ p[s].refcount = Outside(f, r, s) + Cardinality(Holding(bx, s))

CurrentIn(p, m) == m # NoMsg /\ m.slot # NoSlot =>
    /\ p[m.slot].inUse
    /\ p[m.slot].generation = m.gen
    /\ p[m.slot].size = 1

DeliveryInv ==
    /\ PoolSound(pool) /\ BoxesSound(box) /\ FrameSound(frame)
    /\ run \in Message \cup {NoMsg} /\ rc \in Results /\ stale = FALSE
    /\ Tally(pool, frame, run, box)
    /\ NoDangling

-----------------------------------------------------------------------------
(* The pool as a value. *)

\* A slot that keeps a reference keeps what it was acquired for.
Keeps(p, q) ==
    \A s \in Slots : p[s].refcount > 0 /\ q[s].refcount > 0 =>
        q[s].generation = p[s].generation /\ q[s].size = p[s].size

LEMMA RetainedFacts ==
  ASSUME NEW p, PoolSound(p), NEW h, h.slot \in Slots, p[h.slot].refcount > 0
  PROVE  /\ PoolSound(Retained(p, h)) /\ Keeps(p, Retained(p, h))
         /\ \A t \in Slots : Retained(p, h)[t].refcount = p[t].refcount + Share(h.slot = t)
<1> DEFINE q == Retained(p, h)
<1>1. p \in [Slots -> Slot] /\ \A s \in Slots : p[s] \in Slot
  BY DEF PoolSound
<1>2. \A t \in Slots : q[t] = IF t = h.slot THEN [p[t] EXCEPT !.refcount = @ + 1] ELSE p[t]
  BY <1>1 DEF Retained
<1>3. [p[h.slot] EXCEPT !.refcount = @ + 1] \in Slot
  BY <1>1 DEF Slot
<1>4. q \in [Slots -> Slot]
  BY <1>1, <1>3 DEF Retained
<1>5. ASSUME NEW t \in Slots
      PROVE  /\ q[t].refcount = p[t].refcount + Share(h.slot = t)
             /\ q[t].inUse = p[t].inUse /\ q[t].size = p[t].size
             /\ q[t].generation = p[t].generation /\ p[t].refcount \in Nat
  <2> DEFINE more == [p[t] EXCEPT !.refcount = @ + 1]
  <2>1. /\ more.refcount = p[t].refcount + 1 /\ more.inUse = p[t].inUse
        /\ more.size = p[t].size /\ more.generation = p[t].generation
    BY <1>1 DEF Slot
  <2>2. q[t] = IF t = h.slot THEN more ELSE p[t]
    BY <1>2
  <2> HIDE DEF more, q
  <2>3. p[t].refcount \in Nat
    BY <1>1 DEF Slot
  <2>4. QED
    BY <2>1, <2>2, <2>3 DEF Share
<1> HIDE DEF q
<1>6. \A t \in Slots : q[t].inUse <=> q[t].refcount > 0
  BY <1>5 DEF PoolSound, Share
<1>7. QED
  BY <1>4, <1>5, <1>6 DEF PoolSound, Keeps, q

LEMMA ReleasedFacts ==
  ASSUME NEW p, PoolSound(p), NEW h, h.slot \in Slots, p[h.slot].refcount > 0
  PROVE  /\ PoolSound(Released(p, h)) /\ Keeps(p, Released(p, h))
         /\ \A t \in Slots : Released(p, h)[t].refcount = p[t].refcount - Share(h.slot = t)
<1> DEFINE q == Released(p, h)
           freed == [inUse |-> FALSE, refcount |-> 0, generation |-> p[h.slot].generation, size |-> 0]
           less == [p[h.slot] EXCEPT !.refcount = @ - 1]
<1>1. p \in [Slots -> Slot] /\ p[h.slot] \in Slot
  BY DEF PoolSound
<1>2. \A t \in Slots : q[t] = IF t # h.slot THEN p[t]
                              ELSE IF p[t].refcount = 1 THEN freed ELSE less
  BY <1>1 DEF Released
<1>3. /\ freed \in Slot /\ freed.refcount = 0 /\ freed.inUse = FALSE
      /\ less \in Slot /\ less.refcount = p[h.slot].refcount - 1
      /\ less.inUse = p[h.slot].inUse /\ less.size = p[h.slot].size
      /\ less.generation = p[h.slot].generation
  <2>1. p[h.slot].refcount - 1 \in Nat
    BY <1>1 DEF Slot
  <2>2. freed \in Slot /\ freed.refcount = 0 /\ freed.inUse = FALSE
    BY <1>1 DEF Slot
  <2>3. less \in Slot /\ less.refcount = p[h.slot].refcount - 1
    BY <1>1, <2>1 DEF Slot
  <2>4. /\ less.inUse = p[h.slot].inUse /\ less.size = p[h.slot].size
        /\ less.generation = p[h.slot].generation
    BY <1>1 DEF Slot
  <2>5. QED
    BY <2>2, <2>3, <2>4
<1> HIDE DEF freed, less
<1>4. q \in [Slots -> Slot]
  <2>1. (IF p[h.slot].refcount = 1 THEN freed ELSE less) \in Slot
    BY <1>3
  <2>2. q = [p EXCEPT ![h.slot] = IF p[h.slot].refcount = 1 THEN freed ELSE less]
    BY <1>1 DEF Released, freed, less
  <2>3. QED
    BY <1>1, <2>1, <2>2
<1> HIDE DEF q
<1>5. \A t \in Slots : p[t].refcount \in Nat
  BY <1>1 DEF Slot
<1>6. \A t \in Slots : q[t].refcount = p[t].refcount - Share(h.slot = t)
  BY <1>2, <1>3, <1>5 DEF Share
<1>7. \A t \in Slots : q[t].inUse <=> q[t].refcount > 0
  BY <1>2, <1>3, <1>5 DEF PoolSound
<1>8. Keeps(p, q)
  BY <1>2, <1>3 DEF Keeps
<1>9. QED
  BY <1>4, <1>6, <1>7, <1>8 DEF PoolSound, q

\* Disposing an envelope that is current gives back its share, and is never
\* counted as stale.
LEMMA DisposeFacts ==
  ASSUME NEW p, PoolSound(p), NEW m \in Message \cup {NoMsg}, CurrentIn(p, m)
  PROVE  /\ PoolSound(PoolAfterDispose(p, m)) /\ Keeps(p, PoolAfterDispose(p, m))
         /\ \A t \in Slots :
               PoolAfterDispose(p, m)[t].refcount = p[t].refcount - Share(Carries(m, t))
         /\ ~StaleDispose(p, m)
<1>1. p \in [Slots -> Slot] /\ \A t \in Slots : p[t].refcount \in Nat
  BY DEF PoolSound, Slot
<1>2. CASE m # NoMsg /\ m.slot # NoSlot
  <2>1. m.slot \in Slots
    BY <1>2 DEF Message
  <2>2. /\ p[m.slot].inUse /\ p[m.slot].size = 1 /\ p[m.slot].refcount > 0
    BY <1>2, <2>1 DEF CurrentIn, PoolSound
  <2>3. SlotLive(p, m.slot, 1)
    BY <2>2 DEF SlotLive, SlotAccepts, Live, HandleOf
  <2>4. PoolAfterDispose(p, m) = Released(p, HandleOf(p, m.slot)) /\ ~StaleDispose(p, m)
    BY <1>2, <2>3 DEF PoolAfterDispose, StaleDispose
  <2>5. HandleOf(p, m.slot).slot = m.slot
    BY DEF HandleOf
  <2>6. \A t \in Slots : Share(m.slot = t) = Share(Carries(m, t))
    BY <1>2 DEF Share, Carries
  <2>7. QED
    BY <2>1, <2>2, <2>4, <2>5, <2>6, ReleasedFacts
<1>3. CASE ~(m # NoMsg /\ m.slot # NoSlot)
  <2>1. PoolAfterDispose(p, m) = p /\ ~StaleDispose(p, m)
    BY <1>3 DEF PoolAfterDispose, StaleDispose
  <2>2. \A t \in Slots : Share(Carries(m, t)) = 0
    BY <1>3 DEF Share, Carries, Slots, NoSlot
  <2>3. QED
    BY <1>1, <2>1, <2>2 DEF Keeps
<1>4. QED
  BY <1>2, <1>3

\* The slot the pool hands out is free: the first one, which exists.
LEMMA FirstFreeIsFree ==
  ASSUME NEW p, FreeSlots(p) # {}
  PROVE  FirstFree(p) \in Slots /\ ~p[FirstFree(p)].inUse
<1>1. FreeSlots(p) \subseteq 1..SlotCount /\ SlotCount \in Nat
  BY LeasePoolAssumption DEF FreeSlots, Slots
<1>2. \E s \in FreeSlots(p) : \A t \in FreeSlots(p) : s <= t
  BY <1>1, LeastOf
<1>3. FirstFree(p) \in FreeSlots(p)
  BY <1>2 DEF FirstFree
<1>4. QED
  BY <1>3 DEF FreeSlots

LEMMA AcquiredFacts ==
  ASSUME NEW p, PoolSound(p), NEW s \in Slots, ~p[s].inUse, NEW size \in 0..1
  PROVE  /\ PoolSound(Acquired(p, s, size)) /\ Keeps(p, Acquired(p, s, size))
         /\ p[s].refcount = 0
         /\ \A t \in Slots :
               Acquired(p, s, size)[t].refcount = p[t].refcount + Share(s = t)
         /\ HandleOf(Acquired(p, s, size), s) \in Handle
         /\ Live(Acquired(p, s, size), HandleOf(Acquired(p, s, size), s))
<1> DEFINE q == Acquired(p, s, size)
           g == NextGeneration(p[s].generation)
           new == [inUse |-> TRUE, refcount |-> 1, generation |-> g, size |-> size]
<1>1. p \in [Slots -> Slot] /\ \A t \in Slots : p[t] \in Slot /\ p[t].refcount \in Nat
  BY DEF PoolSound, Slot
<1>2. p[s].refcount = 0
  BY <1>1 DEF PoolSound
<1>3. g \in Generations
  BY <1>1, LeasePoolAssumption DEF Slot, Generations, NextGeneration
<1>4. new \in Slot /\ new.refcount = 1 /\ new.inUse = TRUE /\ new.generation = g
  BY <1>3 DEF Slot
<1>5. q = [p EXCEPT ![s] = new]
  BY <1>1 DEF Acquired
<1> HIDE DEF q, new, g
<1>6. q \in [Slots -> Slot] /\ \A t \in Slots : q[t] = IF t = s THEN new ELSE p[t]
  BY <1>1, <1>4, <1>5
<1>7. \A t \in Slots : q[t].refcount = p[t].refcount + Share(s = t)
  BY <1>1, <1>2, <1>4, <1>6 DEF Share
<1>8. \A t \in Slots : q[t].inUse <=> q[t].refcount > 0
  BY <1>4, <1>6 DEF PoolSound
<1>9. Keeps(p, q)
  BY <1>2, <1>6 DEF Keeps
<1>10. HandleOf(q, s) \in Handle /\ Live(q, HandleOf(q, s))
  <2>1. q[s] = new
    BY <1>6
  <2>2. HandleOf(q, s) = [slot |-> s, generation |-> g]
    BY <1>4, <2>1 DEF HandleOf
  <2>3. QED
    BY <1>3, <1>4, <2>1, <2>2 DEF Handle, Live
<1>11. QED
  BY <1>2, <1>6, <1>7, <1>8, <1>9, <1>10 DEF PoolSound, q

-----------------------------------------------------------------------------
(* The references. *)

LEMMA CellFacts ==
  /\ \A a \in Actors : \A c \in 0..(CapOf[a] - 1) : <<a, c>> \in Cells
  /\ \A x \in Cells : \E a \in Actors : \E c \in 0..(CapOf[a] - 1) : x = <<a, c>>
  BY DEF Cells

\* Every reference is in the tally: a slot that is referred to has a count.
LEMMA Referenced ==
  ASSUME NEW p, NEW f, NEW r, NEW bx, NEW s \in Slots, Tally(p, f, r, bx)
  PROVE  /\ f.handle.slot = s => p[s].refcount > 0
         /\ Carries(f.msg, s) => p[s].refcount > 0
         /\ Carries(r, s) => p[s].refcount > 0
         /\ \A c \in Cells : Carries(bx[c[1]].buf[c[2]], s) => p[s].refcount > 0
<1> DEFINE n == Cardinality(Holding(bx, s))
<1>1. IsFiniteSet(Holding(bx, s)) /\ p[s].refcount = Outside(f, r, s) + n
  BY DEF Tally
<1>2. n \in Nat /\ (n = 0 <=> Holding(bx, s) = {})
  BY <1>1, FS_CardinalityType, FS_EmptySet
<1>3. ASSUME NEW c \in Cells, Carries(bx[c[1]].buf[c[2]], s) PROVE n > 0
  <2>1. c \in Holding(bx, s)
    BY <1>3 DEF Holding
  <2>2. QED
    BY <1>2, <2>1
<1> HIDE DEF n
<1>4. QED
  BY <1>1, <1>2, <1>3 DEF Outside, Share

LEMMA StillCurrent ==
  ASSUME NEW p, PoolSound(p), NEW q, PoolSound(q), Keeps(p, q),
         NEW m \in Message \cup {NoMsg}, CurrentIn(p, m),
         m # NoMsg /\ m.slot # NoSlot => q[m.slot].refcount > 0
  PROVE  CurrentIn(q, m)
<1>1. CASE m # NoMsg /\ m.slot # NoSlot
  <2>1. m.slot \in Slots
    BY <1>1 DEF Message
  <2>2. p[m.slot].refcount > 0 /\ q[m.slot].refcount > 0
    BY <1>1, <2>1 DEF CurrentIn, PoolSound
  <2>3. QED
    BY <1>1, <2>1, <2>2 DEF CurrentIn, PoolSound, Keeps
<1>2. QED
  BY <1>1 DEF CurrentIn

\* The mailboxes after one of them was replaced.
Replaced(bx, a, nb) == [bx EXCEPT ![a] = nb]

\* Writing one cell moves at most that cell in or out of a slot's holders.
LEMMA CellWritten ==
  ASSUME NEW bx, DOMAIN bx = Actors, NEW a \in Actors, NEW c \in 0..(CapOf[a] - 1),
         DOMAIN bx[a].buf = 0..(CapOf[a] - 1), NEW nb, NEW v,
         nb.buf = Written(bx[a].buf, c, v), NEW s, IsFiniteSet(Holding(bx, s))
  PROVE  /\ IsFiniteSet(Holding(Replaced(bx, a, nb), s))
         /\ Cardinality(Holding(Replaced(bx, a, nb), s)) =
               Cardinality(Holding(bx, s)) - Share(Carries(bx[a].buf[c], s)) + Share(Carries(v, s))
<1> DEFINE by == Replaced(bx, a, nb)
           H == Holding(bx, s)
           rest == H \ {<<a, c>>}
<1>1. \A x \in Cells : by[x[1]].buf[x[2]] = IF x = <<a, c>> THEN v ELSE bx[x[1]].buf[x[2]]
  <2>1. ASSUME NEW d \in Actors, NEW e \in 0..(CapOf[d] - 1)
        PROVE  by[d].buf[e] = IF d = a /\ e = c THEN v ELSE bx[d].buf[e]
    BY DEF Written, Replaced
  <2>2. QED
    BY <2>1, CellFacts
<1>2. <<a, c>> \in Cells
  BY CellFacts
<1> HIDE DEF by
<1>3. Holding(by, s) = IF Carries(v, s) THEN rest \cup {<<a, c>>} ELSE rest
  BY <1>1, <1>2 DEF Holding
<1>4. <<a, c>> \in H <=> Carries(bx[a].buf[c], s)
  BY <1>2 DEF Holding
<1>5. /\ IsFiniteSet(rest) /\ <<a, c>> \notin rest /\ Cardinality(H) \in Nat
      /\ Cardinality(rest) = Cardinality(H) - Share(Carries(bx[a].buf[c], s))
  <2>1. /\ IsFiniteSet(rest)
        /\ Cardinality(rest) = IF <<a, c>> \in H THEN Cardinality(H) - 1 ELSE Cardinality(H)
    BY FS_RemoveElement
  <2>2. Cardinality(H) \in Nat
    BY FS_CardinalityType
  <2>3. QED
    BY <1>4, <2>1, <2>2 DEF Share
<1>6. /\ IsFiniteSet(rest \cup {<<a, c>>})
      /\ Cardinality(rest \cup {<<a, c>>}) = Cardinality(rest) + 1
  BY <1>5, FS_AddElement
<1> HIDE DEF rest, H
<1>7. Cardinality(rest) \in Nat
  BY <1>5, FS_CardinalityType
<1>8. QED
  BY <1>3, <1>5, <1>6, <1>7 DEF Share, by, H

-----------------------------------------------------------------------------
(* The steps. *)

\* Where the new references of a step come from does not matter: each was
\* current, or its handle live, in the pool before the step or after it.
LEMMA NothingDangles ==
  ASSUME PoolSound(pool), PoolSound(pool'), Keeps(pool, pool'),
         BoxesSound(box'), FrameSound(frame'), run' \in Message \cup {NoMsg},
         Tally(pool', frame', run', box'),
         CurrentIn(pool, frame'.msg), CurrentIn(pool, run'),
         \A c \in Cells : CurrentIn(pool, Content(c)'),
         frame'.handle # NoHandle =>
            Live(pool, frame'.handle) \/ Live(pool', frame'.handle)
  PROVE  NoDangling'
<1>1. ASSUME NEW m \in Message \cup {NoMsg}, CurrentIn(pool, m),
             \A s \in Slots : Carries(m, s) => pool'[s].refcount > 0
      PROVE  CurrentIn(pool', m)
  <2>1. m # NoMsg /\ m.slot # NoSlot => m.slot \in Slots
    BY DEF Message
  <2>2. m # NoMsg /\ m.slot # NoSlot => pool'[m.slot].refcount > 0
    BY <1>1, <2>1 DEF Carries
  <2>3. QED
    BY <1>1, <2>2, StillCurrent
<1>2. \A s \in Slots :
         /\ frame'.handle.slot = s => pool'[s].refcount > 0
         /\ Carries(frame'.msg, s) => pool'[s].refcount > 0
         /\ Carries(run', s) => pool'[s].refcount > 0
         /\ \A c \in Cells : Carries(Content(c)', s) => pool'[s].refcount > 0
  BY Referenced DEF Content
<1>3. frame'.msg \in Message \cup {NoMsg} /\ frame'.handle \in Handle \cup {NoHandle}
  BY DEF FrameSound, Frame
<1>4. \A c \in Cells : Content(c)' \in Message \cup {NoMsg}
  <2>1. \A a \in Actors : \A c \in 0..(CapOf[a] - 1) : box'[a].buf[c] \in Message \cup {NoMsg}
    BY DEF BoxesSound, Sound, Mailbox
  <2>2. QED
    BY <2>1, CellFacts DEF Content
<1>5. CurrentIn(pool', frame'.msg) /\ CurrentIn(pool', run')
  BY <1>1, <1>2, <1>3
<1>6. \A c \in Cells : CurrentIn(pool', Content(c)')
  BY <1>1, <1>2, <1>4
<1>7. frame'.handle # NoHandle => Live(pool', frame'.handle)
  <2>1. ASSUME frame'.handle # NoHandle, Live(pool, frame'.handle)
        PROVE  Live(pool', frame'.handle)
    <3>1. frame'.handle.slot \in Slots
      BY <1>3, <2>1 DEF Handle
    <3>2. pool'[frame'.handle.slot].refcount > 0
      BY <1>2, <3>1
    <3>3. QED
      BY <2>1, <3>1, <3>2 DEF Live, Keeps, PoolSound
  <2>2. QED
    BY <2>1
<1>8. QED
  BY <1>5, <1>6, <1>7 DEF NoDangling, Current, CurrentIn

\* What NoDangling says of the present references.
LEMMA PresentCurrent ==
  ASSUME NoDangling
  PROVE  /\ CurrentIn(pool, frame.msg) /\ CurrentIn(pool, run) /\ CurrentIn(pool, NoMsg)
         /\ \A c \in Cells : CurrentIn(pool, Content(c))
         /\ frame.handle # NoHandle => Live(pool, frame.handle)
  BY DEF NoDangling, Current, CurrentIn

\* A step that only moves the publisher on.
LEMMA FrameMoves ==
  ASSUME DeliveryInv, UNCHANGED <<pool, stale, box, run>>,
         FrameSound(frame'), frame'.handle = frame.handle, frame'.msg = frame.msg, rc' \in Results
  PROVE  DeliveryInv'
<1>1. Tally(pool', frame', run', box')
  BY DEF DeliveryInv, Tally, Outside
<1>2. NoDangling'
  BY DEF DeliveryInv, NoDangling, Current, Content
<1>3. QED
  BY <1>1, <1>2 DEF DeliveryInv

\* A step that leaves the mailboxes alone: a slot gains or loses as many
\* shares as the publisher and the handler take or give up.
LEMMA BoxesStay ==
  ASSUME DeliveryInv, PoolSound(pool'), Keeps(pool, pool'), FrameSound(frame'),
         run' \in Message \cup {NoMsg}, rc' \in Results, stale' = FALSE, UNCHANGED box,
         \A s \in Slots : pool'[s].refcount =
            pool[s].refcount - Outside(frame, run, s) + Outside(frame', run', s),
         CurrentIn(pool, frame'.msg), CurrentIn(pool, run'),
         frame'.handle # NoHandle =>
            Live(pool, frame'.handle) \/ Live(pool', frame'.handle)
  PROVE  DeliveryInv'
<1>1. \A s \in Slots : Outside(frame, run, s) \in Nat /\ Outside(frame', run', s) \in Nat
  BY DEF Outside, Share
<1>2. Tally(pool', frame', run', box')
  <2>1. ASSUME NEW s \in Slots
        PROVE  /\ IsFiniteSet(Holding(box, s))
               /\ pool'[s].refcount = Outside(frame', run', s) + Cardinality(Holding(box, s))
    <3>1. /\ IsFiniteSet(Holding(box, s))
          /\ pool[s].refcount = Outside(frame, run, s) + Cardinality(Holding(box, s))
      BY DEF DeliveryInv, Tally
    <3>2. Cardinality(Holding(box, s)) \in Nat
      BY <3>1, FS_CardinalityType
    <3>3. QED
      BY <1>1, <3>1, <3>2
  <2>2. QED
    BY <2>1 DEF Tally
<1>3. \A c \in Cells : CurrentIn(pool, Content(c)')
  BY PresentCurrent DEF DeliveryInv, Content
<1>4. BoxesSound(box')
  BY DEF DeliveryInv
<1>5. NoDangling'
  BY <1>2, <1>3, <1>4, NothingDangles DEF DeliveryInv
<1>6. QED
  BY <1>2, <1>4, <1>5 DEF DeliveryInv

LEMMA InvInit == DeliveryInit => DeliveryInv
<1> SUFFICES ASSUME DeliveryInit PROVE DeliveryInv
  OBVIOUS
<1>1. PoolSound(pool) /\ \A s \in Slots : pool[s].refcount = 0
  BY LeasePoolAssumption DEF DeliveryInit, FreshPool, PoolSound, Slot, Generations
<1>2. BoxesSound(box)
  <2>1. \A a \in Actors : KindOf[a] \in Kinds /\ CapOf[a] \in Caps
    BY DeliveryAssumption DEF Caps
  <2>2. QED
    BY <2>1, EmptySound DEF DeliveryInit, BoxesSound
<1>3. FrameSound(frame) /\ frame.msg = NoMsg /\ frame.handle = NoHandle
  BY DEF DeliveryInit, IdleFrame, FrameSound, Frame, Policies
<1>4. run = NoMsg /\ rc \in Results /\ stale = FALSE
  BY DEF DeliveryInit, Results
<1>5. \A c \in Cells : Content(c) = NoMsg
  BY CellFacts DEF DeliveryInit, EmptyMailbox, Content
<1>6. Tally(pool, frame, run, box)
  <2>1. ASSUME NEW s \in Slots PROVE Outside(frame, run, s) = 0 /\ Holding(box, s) = {}
    BY <1>3, <1>4, <1>5 DEF Outside, Share, Carries, Holding, Content, NoHandle, NoSlot, Slots
  <2>2. QED
    BY <1>1, <2>1, FS_EmptySet DEF Tally
<1>7. NoDangling
  BY <1>3, <1>4, <1>5 DEF NoDangling, Current
<1>8. QED
  BY <1>1, <1>2, <1>3, <1>4, <1>6, <1>7 DEF DeliveryInv

\* What the invariant says of the frame, spelled out.
LEMMA FrameFacts ==
  ASSUME DeliveryInv
  PROVE  /\ frame \in Frame
         /\ frame.handle \in Handle \cup {NoHandle} /\ frame.msg \in Message \cup {NoMsg}
         /\ frame.next \in Nat /\ frame.policy \in Policies
  BY DEF DeliveryInv, FrameSound, Frame

LEMMA InvAcquire ==
  ASSUME DeliveryInv, NEW e \in LeaseEvents, NEW size \in 0..1, NEW policy \in Policies,
         AcquireLease(e, size, policy)
  PROVE  DeliveryInv'
<1> DEFINE s == FirstFree(pool)
           h == HandleOf(Acquired(pool, s, size), s)
<1>1. PoolSound(pool) /\ e \in Events
  BY DeliveryAssumption DEF DeliveryInv
<1>2. s \in Slots /\ ~pool[s].inUse
  BY FirstFreeIsFree DEF AcquireLease
<1>3. /\ pool' = Acquired(pool, s, size)
      /\ frame' = [IdleFrame EXCEPT !.pc = "acquired", !.event = e, !.policy = policy, !.handle = h]
      /\ UNCHANGED <<stale, box, run, rc>>
  BY DEF AcquireLease
<1>4. /\ PoolSound(pool') /\ Keeps(pool, pool') /\ h \in Handle /\ Live(pool', h)
      /\ \A t \in Slots : pool'[t].refcount = pool[t].refcount + Share(s = t)
  BY <1>1, <1>2, <1>3, AcquiredFacts
<1>5. h.slot = s
  BY DEF HandleOf
<1> HIDE DEF h, s
<1>6. /\ frame'.pc = "acquired" /\ frame'.event = e /\ frame'.policy = policy
      /\ frame'.handle = h /\ frame'.msg = NoMsg
      /\ frame' = [pc |-> "acquired", event |-> e, handle |-> h, msg |-> NoMsg,
                   policy |-> policy, next |-> 1, delivered |-> 0, failed |-> 0]
  BY <1>3 DEF IdleFrame
<1>7. FrameSound(frame')
  BY <1>1, <1>4, <1>6 DEF FrameSound, Frame
<1>8. frame.pc = "idle" /\ frame.handle = NoHandle /\ frame.msg = NoMsg
  BY DEF AcquireLease, DeliveryInv, FrameSound
<1>9. \A t \in Slots : pool'[t].refcount =
         pool[t].refcount - Outside(frame, run, t) + Outside(frame', run', t)
  <2>1. \A t \in Slots : pool[t].refcount \in Nat
    BY <1>1 DEF PoolSound, Slot
  <2>2. \A t \in Slots : Share(frame.handle.slot = t) = 0 /\ Share(frame'.handle.slot = t) = Share(s = t)
    BY <1>5, <1>6, <1>8 DEF Share, NoHandle, NoSlot, Slots
  <2>3. \A t \in Slots : Share(Carries(run, t)) \in Nat /\ Share(s = t) \in Nat
    BY DEF Share
  <2>4. \A t \in Slots : Share(Carries(frame.msg, t)) = 0 /\ Share(Carries(frame'.msg, t)) = 0
    BY <1>6, <1>8 DEF Share, Carries
  <2>5. QED
    BY <1>3, <1>4, <2>1, <2>2, <2>3, <2>4 DEF Outside
<1>10. CurrentIn(pool, frame'.msg) /\ CurrentIn(pool, run')
  BY <1>3, <1>6, PresentCurrent DEF DeliveryInv
<1>11. run' \in Message \cup {NoMsg} /\ rc' \in Results /\ stale' = FALSE
  BY <1>3 DEF DeliveryInv
<1>12. QED
  BY <1>3, <1>4, <1>6, <1>7, <1>9, <1>10, <1>11, BoxesStay

\* The publisher's frame once its envelope is built.
Publishing(f, m) == [f EXCEPT !.pc = "publish", !.msg = m]

LEMMA FramePublishes ==
  ASSUME NEW f \in Frame, f.event \in Events, f.next = 1,
         NEW m \in Message, m.payload = "lease" <=> m.slot # NoSlot
  PROVE  /\ FrameSound(Publishing(f, m))
         /\ Publishing(f, m).handle = f.handle
         /\ Publishing(f, m).msg = m
<1> DEFINE g == Publishing(f, m)
<1>1. /\ g.pc = "publish" /\ g.msg = m /\ g.event = f.event /\ g.next = f.next
      /\ g.handle = f.handle
  BY DEF Frame, Publishing
<1>2. g \in Frame
  BY DEF Frame, Publishing
<1> HIDE DEF g
<1>3. FrameSound(g)
  BY <1>1, <1>2 DEF FrameSound
<1>4. QED
  BY <1>1, <1>3 DEF g

LEMMA InvAttach ==
  ASSUME DeliveryInv, AttachLease
  PROVE  DeliveryInv'
<1> DEFINE h == frame.handle
<1>1. /\ PoolSound(pool) /\ h \in Handle /\ h # NoHandle /\ h.slot \in Slots
      /\ frame.msg = NoMsg /\ frame.event \in Events /\ frame.pc = "acquired"
  BY DEF AttachLease, DeliveryInv, FrameSound, Handle, NoHandle, Slots, NoSlot
<1>2. Live(pool, h)
  BY <1>1, PresentCurrent DEF DeliveryInv
<1>3. pool[h.slot].size \in 0..1 /\ \A t \in Slots : pool[t].refcount \in Nat
  BY <1>1 DEF PoolSound, Slot
<1>4. UNCHANGED <<box, run, stale, rc>>
  BY <1>2 DEF AttachLease
<1>5. run' \in Message \cup {NoMsg} /\ rc' \in Results /\ stale' = FALSE /\ CurrentIn(pool, run')
  BY <1>4, PresentCurrent DEF DeliveryInv
<1>6. \A t \in Slots : Share(Carries(NoMsg, t)) = 0 /\ Share(Carries(run, t)) \in Nat
                       /\ Share(h.slot = t) \in Nat
  BY DEF Share, Carries
<1>7. CASE pool[h.slot].size = 0
  <2> DEFINE m == PlainMsg(frame.event, "none")
  <2>1. UNCHANGED pool /\ frame' = Publishing(frame, m)
    BY <1>2, <1>7 DEF AttachLease, Publishing
  <2>2. m \in Message /\ m.payload = "none" /\ m.slot = NoSlot
    BY <1>1, LeasePoolAssumption DEF PlainMsg, Message, Generations
  <2> HIDE DEF m
  <2>3. FrameSound(frame') /\ frame'.handle = h /\ frame'.msg = m
    BY <1>1, <2>1, <2>2, FrameFacts, FramePublishes DEF DeliveryInv, FrameSound
  <2>4. CurrentIn(pool, m) /\ \A t \in Slots : Share(Carries(m, t)) = 0
    BY <2>2 DEF CurrentIn, Share, Carries, NoSlot, Slots
  <2>5. PoolSound(pool') /\ Keeps(pool, pool')
    BY <1>1, <2>1 DEF Keeps
  <2>6. \A t \in Slots : pool'[t].refcount =
           pool[t].refcount - Outside(frame, run, t) + Outside(frame', run', t)
    BY <1>1, <1>3, <1>4, <1>6, <2>1, <2>3, <2>4 DEF Outside
  <2>7. QED
    BY <1>2, <1>4, <1>5, <2>3, <2>4, <2>5, <2>6, BoxesStay
<1>8. CASE pool[h.slot].size # 0
  <2> DEFINE m == LeaseMsg(frame.event, h)
  <2>1. pool' = Retained(pool, h) /\ frame' = Publishing(frame, m)
    BY <1>2, <1>8 DEF AttachLease, Publishing
  <2>2. m \in Message /\ m.payload = "lease" /\ m.slot = h.slot /\ m.gen = h.generation /\ m.slot # NoSlot
    BY <1>1 DEF LeaseMsg, Message, Handle, NoSlot, Slots
  <2> HIDE DEF m
  <2>3. FrameSound(frame') /\ frame'.handle = h /\ frame'.msg = m
    BY <1>1, <2>1, <2>2, FrameFacts, FramePublishes DEF DeliveryInv, FrameSound
  <2>4. CurrentIn(pool, m)
    BY <1>2, <1>3, <1>8, <2>2 DEF CurrentIn, Live
  <2>5. /\ PoolSound(pool') /\ Keeps(pool, pool')
        /\ \A t \in Slots : pool'[t].refcount = pool[t].refcount + Share(h.slot = t)
    BY <1>1, <1>2, <2>1, RetainedFacts DEF Live
  <2>6. \A t \in Slots : Share(Carries(m, t)) = Share(h.slot = t)
    BY <2>2, NoMsgAssumption DEF Share, Carries
  <2>7. \A t \in Slots : pool'[t].refcount =
           pool[t].refcount - Outside(frame, run, t) + Outside(frame', run', t)
    BY <1>1, <1>3, <1>4, <1>6, <2>3, <2>5, <2>6 DEF Outside
  <2>8. QED
    BY <1>2, <1>4, <1>5, <2>3, <2>4, <2>5, <2>7, BoxesStay
<1>9. QED
  BY <1>7, <1>8

LEMMA InvBuildPlain ==
  ASSUME DeliveryInv, NEW e \in Events, NEW payload \in {"none", "inline"}, NEW policy \in Policies,
         BuildPlain(e, payload, policy)
  PROVE  DeliveryInv'
<1> DEFINE m == PlainMsg(e, payload)
           f == [IdleFrame EXCEPT !.event = e, !.policy = policy]
<1>1. m \in Message /\ m.payload # "lease" /\ m.slot = NoSlot
  BY LeasePoolAssumption DEF PlainMsg, Message, Generations
<1>2. f \in Frame /\ f.event \in Events /\ f.next = 1 /\ f.handle = NoHandle
  BY DEF IdleFrame, Frame
<1>3. frame' = Publishing(f, m)
  BY DEF BuildPlain, IdleFrame, Publishing
<1> HIDE DEF m, f
<1>4. FrameSound(frame') /\ frame'.handle = NoHandle /\ frame'.msg = m
  BY <1>1, <1>2, <1>3, FramePublishes
<1>5. frame.handle = NoHandle /\ frame.msg = NoMsg /\ UNCHANGED <<pool, stale, box, run, rc>>
  BY DEF BuildPlain, DeliveryInv, FrameSound
<1>6. CurrentIn(pool, m) /\ \A t \in Slots : Share(Carries(m, t)) = 0 /\ Share(Carries(NoMsg, t)) = 0
  BY <1>1 DEF CurrentIn, Share, Carries, NoSlot, Slots
<1>7. \A t \in Slots : pool'[t].refcount =
         pool[t].refcount - Outside(frame, run, t) + Outside(frame', run', t)
  <2>1. \A t \in Slots : Outside(frame', run', t) = Outside(frame, run, t)
    BY <1>4, <1>5, <1>6 DEF Outside
  <2>2. \A t \in Slots : pool[t].refcount \in Nat /\ Outside(frame, run, t) \in Nat
    BY DEF DeliveryInv, PoolSound, Slot, Outside, Share
  <2>3. QED
    BY <1>5, <2>1, <2>2
<1>8. PoolSound(pool') /\ Keeps(pool, pool')
  BY <1>5 DEF DeliveryInv, Keeps
<1>9. /\ run' \in Message \cup {NoMsg} /\ rc' \in Results /\ stale' = FALSE
      /\ CurrentIn(pool, run') /\ UNCHANGED box
  BY <1>5, PresentCurrent DEF DeliveryInv
<1>10. QED
  BY <1>4, <1>6, <1>7, <1>8, <1>9, BoxesStay

\* The fan-out's bookkeeping keeps the envelope and the handle.
LEMMA CountedKeeps ==
  ASSUME DeliveryInv, frame.pc = "publish", NEW ok \in BOOLEAN, Counted(ok)
  PROVE  FrameSound(frame') /\ frame'.handle = frame.handle /\ frame'.msg = frame.msg
<1>1. /\ frame \in Frame /\ frame.msg \in Message /\ frame.event \in Events /\ frame.next >= 1
      /\ frame.msg.payload = "lease" <=> frame.msg.slot # NoSlot
      /\ frame.next \in Nat /\ frame.delivered \in Nat /\ frame.failed \in Nat
  BY DEF DeliveryInv, FrameSound, Frame
<1>2. CASE ok
  <2>1. frame' = [frame EXCEPT !.next = @ + 1, !.delivered = @ + 1]
    BY <1>2 DEF Counted
  <2>2. /\ frame'.pc = frame.pc /\ frame'.msg = frame.msg /\ frame'.event = frame.event
        /\ frame'.next = frame.next + 1 /\ frame'.handle = frame.handle
    BY <1>1, <2>1 DEF Frame
  <2>3. frame' \in Frame
    <3> DEFINE n == frame.next + 1
               d == frame.delivered + 1
    <3>1. n \in Nat /\ d \in Nat /\ frame' = [frame EXCEPT !.next = n, !.delivered = d]
      BY <1>1, <2>1
    <3> HIDE DEF n, d
    <3>2. QED
      BY <1>1, <3>1 DEF Frame
  <2>4. QED
    BY <1>1, <2>2, <2>3 DEF FrameSound
<1>3. CASE ~ok
  <2> DEFINE x == IF frame.policy = "FAIL_FAST" THEN "dispose" ELSE frame.pc
  <2>1. frame' = [frame EXCEPT !.next = @ + 1, !.failed = @ + 1, !.pc = x]
    BY <1>3 DEF Counted
  <2>2. x \in {"publish", "dispose"}
    OBVIOUS
  <2> HIDE DEF x
  <2>3. /\ frame'.pc = x /\ frame'.msg = frame.msg /\ frame'.event = frame.event
        /\ frame'.next = frame.next + 1 /\ frame'.handle = frame.handle
    BY <1>1, <2>1 DEF Frame
  <2>4. frame' \in Frame
    <3> DEFINE n == frame.next + 1
               d == frame.failed + 1
    <3>1. n \in Nat /\ d \in Nat /\ frame' = [frame EXCEPT !.next = n, !.failed = d, !.pc = x]
      BY <1>1, <2>1
    <3> HIDE DEF n, d
    <3>2. QED
      BY <1>1, <2>2, <3>1 DEF Frame
  <2>5. QED
    BY <1>1, <2>2, <2>3, <2>4 DEF FrameSound
<1>4. QED
  BY <1>2, <1>3

LEMMA PushAnswers ==
  ASSUME DeliveryInv, frame.pc = "publish", NEW a \in Actors
  PROVE  /\ Sound(box[a], KindOf[a], CapOf[a], Message)
         /\ PushTouches(box[a], PushOf(a), frame.msg, RetainRc(frame.msg), CapOf[a])
         /\ PushOf(a).counter = "coalesced" => frame.msg.payload = "none"
         /\ Sound(PushOf(a).mb, KindOf[a], CapOf[a], Message)
         /\ RetainRc(frame.msg) \in {"OK", "STATE"}
<1>1. /\ KindOf[a] \in Kinds /\ CapOf[a] \in Caps /\ (KindOf[a] \notin RingKinds => CapOf[a] = 1)
  BY DeliveryAssumption DEF Caps
<1>2. Sound(box[a], KindOf[a], CapOf[a], Message) /\ frame.msg \in Message
  BY DEF DeliveryInv, BoxesSound, FrameSound
<1>3. ASSUME NEW refusal \in {"OK", "STATE"}, NEW plain \in BOOLEAN
      PROVE  LET r == Push(box[a], frame.msg, refusal, plain)
             IN  /\ PushTouches(box[a], r, frame.msg, refusal, CapOf[a])
                 /\ r.counter = "coalesced" => plain
                 /\ Sound(r.mb, KindOf[a], CapOf[a], Message)
  <2> DEFINE r == Push(box[a], frame.msg, refusal, plain)
  <2>1. PushTouches(box[a], r, frame.msg, refusal, CapOf[a]) /\ (r.counter = "coalesced" => plain)
    BY <1>1, <1>2, PushWrites, NoMsgAssumption
  <2>2. PushKeeps(box[a], r, KindOf[a], CapOf[a], Message)
    BY <1>1, <1>2, PushSound, NoMsgAssumption
  <2>3. QED
    BY <2>1, <2>2 DEF PushKeeps
<1>4. RetainRc(frame.msg) \in {"OK", "STATE"} /\ (frame.msg.payload = "none") \in BOOLEAN
  BY DEF RetainRc
<1>5. QED
  BY <1>2, <1>3, <1>4 DEF PushOf

\* A target of the present fan-out is an actor.
LEMMA TargetIsActor ==
  ASSUME DeliveryInv, frame.pc = "publish", frame.next <= Len(Targets)
  PROVE  Targets[frame.next] \in Actors
<1>1. frame.event \in Events /\ frame.next >= 1 /\ frame.next \in Nat
  BY DEF DeliveryInv, FrameSound, Frame
<1>2. Targets \in Seq(Actors)
  BY <1>1, DeliveryAssumption DEF Targets
<1>3. QED
  BY <1>1, <1>2

LEMMA AnswerTyped ==
  ASSUME DeliveryInv, NEW err \in Results, AnswerFailed(err)
  PROVE  rc' \in Results
  BY DEF DeliveryInv, AnswerFailed

LEMMA InvFanOut ==
  ASSUME DeliveryInv, SkipDisabled \/ TargetMissing \/ DeliverRejected \/ FanOutDone
  PROVE  DeliveryInv'
<1>1. CASE SkipDisabled
  <2>1. rc' \in Results
    BY <1>1 DEF SkipDisabled, DeliveryInv
  <2>2. QED
    BY <1>1, <2>1, CountedKeeps, FrameMoves DEF SkipDisabled
<1>2. CASE TargetMissing
  <2>1. rc' \in Results
    BY <1>2, AnswerTyped DEF TargetMissing, Results
  <2>2. QED
    BY <1>2, <2>1, CountedKeeps, FrameMoves DEF TargetMissing
<1>3. CASE DeliverRejected
  <2> DEFINE a == Targets[frame.next]
  <2>1. a \in Actors /\ frame.pc = "publish"
    BY <1>3, TargetIsActor DEF DeliverRejected
  <2>2. /\ PushOf(a).rc \in {"OK", "FULL", "CONTRACT", RetainRc(frame.msg)}
        /\ RetainRc(frame.msg) \in {"OK", "STATE"}
    BY <2>1, PushAnswers DEF PushTouches
  <2>3. RetainRc(frame.msg) = "OK"
    <3>1. frame.msg \in Message /\ CurrentIn(pool, frame.msg) /\ frame.msg # NoMsg
      BY <2>1, PresentCurrent, NoMsgAssumption DEF DeliveryInv, FrameSound
    <3>2. frame.msg.slot # NoSlot => frame.msg.slot \in Slots
      BY <3>1 DEF Message
    <3>3. frame.msg.slot # NoSlot => SlotLive(pool, frame.msg.slot, 1)
      BY <3>1, <3>2 DEF CurrentIn, SlotLive, SlotAccepts, Live, HandleOf, DeliveryInv, PoolSound
    <3>4. QED
      BY <3>3 DEF RetainRc
  <2>4. stale' = stale
    BY <1>3, <2>2, <2>3 DEF DeliverRejected, DeliveryInv
  <2>5. rc' \in Results
    BY <1>3, <2>2, <2>3, AnswerTyped DEF DeliverRejected, Results
  <2>6. Counted(FALSE) /\ UNCHANGED <<pool, box, run>>
    BY <1>3 DEF DeliverRejected
  <2>7. QED
    BY <2>1, <2>4, <2>5, <2>6, CountedKeeps, FrameMoves
<1>4. CASE FanOutDone
  <2>1. rc' \in Results
    <3>1. Targets \in Seq(Actors) /\ frame.failed \in Nat
      BY <1>4, DeliveryAssumption DEF FanOutDone, DeliveryInv, FrameSound, Frame, Targets
    <3>2. QED
      BY <1>4, <3>1 DEF FanOutDone, DeliveryInv, Results
  <2>2. frame \in Frame /\ frame' = [frame EXCEPT !.pc = "dispose"]
    BY <1>4, FrameFacts DEF FanOutDone
  <2>3. frame'.pc = "dispose" /\ frame'.handle = frame.handle /\ frame'.msg = frame.msg /\ frame' \in Frame
    BY <2>2 DEF Frame
  <2>4. FrameSound(frame')
    BY <2>3 DEF FrameSound
  <2>5. QED
    BY <1>4, <2>1, <2>3, <2>4, FrameMoves DEF FanOutDone
<1>5. QED
  BY <1>1, <1>2, <1>3, <1>4

LEMMA InvDisposeBuilt ==
  ASSUME DeliveryInv, DisposeBuilt
  PROVE  DeliveryInv'
<1>1. /\ frame \in Frame /\ frame.msg \in Message \cup {NoMsg} /\ PoolSound(pool)
      /\ CurrentIn(pool, frame.msg)
  BY FrameFacts, PresentCurrent DEF DeliveryInv
<1>2. /\ pool' = PoolAfterDispose(pool, frame.msg) /\ UNCHANGED <<box, run, rc>>
      /\ stale' = (stale \/ StaleDispose(pool, frame.msg))
      /\ frame' = [frame EXCEPT !.pc = "release", !.msg = NoMsg]
  BY DEF DisposeBuilt
<1>3. /\ PoolSound(pool') /\ Keeps(pool, pool') /\ ~StaleDispose(pool, frame.msg)
      /\ \A t \in Slots : pool'[t].refcount = pool[t].refcount - Share(Carries(frame.msg, t))
  BY <1>1, <1>2, DisposeFacts
<1>4. /\ frame'.pc = "release" /\ frame'.msg = NoMsg /\ frame'.handle = frame.handle
      /\ frame' \in Frame
  BY <1>1, <1>2 DEF Frame
<1>5. FrameSound(frame')
  BY <1>4 DEF FrameSound
<1>6. \A t \in Slots : pool'[t].refcount =
         pool[t].refcount - Outside(frame, run, t) + Outside(frame', run', t)
  <2>1. \A t \in Slots : pool[t].refcount \in Nat
    BY <1>1 DEF PoolSound, Slot
  <2>2. \A t \in Slots : Share(Carries(NoMsg, t)) = 0 /\ Share(Carries(frame.msg, t)) \in Nat
                         /\ Share(Carries(run, t)) \in Nat /\ Share(frame.handle.slot = t) \in Nat
    BY DEF Share, Carries
  <2>3. QED
    BY <1>2, <1>3, <1>4, <2>1, <2>2 DEF Outside
<1>7. stale' = FALSE /\ run' \in Message \cup {NoMsg} /\ rc' \in Results
  BY <1>2, <1>3 DEF DeliveryInv
<1>8. /\ CurrentIn(pool, frame'.msg) /\ CurrentIn(pool, run')
      /\ frame'.handle # NoHandle => Live(pool, frame'.handle)
  BY <1>2, <1>4, PresentCurrent DEF DeliveryInv
<1>9. QED
  BY <1>2, <1>3, <1>5, <1>6, <1>7, <1>8, BoxesStay

LEMMA InvReleaseHandle ==
  ASSUME DeliveryInv, ReleaseHandle
  PROVE  DeliveryInv'
<1> DEFINE h == frame.handle
<1>1. /\ PoolSound(pool) /\ frame.msg = NoMsg /\ h \in Handle \cup {NoHandle}
      /\ h # NoHandle => Live(pool, h)
  BY FrameFacts, PresentCurrent DEF ReleaseHandle, DeliveryInv, FrameSound
<1>2. /\ frame' = IdleFrame /\ frame'.handle = NoHandle /\ frame'.msg = NoMsg
      /\ UNCHANGED <<box, run, rc>>
  BY DEF ReleaseHandle, IdleFrame
<1>3. FrameSound(frame')
  BY <1>2 DEF IdleFrame, FrameSound, Frame, Policies
<1>4. stale' = FALSE
  BY <1>1 DEF ReleaseHandle, DeliveryInv
<1>5. /\ PoolSound(pool') /\ Keeps(pool, pool')
      /\ \A t \in Slots : pool'[t].refcount = pool[t].refcount - Share(h.slot = t)
  <2>1. CASE h # NoHandle
    <3>1. pool' = Released(pool, h) /\ h.slot \in Slots /\ pool[h.slot].refcount > 0
      BY <1>1, <2>1 DEF ReleaseHandle, Live, Handle
    <3>2. QED
      BY <1>1, <3>1, ReleasedFacts
  <2>2. CASE h = NoHandle
    <3>1. pool' = pool
      BY <2>2 DEF ReleaseHandle
    <3>2. \A t \in Slots : Share(h.slot = t) = 0 /\ pool[t].refcount \in Nat
      BY <1>1, <2>2 DEF Share, NoHandle, NoSlot, Slots, PoolSound, Slot
    <3>3. QED
      BY <1>1, <3>1, <3>2 DEF Keeps
  <2>3. QED
    BY <2>1, <2>2
<1>6. \A t \in Slots : pool'[t].refcount =
         pool[t].refcount - Outside(frame, run, t) + Outside(frame', run', t)
  <2>1. \A t \in Slots : pool[t].refcount \in Nat
    BY <1>1 DEF PoolSound, Slot
  <2>2. \A t \in Slots : Share(Carries(NoMsg, t)) = 0 /\ Share(Carries(run, t)) \in Nat
                         /\ Share(h.slot = t) \in Nat /\ Share(NoHandle.slot = t) = 0
    BY DEF Share, Carries, NoHandle, NoSlot, Slots
  <2>3. QED
    BY <1>1, <1>2, <1>5, <2>1, <2>2 DEF Outside
<1>7. /\ run' \in Message \cup {NoMsg} /\ rc' \in Results
      /\ CurrentIn(pool, frame'.msg) /\ CurrentIn(pool, run')
  BY <1>2, PresentCurrent DEF DeliveryInv
<1>8. QED
  BY <1>2, <1>3, <1>4, <1>5, <1>6, <1>7, BoxesStay

LEMMA InvHandlerDone ==
  ASSUME DeliveryInv, HandlerDone
  PROVE  DeliveryInv'
<1>1. /\ run \in Message \cup {NoMsg} /\ PoolSound(pool) /\ CurrentIn(pool, run)
  BY PresentCurrent DEF DeliveryInv
<1>2. /\ pool' = PoolAfterDispose(pool, run) /\ UNCHANGED <<box, frame, rc>>
      /\ stale' = (stale \/ StaleDispose(pool, run)) /\ run' = NoMsg
  BY DEF HandlerDone
<1>3. /\ PoolSound(pool') /\ Keeps(pool, pool') /\ ~StaleDispose(pool, run)
      /\ \A t \in Slots : pool'[t].refcount = pool[t].refcount - Share(Carries(run, t))
  BY <1>1, <1>2, DisposeFacts
<1>4. \A t \in Slots : pool'[t].refcount =
         pool[t].refcount - Outside(frame, run, t) + Outside(frame', run', t)
  <2>1. \A t \in Slots : pool[t].refcount \in Nat
    BY <1>1 DEF PoolSound, Slot
  <2>2. \A t \in Slots : Share(Carries(NoMsg, t)) = 0 /\ Share(Carries(frame.msg, t)) \in Nat
                         /\ Share(Carries(run, t)) \in Nat /\ Share(frame.handle.slot = t) \in Nat
    BY DEF Share, Carries
  <2>3. QED
    BY <1>2, <1>3, <2>1, <2>2 DEF Outside
<1>5. stale' = FALSE /\ FrameSound(frame') /\ rc' \in Results
  BY <1>2, <1>3 DEF DeliveryInv
<1>6. /\ CurrentIn(pool, frame'.msg) /\ CurrentIn(pool, run')
      /\ frame'.handle # NoHandle => Live(pool, frame'.handle)
  BY <1>2, PresentCurrent DEF DeliveryInv
<1>7. QED
  BY <1>2, <1>3, <1>4, <1>5, <1>6, BoxesStay

-----------------------------------------------------------------------------
(* The steps that write a mailbox. *)

\* The cell of a mailbox, its old content and the tally after a write to it.
LEMMA BoxFacts ==
  ASSUME DeliveryInv, NEW a \in Actors
  PROVE  /\ DOMAIN box = Actors /\ DOMAIN box[a].buf = 0..(CapOf[a] - 1)
         /\ KindOf[a] \in Kinds /\ CapOf[a] \in Caps /\ (KindOf[a] \notin RingKinds => CapOf[a] = 1)
         /\ Sound(box[a], KindOf[a], CapOf[a], Message)
  BY DeliveryAssumption DEF DeliveryInv, BoxesSound, Sound, Mailbox, Caps

LEMMA BoxesAfter ==
  ASSUME DeliveryInv, NEW a \in Actors, NEW nb, Sound(nb, KindOf[a], CapOf[a], Message),
         box' = [box EXCEPT ![a] = nb]
  PROVE  BoxesSound(box')
  BY DEF DeliveryInv, BoxesSound

\* The holders of a slot after a mailbox was replaced by one that differs in
\* a cell.
LEMMA TallyAfter ==
  ASSUME DeliveryInv, NEW a \in Actors, NEW c \in 0..(CapOf[a] - 1), NEW nb, NEW v,
         nb.buf = Written(box[a].buf, c, v), box' = Replaced(box, a, nb),
         NEW s, IsFiniteSet(Holding(box, s))
  PROVE  /\ IsFiniteSet(Holding(box', s))
         /\ Cardinality(Holding(box', s)) =
               Cardinality(Holding(box, s)) - Share(Carries(box[a].buf[c], s)) + Share(Carries(v, s))
<1>1. DOMAIN box = Actors /\ DOMAIN box[a].buf = 0..(CapOf[a] - 1)
  BY BoxFacts
<1>2. /\ IsFiniteSet(Holding(Replaced(box, a, nb), s))
      /\ Cardinality(Holding(Replaced(box, a, nb), s)) =
            Cardinality(Holding(box, s)) - Share(Carries(box[a].buf[c], s)) + Share(Carries(v, s))
  BY <1>1, CellWritten
<1>3. QED
  BY <1>2

\* The contents of the cells after such a write.
LEMMA ContentAfter ==
  ASSUME DeliveryInv, NEW a \in Actors, NEW c \in 0..(CapOf[a] - 1), NEW nb, NEW v,
         nb.buf = Written(box[a].buf, c, v), box' = [box EXCEPT ![a] = nb],
         NEW x \in Cells
  PROVE  Content(x)' = v \/ Content(x)' = Content(x)
<1>1. PICK d \in Actors : \E e \in 0..(CapOf[d] - 1) : x = <<d, e>>
  BY CellFacts
<1> PICK e \in 0..(CapOf[d] - 1) : x = <<d, e>>
  BY <1>1
<1>2. DOMAIN box = Actors /\ DOMAIN box[a].buf = 0..(CapOf[a] - 1)
  BY BoxFacts
<1>3. box'[d].buf[e] = v \/ box'[d].buf[e] = box[d].buf[e]
  BY <1>2 DEF Written
<1>4. QED
  BY <1>3 DEF Content

LEMMA InvPop ==
  ASSUME DeliveryInv, NEW a \in Actors, PopMessage(a)
  PROVE  DeliveryInv'
<1> DEFINE c == PopCell(box[a])
           m == Popped(box[a])
<1>1. /\ run = NoMsg /\ run' = m /\ box' = [box EXCEPT ![a] = Pop(box[a])] /\ box[a].count > 0
      /\ UNCHANGED <<pool, stale, frame, rc>>
  BY DEF PopMessage
<1>2. /\ Sound(Pop(box[a]), KindOf[a], CapOf[a], Message) /\ m \in Message
      /\ c \in 0..(CapOf[a] - 1) /\ Pop(box[a]).buf = Written(box[a].buf, c, NoMsg)
  BY <1>1, BoxFacts, PopSound, PopEmpties
<1>3. m = box[a].buf[c] /\ <<a, c>> \in Cells
  BY <1>2, CellFacts DEF Popped
<1>4. m = Content(<<a, c>>)
  BY <1>3 DEF Content
<1>5. BoxesSound(box')
  BY <1>1, <1>2, BoxesAfter
<1> HIDE DEF m, c
<1>6. Tally(pool', frame', run', box')
  <2>1. ASSUME NEW s \in Slots
        PROVE  /\ IsFiniteSet(Holding(box', s))
               /\ pool'[s].refcount = Outside(frame', run', s) + Cardinality(Holding(box', s))
    <3>1. /\ IsFiniteSet(Holding(box, s))
          /\ pool[s].refcount = Outside(frame, run, s) + Cardinality(Holding(box, s))
      BY DEF DeliveryInv, Tally
    <3>2. Cardinality(Holding(box, s)) \in Nat
      BY <3>1, FS_CardinalityType
    <3>3. /\ IsFiniteSet(Holding(box', s))
          /\ Cardinality(Holding(box', s)) =
                Cardinality(Holding(box, s)) - Share(Carries(m, s)) + Share(Carries(NoMsg, s))
      <4>1. box' = Replaced(box, a, Pop(box[a]))
        BY <1>1 DEF Replaced
      <4>2. QED
        BY <1>2, <1>3, <3>1, <4>1, TallyAfter
    <3>4. /\ Share(Carries(NoMsg, s)) = 0 /\ Share(Carries(m, s)) \in Nat
          /\ Share(Carries(frame.msg, s)) \in Nat /\ Share(frame.handle.slot = s) \in Nat
      BY DEF Share, Carries
    <3>5. QED
      BY <1>1, <3>1, <3>2, <3>3, <3>4 DEF Outside
  <2>2. QED
    BY <2>1 DEF Tally
<1>7. \A x \in Cells : CurrentIn(pool, Content(x)')
  <2>1. ASSUME NEW x \in Cells PROVE Content(x)' = NoMsg \/ Content(x)' = Content(x)
    BY <1>1, <1>2, ContentAfter
  <2>2. QED
    BY <2>1, PresentCurrent DEF DeliveryInv
<1>8. /\ PoolSound(pool) /\ PoolSound(pool') /\ Keeps(pool, pool') /\ FrameSound(frame')
      /\ rc' \in Results /\ stale' = FALSE /\ run' \in Message \cup {NoMsg}
  BY <1>1, <1>2 DEF DeliveryInv, Keeps
<1>9. /\ CurrentIn(pool, frame'.msg) /\ CurrentIn(pool, run')
      /\ frame'.handle # NoHandle => Live(pool, frame'.handle)
  BY <1>1, <1>3, <1>4, PresentCurrent DEF DeliveryInv
<1>10. NoDangling'
  BY <1>5, <1>6, <1>7, <1>8, <1>9, NothingDangles
<1>11. QED
  BY <1>5, <1>6, <1>8, <1>10 DEF DeliveryInv

\* Accepting a delivery: the written cell takes a share of its own, and the
\* envelope that made room gives its share back.
LEMMA InvDeliver ==
  ASSUME DeliveryInv, DeliverAccepted
  PROVE  DeliveryInv'
<1> DEFINE a == Targets[frame.next]
           m == frame.msg
           r == PushOf(a)
           p == IF r.counter = "coalesced" THEN pool ELSE PoolAfterRetain(m)
           wrote == r.counter # "coalesced"
<1>1. a \in Actors /\ frame.pc = "publish"
  BY TargetIsActor DEF DeliverAccepted
<1>2. /\ r.rc = "OK" /\ box' = [box EXCEPT ![a] = r.mb] /\ pool' = PoolAfterDispose(p, r.evicted)
      /\ stale' = (stale \/ StaleDispose(p, r.evicted)) /\ UNCHANGED <<run, rc>>
  BY DEF DeliverAccepted
<1>3. FrameSound(frame') /\ frame'.handle = frame.handle /\ frame'.msg = m
  BY <1>1, CountedKeeps DEF DeliverAccepted
<1>4. /\ PoolSound(pool) /\ BoxesSound(box) /\ m \in Message /\ CurrentIn(pool, m) /\ CurrentIn(pool, run)
      /\ m.payload = "lease" <=> m.slot # NoSlot
      /\ \A x \in Cells : CurrentIn(pool, Content(x))
      /\ \A t \in Slots : pool[t].refcount \in Nat
  BY <1>1, PresentCurrent DEF DeliveryInv, FrameSound, PoolSound, Slot
<1>5. /\ PushTouches(box[a], r, m, RetainRc(m), CapOf[a]) /\ (~wrote => m.payload = "none")
      /\ Sound(r.mb, KindOf[a], CapOf[a], Message)
  BY <1>1, PushAnswers
<1>6. BoxesSound(box')
  BY <1>1, <1>2, <1>5, BoxesAfter
<1> HIDE DEF r
<1>7. /\ PoolSound(p) /\ Keeps(pool, p) /\ \A t \in Slots : p[t].refcount >= pool[t].refcount
      /\ wrote => \A t \in Slots : p[t].refcount = pool[t].refcount + Share(Carries(m, t))
  <2>1. CASE ~wrote \/ m.slot = NoSlot
    <3>1. p = pool
      BY <2>1 DEF PoolAfterRetain
    <3>2. ~wrote \/ \A t \in Slots : Share(Carries(m, t)) = 0
      BY <2>1 DEF Share, Carries, Slots, NoSlot
    <3>3. QED
      BY <1>4, <3>1, <3>2 DEF Keeps
  <2>2. CASE wrote /\ m.slot # NoSlot
    <3> DEFINE h == HandleOf(pool, m.slot)
    <3>1. p = Retained(pool, h) /\ h.slot = m.slot /\ m.slot \in Slots /\ m # NoMsg
      BY <1>4, <2>2, NoMsgAssumption DEF PoolAfterRetain, HandleOf, Message
    <3>2. pool[h.slot].refcount > 0
      BY <1>4, <2>2, <3>1 DEF CurrentIn, PoolSound
    <3> HIDE DEF p, h
    <3>3. /\ PoolSound(p) /\ Keeps(pool, p)
          /\ \A t \in Slots : p[t].refcount = pool[t].refcount + Share(h.slot = t)
      BY <1>4, <3>1, <3>2, RetainedFacts
    <3>4. \A t \in Slots : Share(h.slot = t) = Share(Carries(m, t)) /\ Share(h.slot = t) \in Nat
      BY <3>1 DEF Share, Carries
    <3>5. QED
      BY <1>4, <3>3, <3>4
  <2>3. QED
    BY <2>1, <2>2
<1> HIDE DEF p
\* The evicted envelope was queued until now, so it is still current.
<1>8. r.evicted \in Message \cup {NoMsg} /\ CurrentIn(pool, r.evicted)
  <2>1. CASE ~wrote
    BY <1>5, <2>1, PresentCurrent DEF PushTouches, DeliveryInv
  <2>2. CASE wrote
    <3>1. PICK c \in 0..(CapOf[a] - 1) : r.evicted = box[a].buf[c]
      BY <1>2, <1>5, <2>2 DEF PushTouches
    <3>2. box[a].buf[c] \in Message \cup {NoMsg}
      BY <1>1, <1>4 DEF BoxesSound, Sound, Mailbox
    <3>3. <<a, c>> \in Cells /\ Content(<<a, c>>) = box[a].buf[c]
      BY <1>1, CellFacts DEF Content
    <3>4. QED
      BY <1>4, <3>1, <3>2, <3>3
  <2>3. QED
    BY <2>1, <2>2
<1>9. CurrentIn(p, r.evicted)
  <2>1. ASSUME r.evicted # NoMsg, r.evicted.slot # NoSlot PROVE p[r.evicted.slot].refcount > 0
    <3>1. r.evicted.slot \in Slots
      BY <1>8, <2>1 DEF Message
    <3>2. pool[r.evicted.slot].refcount > 0
      BY <1>4, <1>8, <2>1, <3>1 DEF CurrentIn, PoolSound
    <3>3. p[r.evicted.slot].refcount \in Nat
      BY <1>7, <3>1 DEF PoolSound, Slot
    <3>4. QED
      BY <1>4, <1>7, <3>1, <3>2, <3>3
  <2>2. QED
    BY <1>4, <1>7, <1>8, <2>1, StillCurrent
<1>10. /\ PoolSound(pool') /\ Keeps(p, pool') /\ ~StaleDispose(p, r.evicted)
       /\ \A t \in Slots : pool'[t].refcount = p[t].refcount - Share(Carries(r.evicted, t))
  BY <1>2, <1>7, <1>8, <1>9, DisposeFacts
<1>11. Keeps(pool, pool')
  <2>1. \A t \in Slots : pool[t].refcount > 0 => p[t].refcount > 0
    <3>1. \A t \in Slots : p[t].refcount \in Nat
      BY <1>7 DEF PoolSound, Slot
    <3>2. QED
      BY <1>4, <1>7, <3>1
  <2>2. QED
    BY <1>7, <1>10, <2>1 DEF Keeps
<1>12. Tally(pool', frame', run', box')
  <2>1. ASSUME NEW s \in Slots
        PROVE  /\ IsFiniteSet(Holding(box', s))
               /\ pool'[s].refcount = Outside(frame', run', s) + Cardinality(Holding(box', s))
    <3>1. /\ IsFiniteSet(Holding(box, s))
          /\ pool[s].refcount = Outside(frame, run, s) + Cardinality(Holding(box, s))
      BY DEF DeliveryInv, Tally
    <3>2. Cardinality(Holding(box, s)) \in Nat /\ Outside(frame, run, s) \in Nat
      BY <3>1, FS_CardinalityType DEF Outside, Share
    <3>3. Outside(frame', run', s) = Outside(frame, run, s)
      BY <1>2, <1>3 DEF Outside
    <3>4. CASE ~wrote
      <4>1. r.mb = box[a] /\ r.evicted = NoMsg /\ p = pool
        BY <1>5, <3>4 DEF PushTouches, p
      <4>2. \A x \in Cells : box'[x[1]].buf[x[2]] = box[x[1]].buf[x[2]]
        <5>1. \A d \in Actors : box'[d] = box[d]
          BY <1>1, <1>2, <4>1, BoxFacts
        <5>2. QED
          BY <5>1, CellFacts
      <4>3. Holding(box', s) = Holding(box, s)
        BY <4>2 DEF Holding
      <4>4. Share(Carries(r.evicted, s)) = 0
        BY <4>1 DEF Share, Carries
      <4>5. QED
        BY <1>4, <1>10, <3>1, <3>2, <3>3, <4>1, <4>3, <4>4
    <3>5. CASE wrote
      <4>1. PICK c \in 0..(CapOf[a] - 1) :
               r.evicted = box[a].buf[c] /\ r.mb.buf = Written(box[a].buf, c, m)
        BY <1>2, <1>5, <3>5 DEF PushTouches
      <4>2. /\ IsFiniteSet(Holding(box', s))
            /\ Cardinality(Holding(box', s)) =
                  Cardinality(Holding(box, s)) - Share(Carries(r.evicted, s)) + Share(Carries(m, s))
        <5>1. box' = Replaced(box, a, r.mb)
          BY <1>2 DEF Replaced
        <5>2. QED
          BY <1>1, <3>1, <4>1, <5>1, TallyAfter
      <4>3. Share(Carries(r.evicted, s)) \in Nat /\ Share(Carries(m, s)) \in Nat
        BY DEF Share
      <4>4. QED
        BY <1>4, <1>7, <1>10, <3>1, <3>2, <3>3, <3>5, <4>2, <4>3
    <3>6. QED
      BY <3>4, <3>5
  <2>2. QED
    BY <2>1 DEF Tally
<1>13. \A x \in Cells : CurrentIn(pool, Content(x)')
  <2>1. CASE ~wrote
    <3>1. r.mb = box[a]
      BY <1>5, <2>1 DEF PushTouches
    <3>2. \A d \in Actors : box'[d] = box[d]
      BY <1>1, <1>2, <3>1, BoxFacts
    <3>3. \A x \in Cells : Content(x)' = Content(x)
      BY <3>2, CellFacts DEF Content
    <3>4. QED
      BY <1>4, <3>3
  <2>2. CASE wrote
    <3>1. PICK c \in 0..(CapOf[a] - 1) : r.mb.buf = Written(box[a].buf, c, m)
      BY <1>2, <1>5, <2>2 DEF PushTouches
    <3>2. \A x \in Cells : Content(x)' = m \/ Content(x)' = Content(x)
      BY <1>1, <1>2, <3>1, ContentAfter
    <3>3. QED
      BY <1>4, <3>2
  <2>3. QED
    BY <2>1, <2>2
<1>14. /\ run' \in Message \cup {NoMsg} /\ rc' \in Results /\ stale' = FALSE
       /\ CurrentIn(pool, frame'.msg) /\ CurrentIn(pool, run')
       /\ frame'.handle # NoHandle => Live(pool, frame'.handle)
  BY <1>2, <1>3, <1>4, <1>10, PresentCurrent DEF DeliveryInv
<1>15. NoDangling'
  BY <1>3, <1>4, <1>6, <1>10, <1>11, <1>12, <1>13, <1>14, NothingDangles
<1>16. QED
  BY <1>3, <1>6, <1>10, <1>12, <1>14, <1>15 DEF DeliveryInv

-----------------------------------------------------------------------------
(* The theorems. *)

LEMMA InvNext == DeliveryInv /\ [DeliveryNext]_deliveryVars => DeliveryInv'
<1> SUFFICES ASSUME DeliveryInv, [DeliveryNext]_deliveryVars PROVE DeliveryInv'
  OBVIOUS
<1>1. CASE \E e \in LeaseEvents, size \in 0..1, policy \in Policies : AcquireLease(e, size, policy)
  BY <1>1, InvAcquire
<1>2. CASE AcquireFails
  <2>1. UNCHANGED <<pool, stale, box, frame, run>> /\ rc' \in Results /\ FrameSound(frame')
    BY <1>2 DEF AcquireFails, Results, DeliveryInv
  <2>2. QED
    BY <2>1, FrameMoves
<1>3. CASE \E e \in Events \ LeaseEvents, payload \in {"none", "inline"}, policy \in Policies :
              BuildPlain(e, payload, policy)
  BY <1>3, InvBuildPlain
<1>4. CASE AttachLease
  BY <1>4, InvAttach
<1>5. CASE SkipDisabled \/ TargetMissing \/ DeliverRejected \/ FanOutDone
  BY <1>5, InvFanOut
<1>6. CASE DeliverAccepted
  BY <1>6, InvDeliver
<1>7. CASE DisposeBuilt
  BY <1>7, InvDisposeBuilt
<1>8. CASE ReleaseHandle
  BY <1>8, InvReleaseHandle
<1>9. CASE \E b \in Actors : PopMessage(b)
  BY <1>9, InvPop
<1>10. CASE HandlerDone
  BY <1>10, InvHandlerDone
<1>11. CASE UNCHANGED deliveryVars
  <2>1. UNCHANGED <<pool, stale, box, frame, run>> /\ rc' \in Results /\ FrameSound(frame')
    BY <1>11 DEF deliveryVars, DeliveryInv
  <2>2. QED
    BY <2>1, FrameMoves
<1>12. QED
  BY <1>1, <1>2, <1>3, <1>4, <1>5, <1>6, <1>7, <1>8, <1>9, <1>10, <1>11 DEF DeliveryNext

\* The inductive invariant: the counts agree with the references, and every
\* reference with the acquisition it was taken in.
THEOREM DeliveryInvAlways == DeliverySpec => []DeliveryInv
<1>1. QED
  BY InvInit, InvNext, PTL DEF DeliverySpec

\* Every part of the delivery keeps its type.
THEOREM DeliveryTypeOKAlways == DeliverySpec => []DeliveryTypeOK
<1>1. DeliveryInv => DeliveryTypeOK
  BY DEF DeliveryInv, DeliveryTypeOK, PoolSound, BoxesSound, Sound, FrameSound
<1>2. QED
  BY <1>1, DeliveryInvAlways, PTL

\* No interleaving of fan-out, rejection, eviction and nested publication
\* leaks a lease of ev_lease_pool.c or frees it under a reader: a slot's
\* refcount is the number of references to it.
THEOREM SharesExactAlways == DeliverySpec => []SharesExact
<1>1. DeliveryInv => SharesExact
  <2> SUFFICES ASSUME DeliveryInv, NEW s \in Slots
               PROVE  /\ pool[s].refcount = Shares(s)
                      /\ pool[s].inUse <=> Shares(s) > 0
    BY DEF SharesExact
  <2>1. CellsHolding(s) = Holding(box, s)
    BY DEF CellsHolding, Holding, Content
  <2>2. Shares(s) = Outside(frame, run, s) + Cardinality(Holding(box, s))
    BY <2>1 DEF Shares, Outside
  <2>3. QED
    BY <2>2 DEF DeliveryInv, Tally, PoolSound
<1>2. QED
  BY <1>1, DeliveryInvAlways, PTL

\* No envelope that is built, queued or handled refers to a slot that was
\* recycled for another payload, although the slot callbacks of
\* ev_lease_pool.c look at the slot's present generation only.
THEOREM NoDanglingAlways == DeliverySpec => []NoDangling
<1>1. DeliveryInv => NoDangling
  BY DEF DeliveryInv
<1>2. QED
  BY <1>1, DeliveryInvAlways, PTL

\* The application's own traffic never makes the pool count a stale handle.
THEOREM NeverStaleAlways == DeliverySpec => []NeverStale
<1>1. DeliveryInv => NeverStale
  BY DEF DeliveryInv, NeverStale
<1>2. QED
  BY <1>1, DeliveryInvAlways, PTL
=============================================================================
