-------------------------- MODULE Scheduler_proofs --------------------------
(***************************************************************************)
(* Proofs about the two pumps, for every number of actors and domains, all *)
(* quanta, capacities and feeds.  Both levels implement FairTurns, and     *)
(* what a run reports is what happened.                                    *)
(*                                                                         *)
(* A scan remembers where it started and how far it came; the cursor moves *)
(* on its own.  That the two agree (Scanning) is what makes the least      *)
(* offset the member nearest to the cursor.  Nested says which frame may   *)
(* be on top of which, Accounted that budgets, counts and flags of the     *)
(* frames add up.                                                          *)
(***************************************************************************)
EXTENDS Scheduler, Extrema

-----------------------------------------------------------------------------
(* Scans. *)

\* The member at an offset from the start of a scan.
At(start, offset, n) == (start + offset) % n

LEMMA AtIs ==
  ASSUME NEW n \in Nat \ {0}, NEW start \in 0..(n - 1), NEW offset \in 0..n
  PROVE  /\ At(start, offset, n) = IF start + offset < n THEN start + offset ELSE start + offset - n
         /\ At(start, offset, n) \in 0..(n - 1)
<1>1. CASE start + offset < n
  BY <1>1 DEF At
<1>2. CASE ~(start + offset < n)
  <2>1. (start + offset) % n = start + offset - n
    BY <1>2
  <2>2. QED
    BY <1>2, <2>1 DEF At
<1>3. QED
  BY <1>1, <1>2

\* How many members lie between the cursor and m (FairTurns!Distance).
Ahead(m, c, n) == IF m >= c THEN m - c ELSE m - c + n

\* Every member is at some offset of a scan.
LEMMA OffsetOf ==
  ASSUME NEW n \in Nat \ {0}, NEW start \in 0..(n - 1), NEW m \in 0..(n - 1)
  PROVE  Ahead(m, start, n) \in 0..(n - 1) /\ At(start, Ahead(m, start, n), n) = m
<1> DEFINE o == Ahead(m, start, n)
<1>1. o \in 0..(n - 1) /\ o = IF m >= start THEN m - start ELSE m - start + n
  BY DEF Ahead
<1> HIDE DEF o
<1>2. At(start, o, n) = IF start + o < n THEN start + o ELSE start + o - n
  BY <1>1, AtIs
<1>3. QED
  BY <1>1, <1>2 DEF o

\* The first offset at which a scan finds work is that of the waiting member
\* nearest to where the scan stands.
LEMMA FirstFound ==
  ASSUME NEW n \in Nat \ {0}, NEW start \in 0..(n - 1), NEW offset \in 0..n, NEW W,
         W \subseteq 0..(n - 1), Found(start, offset, n, W) # {}
  PROVE  LET o == Min(Found(start, offset, n, W))
             m == At(start, o, n)
         IN  /\ o \in offset..(n - 1) /\ m \in W
             /\ \A k \in W : Ahead(m, At(start, offset, n), n) <= Ahead(k, At(start, offset, n), n)
<1> DEFINE F == Found(start, offset, n, W)
           o == Min(F)
           m == At(start, o, n)
           c == At(start, offset, n)
<1>1. F \subseteq offset..(n - 1) /\ \A i \in offset..(n - 1) : i \in F <=> At(start, i, n) \in W
  BY DEF Found, At
<1>2. o \in F /\ \A i \in F : o <= i
  BY <1>1, MinOf
<1>3. o \in offset..(n - 1) /\ m \in W
  BY <1>1, <1>2
<1>4. ASSUME NEW k \in W PROVE Ahead(m, c, n) <= Ahead(k, c, n)
  <2> DEFINE i == Ahead(k, start, n)
  <2>1. i \in 0..(n - 1) /\ At(start, i, n) = k
    BY OffsetOf
  <2> HIDE DEF F, o, i
  <2>2. i >= offset => o <= i
    <3>1. i >= offset => i \in F
      BY <1>1, <2>1
    <3>2. QED
      BY <1>2, <3>1
  <2>3. /\ k = IF start + i < n THEN start + i ELSE start + i - n
        /\ m = IF start + o < n THEN start + o ELSE start + o - n
        /\ c = IF start + offset < n THEN start + offset ELSE start + offset - n
    <3>1. i \in 0..n /\ o \in 0..n /\ m = At(start, o, n)
      BY <1>3, <2>1
    <3>2. \A x \in 0..n :
             At(start, x, n) = IF start + x < n THEN start + x ELSE start + x - n
      BY AtIs
    <3> HIDE DEF m
    <3>3. QED
      BY <2>1, <3>1, <3>2
  <2> HIDE DEF m, c
  <2>4. QED
    BY <1>3, <2>1, <2>2, <2>3 DEF Ahead
<1>5. QED
  BY <1>3, <1>4

\* A whole scan that finds nothing shows that nobody waits.
LEMMA NoneFound ==
  ASSUME NEW n \in Nat \ {0}, NEW start \in 0..(n - 1), NEW W,
         W \subseteq 0..(n - 1), Found(start, 0, n, W) = {}
  PROVE  W = {}
<1> SUFFICES ASSUME NEW m \in W PROVE FALSE
  OBVIOUS
<1>1. Ahead(m, start, n) \in 0..(n - 1) /\ At(start, Ahead(m, start, n), n) = m
  BY OffsetOf
<1>2. QED
  BY <1>1 DEF Found, At

\* Behind the member that was found stands the cursor after its turn.
LEMMA AdvanceIsNext ==
  ASSUME NEW n \in Nat \ {0}, NEW start \in 0..(n - 1), NEW offset \in 1..n
  PROVE  Advance(At(start, offset - 1, n), n) = At(start, offset, n)
<1> DEFINE p == offset - 1
<1>1. p \in 0..n /\ p = offset - 1 /\ offset \in 0..n
  OBVIOUS
<1> HIDE DEF p
<1>2. /\ At(start, p, n) = IF start + p < n THEN start + p ELSE start + p - n
      /\ At(start, offset, n) = IF start + offset < n THEN start + offset ELSE start + offset - n
  <2>1. \A x \in 0..n :
           At(start, x, n) = IF start + x < n THEN start + x ELSE start + x - n
    BY AtIs
  <2>2. QED
    BY <1>1, <2>1
<1>3. QED
  BY <1>1, <1>2 DEF Advance, p

\* The sum of the quanta of a domain is a number.
LEMMA DomainQuantumType ==
  ASSUME NEW d
  PROVE  DomainQuantum(d) \in Nat
<1> DEFINE A == {b \in Actors : DomainOf[b] = d}
           f == [a \in A |-> {a} \X (1..Quantum[a])]
           T == {{a} \X (1..Quantum[a]) : a \in A}
<1>1. IsFiniteSet(A)
  <2>1. 0 \in Int /\ NActors - 1 \in Int
    BY SchedulerAssumption
  <2>2. IsFiniteSet(Actors)
    BY <2>1, FS_Interval DEF Actors
  <2>3. QED
    BY <2>2, FS_Subset
<1>2. f \in Surjection(A, T)
  BY DEF Surjection
<1>3. IsFiniteSet(T)
  <2> HIDE DEF f, A, T
  <2>1. QED
    BY <1>1, <1>2, FS_Surjection
<1>4. ASSUME NEW X \in T PROVE IsFiniteSet(X)
  <2>1. PICK a \in A : X = {a} \X (1..Quantum[a])
    OBVIOUS
  <2>2. 1 \in Int /\ Quantum[a] \in Int
    BY SchedulerAssumption
  <2>3. IsFiniteSet(1..Quantum[a])
    BY <2>2, FS_Interval
  <2>4. IsFiniteSet({a})
    BY FS_Singleton
  <2>5. QED
    BY <2>1, <2>3, <2>4, FS_Product
<1>5. IsFiniteSet(UNION T)
  <2> HIDE DEF T
  <2>1. QED
    BY <1>3, <1>4, FS_UNION
<1>6. QED
  BY <1>5, FS_CardinalityType DEF DomainQuantum

-----------------------------------------------------------------------------
(* The inductive invariant. *)

\* A frame without a callee below it is empty; the one above waits for it.
Nested ==
    /\ act.actor = NoActor => act = NoPump
    /\ dom.domain = NoDomain => dom = NoRun
    /\ ~sys.on => sys = NoCall
    /\ act.actor # NoActor =>
          /\ dom.domain # NoDomain /\ dom.rc = "busy" /\ act.actor \in ActorsOf(dom.domain)
          /\ act.left <= dom.left
    /\ dom.domain # NoDomain => sys.on /\ sys.left > 0

\* Between two turns the cursor is where the scan stands; during one the
\* member that is served is the one the scan has just looked at.
ActorScanning ==
    dom.domain # NoDomain /\ dom.rc = "busy" =>
        IF act.actor = NoActor THEN cursor[dom.domain] = At(dom.start, dom.offset, NActors)
        ELSE dom.offset > 0 /\ act.actor = At(dom.start, dom.offset - 1, NActors)

DomainScanning ==
    sys.on =>
        IF dom.domain = NoDomain THEN next = At(sys.start, sys.offset, NDomains)
        ELSE sys.offset > 0 /\ dom.domain = At(sys.start, sys.offset - 1, NDomains)

\* The budgets of a domain's run, its flags, and what has not been reported yet.
DomainAccounted ==
    dom.domain # NoDomain =>
        /\ dom.rc # "EMPTY"
        /\ dom.rc = "busy" =>
              /\ dom.processed + dom.left = dom.budget
              /\ dom.handled = dom.processed + act.done
              /\ dom.failed <=> act.rc \notin {"busy", "OK"}
              /\ act.rc # "EMPTY"
              /\ act.actor = NoActor =>
                    /\ ~dom.progressed => dom.offset = 0
                    /\ ~dom.made => /\ ~dom.progressed /\ dom.left > 0
                                    /\ WaitingIn(dom.domain) # {}

SystemAccounted ==
    sys.on =>
        /\ sys.turns + sys.left = sys.budget
        /\ dom.domain = NoDomain /\ ~sys.progressed => sys.offset = 0

FrameInv == TypeOK /\ Nested /\ ActorScanning /\ DomainScanning

AnswerInv == FrameInv /\ DomainAccounted /\ SystemAccounted /\ AnswersTruthful

-----------------------------------------------------------------------------
(* The frames' types. *)

LEMMA Sizes ==
  /\ NActors \in Nat \ {0} /\ NDomains \in Nat \ {0}
  /\ Actors = 0..(NActors - 1) /\ Domains = 0..(NDomains - 1)
  /\ NoActor \notin Actors /\ NoDomain \notin Domains
  /\ 0 \in Actors /\ 0 \in Domains /\ NoActor = NActors /\ NoDomain = NDomains
  BY SchedulerAssumption DEF Actors, Domains, NoActor, NoDomain

LEMMA WaitingTypes ==
  /\ WaitingDomains \subseteq Domains
  /\ \A d : WaitingIn(d) \subseteq ActorsOf(d) /\ ActorsOf(d) \subseteq Actors
  BY SchedulerAssumption DEF WaitingDomains, WaitingIn, ActorsOf

\* What the system pump's scan finds.
LEMMA DomainFound ==
  ASSUME TypeOK, DomainOffsets # {}
  PROVE  LET o == Min(DomainOffsets)
             d == (sys.start + o) % NDomains
         IN  /\ o \in 0..(NDomains - 1) /\ d \in WaitingDomains /\ d \in Domains
             /\ d = At(sys.start, o, NDomains)
             /\ \A k \in WaitingDomains :
                   Ahead(d, At(sys.start, sys.offset, NDomains), NDomains)
                     <= Ahead(k, At(sys.start, sys.offset, NDomains), NDomains)
<1> DEFINE o == Min(DomainOffsets)
           d == (sys.start + o) % NDomains
<1>1. /\ NDomains \in Nat \ {0} /\ sys.start \in 0..(NDomains - 1) /\ sys.offset \in 0..NDomains
      /\ WaitingDomains \subseteq 0..(NDomains - 1) /\ Domains = 0..(NDomains - 1)
  BY Sizes, WaitingTypes DEF TypeOK, RunFrame, CallFrame
<1>2. /\ o \in sys.offset..(NDomains - 1) /\ At(sys.start, o, NDomains) \in WaitingDomains
      /\ \A k \in WaitingDomains :
            Ahead(At(sys.start, o, NDomains), At(sys.start, sys.offset, NDomains), NDomains)
              <= Ahead(k, At(sys.start, sys.offset, NDomains), NDomains)
  BY <1>1, FirstFound DEF DomainOffsets
<1>3. d = At(sys.start, o, NDomains) /\ o \in 0..(NDomains - 1)
  BY <1>1, <1>2 DEF At
<1> HIDE DEF o, d
<1>4. QED
  BY <1>1, <1>2, <1>3 DEF o, d

\* What the domain pump's scan finds.
LEMMA ActorFound ==
  ASSUME TypeOK, ActorOffsets # {}
  PROVE  LET o == Min(ActorOffsets)
             a == (dom.start + o) % NActors
         IN  /\ o \in 0..(NActors - 1) /\ a \in WaitingIn(dom.domain) /\ a \in Actors
             /\ a = At(dom.start, o, NActors)
             /\ \A k \in WaitingIn(dom.domain) :
                   Ahead(a, At(dom.start, dom.offset, NActors), NActors)
                     <= Ahead(k, At(dom.start, dom.offset, NActors), NActors)
<1> DEFINE o == Min(ActorOffsets)
           a == (dom.start + o) % NActors
<1>1. /\ NActors \in Nat \ {0} /\ dom.start \in 0..(NActors - 1) /\ dom.offset \in 0..NActors
      /\ WaitingIn(dom.domain) \subseteq 0..(NActors - 1) /\ Actors = 0..(NActors - 1)
  BY Sizes, WaitingTypes DEF TypeOK, RunFrame, CallFrame
<1>2. /\ o \in dom.offset..(NActors - 1) /\ At(dom.start, o, NActors) \in WaitingIn(dom.domain)
      /\ \A k \in WaitingIn(dom.domain) :
            Ahead(At(dom.start, o, NActors), At(dom.start, dom.offset, NActors), NActors)
              <= Ahead(k, At(dom.start, dom.offset, NActors), NActors)
  BY <1>1, FirstFound DEF ActorOffsets
<1>3. a = At(dom.start, o, NActors) /\ o \in 0..(NActors - 1)
  BY <1>1, <1>2 DEF At
<1> HIDE DEF o, a
<1>4. QED
  BY <1>1, <1>2, <1>3 DEF o, a

\* The quantum an actor is granted, its own or what is left of the run's.
LEMMA GrantedQuantum ==
  ASSUME TypeOK, NEW a \in Actors
  PROVE  LET q == Min({Quantum[a], dom.left}) IN q \in Nat /\ q <= dom.left
<1> DEFINE S == {Quantum[a], dom.left}
           hi == Quantum[a] + dom.left
<1>1. Quantum[a] \in Nat /\ dom.left \in Nat
  BY SchedulerAssumption DEF TypeOK, RunFrame
<1>2. 0 \in Int /\ hi \in Int /\ S \subseteq 0..hi /\ S # {}
  BY <1>1
<1>3. Min(S) \in S /\ \A y \in S : Min(S) <= y
  <2> HIDE DEF S, hi
  <2>1. QED
    BY <1>2, MinOf
<1>4. QED
  BY <1>1, <1>3

LEMMA AdvanceType ==
  /\ \A a \in Actors : Advance(a, NActors) \in Actors
  /\ \A d \in Domains : Advance(d, NDomains) \in Domains
  BY Sizes DEF Advance

LEMMA NoAnswerType == NoAnswer \in Answer
  BY DEF NoAnswer, Answer, Codes

\* What a handler leaves pending: one less for its actor, which waited, and
\* at most one more for those that have room.
LEMMA Handled ==
  ASSUME TypeOK, Nested, NEW rc \in Outcomes, NEW fed \in SUBSET Bound, HandleOne(rc, fed)
  PROVE  /\ pend' \in [Actors -> Nat] /\ \A b \in Actors : pend'[b] <= CapOf[b]
         /\ act.actor \in Actors /\ act.actor # NoActor /\ act.rc = "busy"
         /\ \A b \in Actors : b # act.actor => pend[b] <= pend'[b]
<1>1. act.actor \in Actors /\ act.actor # NoActor /\ act.rc = "busy" /\ pend[act.actor] > 0
  BY Sizes DEF HandleOne, ActorRuns, TypeOK, PumpFrame
<1> DEFINE popped == [pend EXCEPT ![act.actor] = @ - 1]
<1>2. /\ popped \in [Actors -> Nat]
      /\ \A b \in Actors : popped[b] <= CapOf[b]
      /\ \A b \in Actors : b # act.actor => popped[b] = pend[b]
  <2>1. /\ pend \in [Actors -> Nat] /\ \A b \in Actors : pend[b] <= CapOf[b]
        /\ CapOf \in [Actors -> Nat]
    BY SchedulerAssumption DEF TypeOK
  <2>2. QED
    BY <1>1, <2>1
<1>3. /\ \A b \in fed : popped[b] < CapOf[b]
      /\ pend' = [b \in Actors |-> popped[b] + (IF b \in fed THEN 1 ELSE 0)]
  BY DEF HandleOne
<1>4. CapOf \in [Actors -> Nat]
  BY SchedulerAssumption
<1> HIDE DEF popped
<1>5. \A b \in Actors : /\ pend'[b] = popped[b] + (IF b \in fed THEN 1 ELSE 0)
                        /\ pend'[b] \in Nat /\ pend'[b] <= CapOf[b]
  BY <1>2, <1>3, <1>4
<1>6. QED
  BY <1>1, <1>2, <1>3, <1>5

LEMMA FrameFields ==
  ASSUME TypeOK
  PROVE  /\ act.actor \in Actors \cup {NoActor} /\ act.left \in Nat /\ act.done \in Nat
         /\ act.rc \in Outcomes \cup {"busy", "OK"} /\ act.done <= act.left
         /\ dom.domain \in Domains \cup {NoDomain} /\ dom.budget \in Nat /\ dom.left \in Nat
         /\ dom.start \in Actors /\ dom.offset \in 0..NActors /\ dom.processed \in Nat
         /\ dom.rc \in Codes \cup {"busy"} /\ dom.handled \in Nat
         /\ dom.progressed \in BOOLEAN /\ dom.made \in BOOLEAN /\ dom.failed \in BOOLEAN
         /\ sys.on \in BOOLEAN /\ sys.budget \in Nat /\ sys.left \in Nat /\ sys.start \in Domains
         /\ sys.offset \in 0..NDomains /\ sys.turns \in Nat
         /\ sys.progressed \in BOOLEAN /\ sys.made \in BOOLEAN
  BY DEF TypeOK, PumpFrame, RunFrame, CallFrame

LEMMA AnsweredType ==
  ASSUME TypeOK, NEW rc \in Codes, NEW stop \in Codes, NEW exhausted \in BOOLEAN, NEW turns \in Nat,
         Answered(rc, stop, exhausted, turns)
  PROVE  sysAnswer' \in Answer
<1>1. sys.budget \in Nat
  BY FrameFields
<1>2. (WaitingDomains = {}) \in BOOLEAN
  OBVIOUS
<1>3. QED
  BY <1>1, <1>2 DEF Answered, NoAnswer, Answer

LEMMA DomainAnswersType ==
  ASSUME TypeOK, NEW rc \in Codes, NEW stop \in Codes, NEW exhausted \in BOOLEAN,
         DomainAnswers(rc, stop, exhausted)
  PROVE  domAnswer' \in Answer /\ dom' \in RunFrame
<1>1. dom.budget \in Nat /\ dom.processed \in Nat /\ dom.handled \in Nat /\ dom.failed \in BOOLEAN
  BY FrameFields
<1>2. (WaitingIn(dom.domain) = {}) \in BOOLEAN
  OBVIOUS
<1>3. domAnswer' \in Answer
  BY <1>1, <1>2 DEF DomainAnswers, NoAnswer, Answer
<1>4. dom' = [dom EXCEPT !.rc = rc] /\ dom \in RunFrame
  BY DEF DomainAnswers, TypeOK
<1>5. QED
  BY <1>3, <1>4 DEF RunFrame

LEMMA EmptyFrames == NoPump \in PumpFrame /\ NoPump.done <= NoPump.left /\ NoRun \in RunFrame /\ NoCall \in CallFrame
  BY Sizes DEF NoPump, NoRun, NoCall, PumpFrame, RunFrame, CallFrame

LEMMA TypeSystem ==
  ASSUME TypeOK, Nested,
         GrantDomain \/ RefuseDomain \/ NextSystemPass \/ SystemStops \/ DomainReturns
  PROVE  TypeOK'
<1>1. CASE GrantDomain
  <2> DEFINE o == Min(DomainOffsets)
             d == (sys.start + o) % NDomains
             q == DomainQuantum(d)
  <2>1. o \in 0..(NDomains - 1) /\ d \in Domains
    BY <1>1, DomainFound DEF GrantDomain
  <2>2. q \in Nat
    BY DomainQuantumType
  <2>3. /\ sys' = [sys EXCEPT !.offset = o + 1]
        /\ dom' = [NoRun EXCEPT !.domain = d, !.budget = q, !.left = q, !.start = cursor[d]]
        /\ domAnswer' = NoAnswer
        /\ UNCHANGED <<pend, cursor, next, act, sysAnswer>>
    BY <1>1 DEF GrantDomain
  <2> HIDE DEF o, d, q
  <2>4. o + 1 \in 0..NDomains
    BY <2>1, Sizes
  <2>5. sys' \in CallFrame
    BY <2>3, <2>4 DEF TypeOK, CallFrame
  <2>6. cursor[d] \in Actors
    BY <2>1 DEF TypeOK
  <2>7. dom' \in RunFrame
    BY <2>1, <2>2, <2>3, <2>6, EmptyFrames DEF RunFrame
  <2>8. QED
    BY <2>3, <2>5, <2>7, NoAnswerType DEF TypeOK
<1>2. CASE RefuseDomain
  <2>1. sysAnswer' \in Answer
    BY <1>2, AnsweredType, FrameFields DEF RefuseDomain, Codes
  <2>2. QED
    BY <1>2, <2>1, EmptyFrames DEF RefuseDomain, TypeOK
<1>3. CASE NextSystemPass
  <2>1. sys' \in CallFrame
    <3>1. sys' = [sys EXCEPT !.start = next, !.offset = 0, !.progressed = FALSE]
      BY <1>3 DEF NextSystemPass
    <3>2. next \in Domains /\ 0 \in 0..NDomains /\ sys \in CallFrame
      BY Sizes DEF TypeOK
    <3>3. QED
      BY <3>1, <3>2 DEF CallFrame
  <2>2. QED
    BY <1>3, <2>1 DEF NextSystemPass, TypeOK
<1>4. CASE SystemStops
  <2>1. sysAnswer' \in Answer
    <3> DEFINE more == sys.left = 0 /\ WaitingDomains # {}
               stop == IF more THEN "OK" ELSE "EMPTY"
    <3>1. \/ Answered("STATE", "STATE", FALSE, sys.turns)
          \/ Answered("OK", stop, more, sys.turns)
      BY <1>4 DEF SystemStops
    <3>2. more \in BOOLEAN /\ stop \in Codes /\ sys.turns \in Nat
      BY FrameFields DEF Codes
    <3> HIDE DEF more, stop
    <3>3. "STATE" \in Codes /\ "OK" \in Codes
      BY DEF Codes
    <3>4. QED
      BY <3>1, <3>2, <3>3, AnsweredType
  <2>2. QED
    BY <1>4, <2>1, EmptyFrames DEF SystemStops, TypeOK
<1>5. CASE DomainReturns
  <2>1. dom.domain \in Domains /\ dom.rc \in Codes
    BY <1>5, FrameFields DEF DomainReturns
  <2>2. next' \in Domains /\ dom' = NoRun /\ UNCHANGED <<pend, cursor, act, domAnswer>>
    BY <1>5, <2>1, AdvanceType DEF DomainReturns
  <2>3. ASSUME dom.rc = "OK", sys.left > 0 PROVE sys' \in CallFrame /\ sysAnswer' = sysAnswer
    <3>1. /\ sys' = [sys EXCEPT !.turns = @ + 1, !.left = @ - 1, !.progressed = TRUE, !.made = TRUE]
          /\ sysAnswer' = sysAnswer
      BY <1>5, <2>3 DEF DomainReturns
    <3>2. sys.turns + 1 \in Nat /\ sys.left - 1 \in Nat
      BY <2>3, FrameFields
    <3>3. QED
      BY <3>1, <3>2 DEF CallFrame, TypeOK
  <2>4. CASE dom.rc # "OK"
    <3>1. Answered(dom.rc, dom.rc, FALSE, sys.turns + 1) /\ sys' = NoCall
      BY <1>5, <2>4 DEF DomainReturns
    <3>2. sys.turns + 1 \in Nat
      BY FrameFields
    <3>3. sysAnswer' \in Answer
      BY <2>1, <3>1, <3>2, AnsweredType
    <3>4. QED
      BY <2>2, <3>1, <3>3, EmptyFrames DEF TypeOK
  <2>5. sys.left > 0
    BY <1>5 DEF DomainReturns, Nested
  <2>6. QED
    BY <2>2, <2>3, <2>4, <2>5, EmptyFrames DEF TypeOK
<1>6. QED
  BY <1>1, <1>2, <1>3, <1>4, <1>5

LEMMA TypeDomain ==
  ASSUME TypeOK, GrantActor \/ RefuseActor \/ NextDomainPass \/ DomainStops
  PROVE  TypeOK'
<1>1. CASE GrantActor
  <2> DEFINE o == Min(ActorOffsets)
             a == (dom.start + o) % NActors
             q == Min({Quantum[a], dom.left})
  <2>1. o \in 0..(NActors - 1) /\ a \in Actors
    BY <1>1, ActorFound DEF GrantActor
  <2>2. /\ dom' = [dom EXCEPT !.offset = o + 1]
        /\ act' = [NoPump EXCEPT !.actor = a, !.left = q]
        /\ UNCHANGED <<pend, cursor, next, sys, domAnswer, sysAnswer>>
    BY <1>1 DEF GrantActor
  <2>3. q \in Nat
    BY <2>1, GrantedQuantum
  <2> HIDE DEF o, a, q
  <2>4. o + 1 \in 0..NActors
    BY <2>1, Sizes
  <2>5. dom' \in RunFrame
    BY <2>2, <2>4 DEF TypeOK, RunFrame
  <2>6. act' \in PumpFrame /\ act'.done <= act'.left
    <3>1. act' = [actor |-> a, left |-> q, done |-> 0, rc |-> "busy"]
      BY <2>2 DEF NoPump
    <3>2. QED
      BY <2>1, <2>3, <3>1 DEF PumpFrame
  <2>7. QED
    BY <2>2, <2>5, <2>6 DEF TypeOK
<1>2. CASE RefuseActor
  <2>1. domAnswer' \in Answer /\ dom' \in RunFrame
    BY <1>2, DomainAnswersType DEF RefuseActor, Codes
  <2>2. QED
    BY <1>2, <2>1 DEF RefuseActor, TypeOK
<1>3. CASE NextDomainPass
  <2>1. dom' \in RunFrame
    <3>1. dom' = [dom EXCEPT !.start = cursor[dom.domain], !.offset = 0, !.progressed = FALSE]
      BY <1>3 DEF NextDomainPass
    <3>2. dom.domain \in Domains
      BY <1>3, FrameFields DEF NextDomainPass, DomainScans, DomainRuns
    <3>3. cursor[dom.domain] \in Actors /\ 0 \in 0..NActors /\ dom \in RunFrame
      BY <3>2, Sizes DEF TypeOK
    <3>4. QED
      BY <3>1, <3>3 DEF RunFrame
  <2>2. QED
    BY <1>3, <2>1 DEF NextDomainPass, TypeOK
<1>4. CASE DomainStops
  <2>1. domAnswer' \in Answer /\ dom' \in RunFrame
    <3> DEFINE more == dom.left = 0 /\ WaitingIn(dom.domain) # {}
               stop == IF more THEN "OK" ELSE "EMPTY"
    <3>1. \/ DomainAnswers("STATE", "STATE", FALSE)
          \/ DomainAnswers("OK", stop, more)
      BY <1>4 DEF DomainStops
    <3>2. more \in BOOLEAN /\ stop \in Codes /\ "STATE" \in Codes /\ "OK" \in Codes
      BY DEF Codes
    <3> HIDE DEF more, stop
    <3>3. QED
      BY <3>1, <3>2, DomainAnswersType
  <2>2. QED
    BY <1>4, <2>1 DEF DomainStops, TypeOK
<1>5. QED
  BY <1>1, <1>2, <1>3, <1>4

LEMMA TypeActor ==
  ASSUME TypeOK, Nested,
         \/ \E rc \in Outcomes, fed \in SUBSET Bound : HandleOne(rc, fed)
         \/ QuantumOver \/ ActorReturns
  PROVE  TypeOK'
<1>1. ASSUME NEW rc \in Outcomes, NEW fed \in SUBSET Bound, HandleOne(rc, fed) PROVE TypeOK'
  <2> DEFINE newRc == IF rc = "OK" THEN act.rc ELSE rc
             newFailed == (dom.failed \/ rc # "OK")
  <2>1. /\ act' = [act EXCEPT !.done = act.done + 1, !.rc = newRc]
        /\ dom' = [dom EXCEPT !.handled = dom.handled + 1, !.failed = newFailed]
        /\ UNCHANGED <<cursor, next, sys, domAnswer, sysAnswer>> /\ act.done < act.left
    BY <1>1 DEF HandleOne, TypeOK, PumpFrame, RunFrame
  <2>2. newRc \in Outcomes \cup {"busy", "OK"} /\ newFailed \in BOOLEAN
    BY FrameFields
  <2> HIDE DEF newRc, newFailed
  <2>3. act.done + 1 \in Nat /\ act.done + 1 <= act.left /\ dom.handled + 1 \in Nat
    BY <2>1, FrameFields
  <2>4. act' \in PumpFrame /\ act'.done <= act'.left
    BY <2>1, <2>2, <2>3 DEF TypeOK, PumpFrame
  <2>5. dom' \in RunFrame
    BY <2>1, <2>2, <2>3 DEF TypeOK, RunFrame
  <2>6. pend' \in [Actors -> Nat] /\ \A b \in Actors : pend'[b] <= CapOf[b]
    BY <1>1, Handled
  <2>7. QED
    BY <2>1, <2>4, <2>5, <2>6 DEF TypeOK
<1>2. CASE QuantumOver
  <2>1. act' \in PumpFrame /\ act'.done <= act'.left
    BY <1>2 DEF QuantumOver, TypeOK, PumpFrame
  <2>2. QED
    BY <1>2, <2>1 DEF QuantumOver, TypeOK
<1>3. CASE ActorReturns
  <2> DEFINE sum == dom.processed + act.done
             rest == dom.left - act.done
  <2>1. /\ act.actor \in Actors /\ dom.domain \in Domains /\ act.rc \in Codes
        /\ dom.left >= act.done
    <3>1. act.actor \in Actors /\ act.rc \in Codes
      BY <1>3, FrameFields DEF ActorReturns, Codes
    <3>2. dom.domain \in Domains /\ act.left <= dom.left
      BY <1>3, FrameFields DEF ActorReturns, Nested
    <3>3. QED
      BY <3>1, <3>2, FrameFields
  <2>2. cursor' = [cursor EXCEPT ![dom.domain] = Advance(act.actor, NActors)]
    BY <1>3 DEF ActorReturns
  <2>3. cursor' \in [Domains -> Actors]
    BY <2>1, <2>2, AdvanceType DEF TypeOK
  <2>4. sum \in Nat /\ rest \in Nat
    BY <2>1, FrameFields
  <2>5. act' = NoPump /\ UNCHANGED <<pend, next, sys, sysAnswer>>
    BY <1>3 DEF ActorReturns
  <2>6. dom' \in RunFrame /\ domAnswer' \in Answer
    <3>1. CASE act.rc = "EMPTY"
      BY <1>3, <3>1 DEF ActorReturns, TypeOK
    <3>2. CASE act.rc = "OK"
      <4>1. /\ dom' = [dom EXCEPT !.processed = sum, !.left = rest, !.progressed = TRUE, !.made = TRUE]
            /\ domAnswer' = domAnswer
        BY <1>3, <3>2 DEF ActorReturns, TypeOK, RunFrame
      <4> HIDE DEF sum, rest
      <4>2. QED
        BY <2>4, <4>1 DEF TypeOK, RunFrame
    <3>3. CASE act.rc \notin {"EMPTY", "OK"}
      <4>1. /\ dom' = [dom EXCEPT !.processed = sum, !.rc = act.rc]
            /\ domAnswer' = [NoAnswer EXCEPT !.rc = act.rc, !.stop = act.rc,
                  !.budget = dom.budget, !.used = sum, !.idle = (WaitingIn(dom.domain) = {}),
                  !.handled = dom.handled, !.failed = dom.failed]
        BY <1>3, <3>3 DEF ActorReturns, TypeOK, RunFrame
      <4> HIDE DEF sum, rest
      <4>2. dom' \in RunFrame
        BY <2>1, <2>4, <4>1 DEF TypeOK, RunFrame
      <4>3. (WaitingIn(dom.domain) = {}) \in BOOLEAN
        OBVIOUS
      <4>4. domAnswer' \in Answer
        BY <2>1, <2>4, <4>1, <4>3, FrameFields DEF NoAnswer, Answer
      <4>5. QED
        BY <4>2, <4>4
    <3>4. QED
      BY <3>1, <3>2, <3>3
  <2>7. QED
    BY <2>3, <2>5, <2>6, EmptyFrames DEF TypeOK
<1>4. QED
  BY <1>1, <1>2, <1>3

LEMMA TypeCaller ==
  ASSUME TypeOK,
         \/ \E a \in Bound : Deliver(a)
         \/ \E budget \in TurnBudgets : RunEmpty(budget) \/ Run(budget)
  PROVE  TypeOK'
<1>1. ASSUME NEW a \in Bound, Deliver(a) PROVE TypeOK'
  <2>1. a \in Actors /\ pend' = [pend EXCEPT ![a] = @ + 1] /\ pend[a] < CapOf[a]
    BY <1>1, SchedulerAssumption DEF Deliver
  <2>2. /\ pend \in [Actors -> Nat] /\ \A b \in Actors : pend[b] <= CapOf[b]
        /\ CapOf \in [Actors -> Nat]
    BY SchedulerAssumption DEF TypeOK
  <2>3. pend' \in [Actors -> Nat] /\ \A b \in Actors : pend'[b] <= CapOf[b]
    BY <2>1, <2>2
  <2>4. QED
    BY <1>1, <2>3 DEF Deliver, TypeOK
<1>2. ASSUME NEW budget \in TurnBudgets, RunEmpty(budget) PROVE TypeOK'
  <2>1. budget \in Nat
    BY SchedulerAssumption
  <2>2. sysAnswer' \in Answer
    BY <1>2, <2>1 DEF RunEmpty, NoAnswer, Answer, Codes
  <2>3. QED
    BY <1>2, <2>2 DEF RunEmpty, TypeOK
<1>3. ASSUME NEW budget \in TurnBudgets, Run(budget) PROVE TypeOK'
  <2>1. budget \in Nat /\ next \in Domains
    BY SchedulerAssumption DEF TypeOK
  <2>2. sys' \in CallFrame
    BY <1>3, <2>1, EmptyFrames DEF Run, CallFrame
  <2>3. QED
    BY <1>3, <2>2, NoAnswerType DEF Run, TypeOK
<1>4. QED
  BY <1>1, <1>2, <1>3

LEMMA TypeNext == TypeOK /\ Nested /\ [Next]_vars => TypeOK'
<1> SUFFICES ASSUME TypeOK, Nested, [Next]_vars PROVE TypeOK'
  OBVIOUS
<1>1. CASE UNCHANGED vars
  BY <1>1 DEF vars, TypeOK
<1>2. QED
  BY <1>1, TypeCaller, TypeSystem, TypeDomain, TypeActor DEF Next, PumpStep

-----------------------------------------------------------------------------
(* The frames and the scans. *)

LEMMA NestedNext == TypeOK /\ Nested /\ [Next]_vars => Nested'
<1> SUFFICES ASSUME TypeOK, Nested, [Next]_vars PROVE Nested'
  OBVIOUS
<1>0. /\ act \in PumpFrame /\ dom \in RunFrame /\ sys \in CallFrame
      /\ NoActor \notin Actors /\ NoDomain \notin Domains
  BY Sizes DEF TypeOK
<1>1. ASSUME NEW a \in Bound, Deliver(a) PROVE Nested'
  BY <1>1 DEF Deliver, Nested
<1>2. ASSUME NEW budget \in TurnBudgets, RunEmpty(budget) \/ Run(budget) PROVE Nested'
  <2>1. /\ act' = act /\ dom' = dom /\ dom.domain = NoDomain /\ act.actor = NoActor
        /\ sys' = sys \/ sys'.on
    BY <1>2 DEF RunEmpty, Run, Nested, NoCall
  <2>2. sys' = sys \/ (sys'.on /\ dom'.domain = NoDomain)
    BY <2>1
  <2>3. QED
    BY <2>1, <2>2 DEF Nested
<1>3. CASE GrantDomain
  <2> DEFINE o == Min(DomainOffsets)
             d == (sys.start + o) % NDomains
  <2>1. d \in Domains
    BY <1>3, DomainFound DEF GrantDomain
  <2>2. /\ act.actor = NoActor /\ act' = act /\ sys.on /\ sys.left > 0
        /\ sys' = [sys EXCEPT !.offset = o + 1] /\ dom'.domain = d
    BY <1>3 DEF GrantDomain, SystemScans, Nested, NoRun
  <2> HIDE DEF o, d
  <2>3. sys'.on /\ sys'.left > 0 /\ dom'.domain # NoDomain
    BY <1>0, <2>1, <2>2 DEF CallFrame
  <2>4. QED
    BY <2>2, <2>3 DEF Nested
<1>4. CASE RefuseDomain \/ SystemStops
  BY <1>4 DEF RefuseDomain, SystemStops, SystemScans, Nested
<1>5. CASE NextSystemPass
  <2>1. sys'.on /\ sys'.left = sys.left
    BY <1>0, <1>5 DEF NextSystemPass, SystemScans, CallFrame
  <2>2. QED
    BY <1>5, <2>1 DEF NextSystemPass, SystemScans, Nested
<1>6. CASE GrantActor
  <2> DEFINE o == Min(ActorOffsets)
             a == (dom.start + o) % NActors
             q == Min({Quantum[a], dom.left})
  <2>1. a \in WaitingIn(dom.domain) /\ a \in Actors
    BY <1>6, ActorFound DEF GrantActor
  <2>2. q \in Nat /\ q <= dom.left
    BY <2>1, GrantedQuantum
  <2>3. a \in ActorsOf(dom.domain)
    BY <2>1, WaitingTypes
  <2>4. /\ dom' = [dom EXCEPT !.offset = o + 1] /\ act' = [NoPump EXCEPT !.actor = a, !.left = q]
        /\ sys' = sys /\ dom.domain # NoDomain /\ dom.rc = "busy"
    BY <1>6 DEF GrantActor, DomainScans, DomainRuns
  <2> HIDE DEF o, a, q
  <2>5. /\ act'.actor = a /\ act'.left = q /\ dom'.domain = dom.domain /\ dom'.rc = "busy"
        /\ dom'.left = dom.left
    BY <1>0, <2>4 DEF NoPump, RunFrame
  <2>6. QED
    BY <1>0, <2>1, <2>2, <2>3, <2>4, <2>5 DEF Nested, ActorsOf
<1>7. CASE RefuseActor \/ DomainStops
  <2>1. PICK rc \in Codes : dom' = [dom EXCEPT !.rc = rc]
    BY <1>7 DEF RefuseActor, DomainStops, DomainAnswers, Codes
  <2>2. dom'.domain = dom.domain
    BY <1>0, <2>1 DEF RunFrame
  <2>3. act' = act /\ sys' = sys /\ act.actor = NoActor /\ dom.domain # NoDomain
    BY <1>7 DEF RefuseActor, DomainStops, DomainScans, DomainRuns
  <2>4. QED
    BY <2>2, <2>3 DEF Nested
<1>8. CASE NextDomainPass
  <2>1. dom'.domain = dom.domain
    BY <1>0, <1>8 DEF NextDomainPass, RunFrame
  <2>2. act' = act /\ sys' = sys /\ act.actor = NoActor /\ dom.domain # NoDomain
    BY <1>8 DEF NextDomainPass, DomainScans, DomainRuns
  <2>3. QED
    BY <2>1, <2>2 DEF Nested
<1>9. CASE DomainReturns
  <2>1. act.actor = NoActor /\ act' = act /\ dom' = NoRun /\ dom'.domain = NoDomain
    BY <1>9 DEF DomainReturns, Nested, NoRun
  <2>2. sys' = NoCall \/ sys'.on
    BY <1>0, <1>9 DEF DomainReturns, Nested, CallFrame
  <2>3. QED
    BY <2>1, <2>2 DEF Nested
<1>10. ASSUME NEW rc \in Outcomes, NEW fed \in SUBSET Bound, HandleOne(rc, fed) PROVE Nested'
  <2>1. /\ act'.actor = act.actor /\ act'.left = act.left /\ dom'.domain = dom.domain
        /\ dom'.rc = dom.rc /\ dom'.left = dom.left /\ sys' = sys
        /\ act.actor # NoActor
    BY <1>0, <1>10 DEF HandleOne, ActorRuns, PumpFrame, RunFrame
  <2>2. QED
    BY <2>1 DEF Nested, ActorsOf
<1>11. CASE QuantumOver
  <2>1. /\ act'.actor = act.actor /\ act'.left = act.left /\ dom' = dom /\ sys' = sys
        /\ act.actor # NoActor
    BY <1>0, <1>11 DEF QuantumOver, ActorRuns, PumpFrame
  <2>2. QED
    BY <2>1 DEF Nested, ActorsOf
<1>12. CASE ActorReturns
  <2>1. act' = NoPump /\ act'.actor = NoActor /\ sys' = sys /\ dom.domain # NoDomain
    BY <1>12 DEF ActorReturns, Nested, NoPump
  <2>2. dom'.domain = dom.domain
    BY <1>0, <1>12 DEF ActorReturns, RunFrame
  <2>3. QED
    BY <2>1, <2>2 DEF Nested
<1>13. CASE UNCHANGED vars
  BY <1>13 DEF vars, Nested, ActorsOf
<1>14. QED
  BY <1>1, <1>2, <1>3, <1>4, <1>5, <1>6, <1>7, <1>8, <1>9, <1>10, <1>11, <1>12, <1>13
     DEF Next, PumpStep

\* A scan that has looked at nobody stands at its start.
LEMMA AtStart ==
  ASSUME NEW n \in Nat \ {0}, NEW c \in 0..(n - 1)
  PROVE  At(c, 0, n) = c
<1>1. 0 \in 0..n /\ c + 0 = c
  OBVIOUS
<1>2. At(c, 0, n) = IF c + 0 < n THEN c + 0 ELSE c + 0 - n
  BY <1>1, AtIs
<1>3. QED
  BY <1>2

LEMMA ActorScanningNext ==
  TypeOK /\ Nested /\ ActorScanning /\ [Next]_vars => ActorScanning'
<1> SUFFICES ASSUME TypeOK, Nested, ActorScanning, [Next]_vars PROVE ActorScanning'
  OBVIOUS
<1>0. /\ act \in PumpFrame /\ dom \in RunFrame /\ cursor \in [Domains -> Actors]
      /\ NoActor \notin Actors /\ NoDomain \notin Domains
  BY Sizes DEF TypeOK
<1>1. CASE act' = act /\ dom' = dom /\ cursor' = cursor
  BY <1>1 DEF ActorScanning
<1>2. CASE GrantDomain
  <2> DEFINE o == Min(DomainOffsets)
             d == (sys.start + o) % NDomains
  <2>1. d \in Domains
    BY <1>2, DomainFound DEF GrantDomain
  <2>2. /\ act.actor = NoActor /\ act' = act /\ cursor' = cursor
        /\ dom'.domain = d /\ dom'.start = cursor[d] /\ dom'.offset = 0
    BY <1>2 DEF GrantDomain, SystemScans, Nested, NoRun
  <2> HIDE DEF o, d
  <2>3. cursor[d] \in 0..(NActors - 1)
    BY <1>0, <2>1, Sizes
  <2>4. At(cursor[d], 0, NActors) = cursor[d]
    BY <2>3, AtStart, Sizes
  <2>5. QED
    BY <2>2, <2>4 DEF ActorScanning
<1>3. CASE GrantActor
  <2> DEFINE o == Min(ActorOffsets)
             a == (dom.start + o) % NActors
  <2>1. o \in 0..(NActors - 1) /\ a \in Actors /\ a = At(dom.start, o, NActors)
    BY <1>3, ActorFound DEF GrantActor
  <2>2. /\ dom' = [dom EXCEPT !.offset = o + 1] /\ act'.actor = a /\ cursor' = cursor
    BY <1>3 DEF GrantActor, NoPump
  <2> HIDE DEF o, a
  <2>3. dom'.offset = o + 1 /\ dom'.start = dom.start /\ dom'.domain = dom.domain
    BY <1>0, <2>2 DEF RunFrame
  <2>4. dom'.offset > 0 /\ dom'.offset - 1 = o
    BY <2>1, <2>3
  <2>5. QED
    BY <1>0, <2>1, <2>2, <2>3, <2>4 DEF ActorScanning
<1>4. CASE RefuseActor \/ DomainStops
  <2>1. dom'.rc # "busy"
    BY <1>0, <1>4 DEF RefuseActor, DomainStops, DomainAnswers, RunFrame
  <2>2. QED
    BY <2>1 DEF ActorScanning
<1>5. CASE NextDomainPass
  <2>1. /\ dom'.domain = dom.domain /\ dom'.start = cursor[dom.domain] /\ dom'.offset = 0
        /\ cursor' = cursor /\ act' = act /\ act.actor = NoActor /\ dom.domain \in Domains
    BY <1>0, <1>5 DEF NextDomainPass, DomainScans, DomainRuns, RunFrame
  <2>2. cursor[dom.domain] \in 0..(NActors - 1)
    BY <1>0, <2>1, Sizes
  <2>3. At(cursor[dom.domain], 0, NActors) = cursor[dom.domain]
    BY <2>2, AtStart, Sizes
  <2>4. QED
    BY <2>1, <2>3 DEF ActorScanning
<1>6. CASE DomainReturns
  BY <1>6 DEF DomainReturns, NoRun, ActorScanning
<1>7. ASSUME NEW rc \in Outcomes, NEW fed \in SUBSET Bound, HandleOne(rc, fed) PROVE ActorScanning'
  <2>1. /\ act'.actor = act.actor /\ cursor' = cursor /\ dom'.domain = dom.domain
        /\ dom'.rc = dom.rc /\ dom'.start = dom.start /\ dom'.offset = dom.offset
    BY <1>0, <1>7 DEF HandleOne, PumpFrame, RunFrame
  <2>2. QED
    BY <2>1 DEF ActorScanning
<1>8. CASE QuantumOver
  <2>1. act'.actor = act.actor /\ dom' = dom /\ cursor' = cursor
    BY <1>0, <1>8 DEF QuantumOver, PumpFrame
  <2>2. QED
    BY <2>1 DEF ActorScanning
<1>9. CASE ActorReturns
  <2>1. /\ act.actor # NoActor /\ dom.domain \in Domains /\ dom.rc = "busy"
        /\ act.actor = At(dom.start, dom.offset - 1, NActors) /\ dom.offset > 0
    BY <1>9, FrameFields DEF ActorReturns, Nested, ActorScanning
  <2>2. /\ dom'.domain = dom.domain /\ dom'.start = dom.start /\ dom'.offset = dom.offset
        /\ act'.actor = NoActor
        /\ cursor' = [cursor EXCEPT ![dom.domain] = Advance(act.actor, NActors)]
    BY <1>0, <1>9 DEF ActorReturns, NoPump, RunFrame
  <2>3. dom.start \in 0..(NActors - 1) /\ dom.offset \in 1..NActors
    BY <2>1, FrameFields, Sizes
  <2>4. Advance(act.actor, NActors) = At(dom.start, dom.offset, NActors)
    BY <2>1, <2>3, AdvanceIsNext, Sizes
  <2>5. cursor'[dom.domain] = At(dom.start, dom.offset, NActors)
    BY <1>0, <2>1, <2>2, <2>4
  <2>6. QED
    BY <2>2, <2>5 DEF ActorScanning
<1>10. QED
  <2>1. CASE \E a \in Bound : Deliver(a)
    BY <1>1, <2>1 DEF Deliver
  <2>2. CASE \E budget \in TurnBudgets : RunEmpty(budget) \/ Run(budget)
    BY <1>1, <2>2 DEF RunEmpty, Run
  <2>3. CASE RefuseDomain \/ NextSystemPass \/ SystemStops
    BY <1>1, <2>3 DEF RefuseDomain, NextSystemPass, SystemStops
  <2>4. CASE UNCHANGED vars
    BY <1>1, <2>4 DEF vars
  <2>5. QED
    BY <1>2, <1>3, <1>4, <1>5, <1>6, <1>7, <1>8, <1>9, <2>1, <2>2, <2>3, <2>4 DEF Next, PumpStep

LEMMA DomainScanningNext ==
  TypeOK /\ Nested /\ DomainScanning /\ [Next]_vars => DomainScanning'
<1> SUFFICES ASSUME TypeOK, Nested, DomainScanning, [Next]_vars PROVE DomainScanning'
  OBVIOUS
<1>0. /\ dom \in RunFrame /\ sys \in CallFrame /\ next \in 0..(NDomains - 1)
      /\ NoDomain \notin Domains
  BY Sizes DEF TypeOK
<1>1. CASE sys' = sys /\ dom'.domain = dom.domain /\ next' = next
  BY <1>1 DEF DomainScanning
<1>2. ASSUME NEW budget \in TurnBudgets, Run(budget) PROVE DomainScanning'
  <2>1. /\ sys'.start = next /\ sys'.offset = 0 /\ next' = next /\ dom' = dom
        /\ dom.domain = NoDomain
    BY <1>2 DEF Run, NoCall, Nested
  <2>2. At(next, 0, NDomains) = next
    BY <1>0, AtStart, Sizes
  <2>3. QED
    BY <2>1, <2>2 DEF DomainScanning
<1>3. CASE GrantDomain
  <2> DEFINE o == Min(DomainOffsets)
             d == (sys.start + o) % NDomains
  <2>1. o \in 0..(NDomains - 1) /\ d \in Domains /\ d = At(sys.start, o, NDomains)
    BY <1>3, DomainFound DEF GrantDomain
  <2>2. sys' = [sys EXCEPT !.offset = o + 1] /\ dom'.domain = d
    BY <1>3 DEF GrantDomain, NoRun
  <2> HIDE DEF o, d
  <2>3. sys'.offset = o + 1 /\ sys'.start = sys.start
    BY <1>0, <2>2 DEF CallFrame
  <2>4. sys'.offset > 0 /\ sys'.offset - 1 = o
    BY <2>1, <2>3
  <2>5. QED
    BY <1>0, <2>1, <2>2, <2>3, <2>4 DEF DomainScanning
<1>4. CASE RefuseDomain \/ SystemStops
  <2>1. sys' = NoCall
    BY <1>4 DEF RefuseDomain, SystemStops
  <2>2. ~sys'.on
    BY <2>1 DEF NoCall
  <2>3. QED
    BY <2>2 DEF DomainScanning
<1>5. CASE NextSystemPass
  <2>1. /\ sys'.start = next /\ sys'.offset = 0 /\ next' = next /\ dom' = dom
        /\ dom.domain = NoDomain
    BY <1>0, <1>5 DEF NextSystemPass, SystemScans, CallFrame
  <2>2. At(next, 0, NDomains) = next
    BY <1>0, AtStart, Sizes
  <2>3. QED
    BY <2>1, <2>2 DEF DomainScanning
<1>6. CASE DomainReturns
  <2>1. /\ sys.on /\ dom.domain # NoDomain
        /\ dom.domain = At(sys.start, sys.offset - 1, NDomains) /\ sys.offset > 0
    BY <1>6 DEF DomainReturns, Nested, DomainScanning
  <2>2. sys.start \in 0..(NDomains - 1) /\ sys.offset \in 1..NDomains
    BY <2>1, FrameFields, Sizes
  <2>3. next' = At(sys.start, sys.offset, NDomains)
    BY <1>6, <2>1, <2>2, AdvanceIsNext, Sizes DEF DomainReturns
  <2>4. dom'.domain = NoDomain
    BY <1>6 DEF DomainReturns, NoRun
  <2>5. sys' = NoCall \/ (sys'.start = sys.start /\ sys'.offset = sys.offset)
    BY <1>0, <1>6 DEF DomainReturns, CallFrame
  <2>6. ~sys'.on \/ (sys'.start = sys.start /\ sys'.offset = sys.offset)
    BY <2>5 DEF NoCall
  <2>7. QED
    BY <2>3, <2>4, <2>6 DEF DomainScanning
<1>7. QED
  <2>1. CASE \E a \in Bound : Deliver(a)
    BY <1>1, <2>1 DEF Deliver
  <2>2. CASE \E budget \in TurnBudgets : RunEmpty(budget)
    BY <1>1, <2>2 DEF RunEmpty
  <2>3. CASE GrantActor \/ NextDomainPass
    BY <1>0, <1>1, <2>3 DEF GrantActor, NextDomainPass, RunFrame
  <2>4. CASE RefuseActor \/ DomainStops
    BY <1>0, <1>1, <2>4 DEF RefuseActor, DomainStops, DomainAnswers, RunFrame
  <2>5. CASE \E rc \in Outcomes, fed \in SUBSET Bound : HandleOne(rc, fed)
    BY <1>0, <1>1, <2>5 DEF HandleOne, RunFrame
  <2>6. CASE QuantumOver \/ UNCHANGED vars
    BY <1>1, <2>6 DEF QuantumOver, vars
  <2>7. CASE ActorReturns
    BY <1>0, <1>1, <2>7 DEF ActorReturns, RunFrame
  <2>8. QED
    BY <1>2, <1>3, <1>4, <1>5, <1>6, <2>1, <2>2, <2>3, <2>4, <2>5, <2>6, <2>7 DEF Next, PumpStep

LEMMA FrameInit == Init => FrameInv
<1> SUFFICES ASSUME Init PROVE FrameInv
  OBVIOUS
<1>1. act = NoPump /\ dom = NoRun /\ sys = NoCall
  BY DEF Init
<1>2. TypeOK
  <2>1. pend \in [Actors -> Nat] /\ \A a \in Actors : pend[a] <= CapOf[a]
    BY SchedulerAssumption DEF Init
  <2>2. QED
    BY <2>1, EmptyFrames, NoAnswerType, Sizes DEF Init, TypeOK
<1>3. QED
  BY <1>1, <1>2 DEF FrameInv, Nested, ActorScanning, DomainScanning, NoPump, NoRun, NoCall

LEMMA FrameNext == FrameInv /\ [Next]_vars => FrameInv'
  BY TypeNext, NestedNext, ActorScanningNext, DomainScanningNext DEF FrameInv

\* The frames are always nested as the calls are, and no scan ever loses the
\* cursor.
THEOREM FrameInvAlways == Spec => []FrameInv
  BY FrameInit, FrameNext, PTL DEF Spec

\* Every state stays within its type: no mailbox holds more than its capacity,
\* no cursor leaves its members.
THEOREM SchedulerTypeAlways == Spec => []TypeOK
  BY FrameInvAlways, PTL DEF FrameInv

-----------------------------------------------------------------------------
(* Both levels implement FairTurns. *)

LEMMA WaitingTypesNext ==
  /\ WaitingDomains' \subseteq Domains
  /\ \A d : WaitingIn(d)' \subseteq Actors
  BY SchedulerAssumption DEF WaitingDomains, WaitingIn, ActorsOf

\* Messages only arrive, except for the actor whose turn it is.
LEMMA StillWaiting ==
  ASSUME FrameInv, [Next]_vars
  PROVE  \A b \in Actors : pend[b] > 0 /\ b # act.actor => pend'[b] > 0
<1>0. pend \in [Actors -> Nat]
  BY DEF FrameInv, TypeOK
<1>1. CASE pend' = pend
  BY <1>1
<1>2. ASSUME NEW a \in Bound, Deliver(a) PROVE \A b \in Actors : pend[b] <= pend'[b]
  BY <1>0, <1>2, SchedulerAssumption DEF Deliver
<1>3. ASSUME NEW rc \in Outcomes, NEW fed \in SUBSET Bound, HandleOne(rc, fed)
      PROVE  \A b \in Actors : b # act.actor => pend[b] <= pend'[b]
  BY <1>3, Handled DEF FrameInv
<1>4. \A b \in Actors : pend'[b] \in Int
  BY TypeNext DEF FrameInv, TypeOK
<1>5. QED
  <2>1. \/ pend' = pend \/ \E a \in Bound : Deliver(a)
        \/ \E rc \in Outcomes, fed \in SUBSET Bound : HandleOne(rc, fed)
    BY DEF Next, PumpStep, RunEmpty, Run, GrantDomain, RefuseDomain, NextSystemPass, SystemStops,
           DomainReturns, GrantActor, RefuseActor, NextDomainPass, DomainStops, QuantumOver,
           ActorReturns, vars
  <2>2. ASSUME NEW b \in Actors, pend[b] > 0, b # act.actor PROVE pend'[b] > 0
    <3>1. pend[b] <= pend'[b] \/ pend' = pend
      BY <1>2, <1>3, <2>1, <2>2
    <3>2. QED
      BY <1>0, <1>4, <2>2, <3>1
  <2>3. QED
    BY <2>2

LEMMA DomainsStillWaiting ==
  ASSUME FrameInv, [Next]_vars
  PROVE  WaitingDomains \ {dom.domain} \subseteq WaitingDomains'
<1> SUFFICES ASSUME NEW d \in WaitingDomains, d # dom.domain PROVE d \in WaitingDomains'
  OBVIOUS
<1>1. PICK b \in WaitingIn(d) : TRUE
  BY DEF WaitingDomains
<1>2. b \in Actors /\ b \in Bound /\ DomainOf[b] = d /\ pend[b] > 0
  BY <1>1, SchedulerAssumption DEF WaitingIn, ActorsOf
<1>3. b # act.actor
  BY <1>2, Sizes DEF FrameInv, Nested, ActorsOf
<1>4. pend'[b] > 0
  BY <1>2, <1>3, StillWaiting
<1>5. QED
  BY <1>2, <1>4 DEF WaitingDomains, WaitingIn, ActorsOf

LEMMA ActorsStillWaiting ==
  ASSUME FrameInv, [Next]_vars, NEW d
  PROVE  WaitingIn(d) \ {act.actor} \subseteq WaitingIn(d)'
<1> SUFFICES ASSUME NEW b \in WaitingIn(d), b # act.actor PROVE b \in WaitingIn(d)'
  OBVIOUS
<1>1. b \in Actors /\ b \in Bound /\ DomainOf[b] = d /\ pend[b] > 0
  BY SchedulerAssumption DEF WaitingIn, ActorsOf
<1>2. pend'[b] > 0
  BY <1>1, StillWaiting
<1>3. QED
  BY <1>1, <1>2 DEF WaitingIn, ActorsOf

LEMMA DomainTurnsInit == Init => DomainTurns!Init
<1> SUFFICES ASSUME Init PROVE DomainTurns!Init
  OBVIOUS
<1>1. WaitingDomains = {}
  BY SchedulerAssumption DEF Init, WaitingDomains, WaitingIn, ActorsOf
<1>2. next = 0 /\ dom.domain = NoDomain
  BY DEF Init, NoRun
<1>3. QED
  BY <1>1, <1>2 DEF DomainTurns!Init, DomainTurns!Nobody, NoDomain

LEMMA DomainTurnsNext ==
  FrameInv /\ [Next]_vars => [DomainTurns!Next]_(DomainTurns!vars)
<1> SUFFICES ASSUME FrameInv, [Next]_vars PROVE DomainTurns!Next
  OBVIOUS
<1> USE Sizes DEF DomainTurns!Next
<1>0. /\ dom \in RunFrame /\ sys \in CallFrame /\ TypeOK
      /\ DomainTurns!Members = Domains /\ DomainTurns!Nobody = NoDomain
  BY DEF FrameInv, TypeOK, DomainTurns!Members, DomainTurns!Nobody
<1>1. CASE next' = next /\ dom'.domain = dom.domain
  <2>1. /\ WaitingDomains' \in SUBSET Domains
        /\ WaitingDomains \ {dom.domain} \subseteq WaitingDomains'
    BY WaitingTypesNext, DomainsStillWaiting
  <2>2. DomainTurns!Arrive
    BY <1>0, <1>1, <2>1 DEF DomainTurns!Arrive
  <2>3. QED
    BY <2>2
<1>2. CASE GrantDomain
  <2> DEFINE o == Min(DomainOffsets)
             d == (sys.start + o) % NDomains
  <2>1. /\ d \in WaitingDomains /\ d \in Domains
        /\ \A k \in WaitingDomains :
              Ahead(d, At(sys.start, sys.offset, NDomains), NDomains)
                <= Ahead(k, At(sys.start, sys.offset, NDomains), NDomains)
    BY <1>0, <1>2, DomainFound DEF GrantDomain
  <2>2. /\ dom.domain = NoDomain /\ dom'.domain = d /\ next' = next
        /\ pend' = pend /\ next = At(sys.start, sys.offset, NDomains)
    BY <1>2 DEF GrantDomain, SystemScans, NoRun, FrameInv, DomainScanning
  <2> HIDE DEF o, d
  <2>3. WaitingDomains' = WaitingDomains
    BY <2>2 DEF WaitingDomains, WaitingIn, ActorsOf
  <2>4. \A k : DomainTurns!Distance(k, next) = Ahead(k, next, NDomains)
    BY DEF DomainTurns!Distance, Ahead
  <2>5. DomainTurns!Grant(d)
    BY <1>0, <2>1, <2>2, <2>3, <2>4 DEF DomainTurns!Grant
  <2>6. QED
    BY <1>0, <2>1, <2>5
<1>3. CASE DomainReturns
  <2>1. dom.domain \in Domains
    BY <1>3, FrameFields, <1>0 DEF DomainReturns
  <2>2. next' = DomainTurns!Following(dom.domain)
    BY <1>3, <2>1 DEF DomainReturns, Advance, DomainTurns!Following
  <2>3. dom.domain # NoDomain /\ dom'.domain = NoDomain /\ pend' = pend
    BY <1>3 DEF DomainReturns, NoRun
  <2>4. WaitingDomains' = WaitingDomains
    BY <2>3 DEF WaitingDomains, WaitingIn, ActorsOf
  <2>5. DomainTurns!Finish
    BY <1>0, <2>2, <2>3, <2>4 DEF DomainTurns!Finish
  <2>6. QED
    BY <2>5
<1>4. QED
  <2>1. CASE \E a \in Bound : Deliver(a)
    BY <1>1, <2>1 DEF Deliver
  <2>2. CASE \E budget \in TurnBudgets : RunEmpty(budget) \/ Run(budget)
    BY <1>1, <2>2 DEF RunEmpty, Run
  <2>3. CASE RefuseDomain \/ NextSystemPass \/ SystemStops
    BY <1>1, <2>3 DEF RefuseDomain, NextSystemPass, SystemStops
  <2>4. CASE GrantActor \/ NextDomainPass
    BY <1>0, <1>1, <2>4 DEF GrantActor, NextDomainPass, RunFrame
  <2>5. CASE RefuseActor \/ DomainStops
    BY <1>0, <1>1, <2>5 DEF RefuseActor, DomainStops, DomainAnswers, RunFrame
  <2>6. CASE \E rc \in Outcomes, fed \in SUBSET Bound : HandleOne(rc, fed)
    BY <1>0, <1>1, <2>6 DEF HandleOne, RunFrame
  <2>7. CASE QuantumOver \/ UNCHANGED vars
    BY <1>1, <2>7 DEF QuantumOver, vars
  <2>8. CASE ActorReturns
    BY <1>0, <1>1, <2>8 DEF ActorReturns, RunFrame
  <2>9. QED
    BY <1>2, <1>3, <2>1, <2>2, <2>3, <2>4, <2>5, <2>6, <2>7, <2>8 DEF Next, PumpStep

\* ev_system_pump_run() grants turns to the domains round-robin, whatever the
\* domains, their quanta, the budgets and the traffic: it implements FairTurns.
THEOREM DomainsInTurnAlways == Spec => DomainsInTurn
<1>1. []FrameInv /\ [][Next]_vars => [][DomainTurns!Next]_(DomainTurns!vars)
  BY DomainTurnsNext, PTL
<1>2. QED
  BY <1>1, FrameInvAlways, DomainTurnsInit, PTL DEF Spec, DomainsInTurn, DomainTurns!Spec

\* The actor of a domain whose turn it is.
ServingIn(d) == IF dom.domain = d THEN act.actor ELSE NoActor

LEMMA ActorTurnsInit == Init => \A d \in Domains : ActorTurns(d)!Init
<1> SUFFICES ASSUME Init, NEW d \in Domains PROVE ActorTurns(d)!Init
  OBVIOUS
<1>1. WaitingIn(d) = {}
  BY SchedulerAssumption DEF Init, WaitingIn, ActorsOf
<1>2. cursor[d] = 0 /\ act.actor = NoActor
  BY DEF Init, NoPump
<1>3. QED
  BY <1>1, <1>2 DEF ActorTurns!Init, ActorTurns!Nobody, NoActor

LEMMA ActorTurnsNext ==
  FrameInv /\ [Next]_vars => \A d \in Domains : [ActorTurns(d)!Next]_(ActorTurns(d)!vars)
<1> SUFFICES ASSUME FrameInv, [Next]_vars, NEW d \in Domains PROVE ActorTurns(d)!Next
  OBVIOUS
<1> USE Sizes DEF ActorTurns!Next
<1>0. /\ act \in PumpFrame /\ dom \in RunFrame /\ TypeOK /\ cursor \in [Domains -> Actors]
      /\ ActorTurns(d)!Members = Actors /\ ActorTurns(d)!Nobody = NoActor
  BY DEF FrameInv, TypeOK, ActorTurns!Members, ActorTurns!Nobody
<1>1. CASE cursor'[d] = cursor[d] /\ ServingIn(d)' = ServingIn(d)
  <2>1. WaitingIn(d)' \in SUBSET Actors
    BY WaitingTypesNext
  <2>2. WaitingIn(d) \ {ServingIn(d)} \subseteq WaitingIn(d)'
    <3>1. WaitingIn(d) \ {act.actor} \subseteq WaitingIn(d)'
      BY ActorsStillWaiting
    <3>2. ASSUME act.actor \in WaitingIn(d) PROVE dom.domain = d
      <4>1. act.actor \in Actors /\ DomainOf[act.actor] = d
        BY <3>2, WaitingTypes DEF WaitingIn, ActorsOf
      <4>2. act.actor \in ActorsOf(dom.domain)
        BY <4>1 DEF FrameInv, Nested
      <4>3. QED
        BY <4>1, <4>2 DEF ActorsOf
    <3>3. QED
      BY <3>1, <3>2 DEF ServingIn
  <2>3. ActorTurns(d)!Arrive
    BY <1>0, <1>1, <2>1, <2>2 DEF ActorTurns!Arrive, ServingIn
  <2>4. QED
    BY <2>3
<1>2. CASE GrantActor /\ dom.domain = d
  <2> DEFINE o == Min(ActorOffsets)
             a == (dom.start + o) % NActors
  <2>1. /\ a \in WaitingIn(d) /\ a \in Actors
        /\ \A k \in WaitingIn(d) :
              Ahead(a, At(dom.start, dom.offset, NActors), NActors)
                <= Ahead(k, At(dom.start, dom.offset, NActors), NActors)
    BY <1>0, <1>2, ActorFound DEF GrantActor
  <2>2. /\ act.actor = NoActor /\ act'.actor = a /\ cursor' = cursor /\ pend' = pend
        /\ dom'.domain = d /\ cursor[d] = At(dom.start, dom.offset, NActors)
    BY <1>0, <1>2 DEF GrantActor, DomainScans, DomainRuns, NoPump, RunFrame, FrameInv, ActorScanning
  <2> HIDE DEF o, a
  <2>3. WaitingIn(d)' = WaitingIn(d)
    BY <2>2 DEF WaitingIn, ActorsOf
  <2>4. \A k : ActorTurns(d)!Distance(k, cursor[d]) = Ahead(k, cursor[d], NActors)
    BY DEF ActorTurns!Distance, Ahead
  <2>5. ActorTurns(d)!Grant(a)
    BY <1>0, <1>2, <2>1, <2>2, <2>3, <2>4 DEF ActorTurns!Grant
  <2>6. QED
    BY <1>0, <2>1, <2>5
<1>3. CASE ActorReturns /\ dom.domain = d
  <2>1. act.actor \in Actors /\ act.actor # NoActor
    BY <1>3, FrameFields, <1>0 DEF ActorReturns
  <2>2. cursor'[d] = ActorTurns(d)!Following(act.actor)
    BY <1>0, <1>3, <2>1 DEF ActorReturns, Advance, ActorTurns!Following
  <2>3. act'.actor = NoActor /\ pend' = pend /\ dom'.domain = d
    BY <1>0, <1>3 DEF ActorReturns, NoPump, RunFrame
  <2>4. WaitingIn(d)' = WaitingIn(d)
    BY <2>3 DEF WaitingIn, ActorsOf
  <2>5. ActorTurns(d)!Finish
    BY <1>0, <1>3, <2>1, <2>2, <2>3, <2>4 DEF ActorTurns!Finish
  <2>6. QED
    BY <2>5
<1>4. CASE cursor' = cursor /\ act'.actor = act.actor /\ (dom'.domain = dom.domain \/ act.actor = NoActor)
  BY <1>1, <1>4 DEF ServingIn
<1>5. QED
  <2>1. CASE (\E a \in Bound : Deliver(a)) \/ UNCHANGED vars
    BY <1>4, <2>1 DEF Deliver, vars
  <2>2. CASE \E budget \in TurnBudgets : RunEmpty(budget) \/ Run(budget)
    BY <1>4, <2>2 DEF RunEmpty, Run
  <2>3. CASE RefuseDomain \/ NextSystemPass \/ SystemStops
    BY <1>4, <2>3 DEF RefuseDomain, NextSystemPass, SystemStops
  <2>4. CASE GrantDomain
    BY <1>4, <2>4 DEF GrantDomain, SystemScans, FrameInv, Nested
  <2>5. CASE NextDomainPass
    BY <1>0, <1>4, <2>5 DEF NextDomainPass, RunFrame
  <2>6. CASE RefuseActor \/ DomainStops
    BY <1>0, <1>4, <2>6 DEF RefuseActor, DomainStops, DomainAnswers, RunFrame
  <2>7. CASE DomainReturns
    BY <1>4, <2>7 DEF DomainReturns, FrameInv, Nested
  <2>8. CASE \E rc \in Outcomes, fed \in SUBSET Bound : HandleOne(rc, fed)
    BY <1>0, <1>4, <2>8 DEF HandleOne, PumpFrame, RunFrame
  <2>9. CASE QuantumOver
    BY <1>0, <1>4, <2>9 DEF QuantumOver, PumpFrame
  <2>10. CASE GrantActor /\ dom.domain # d
    <3>1. dom'.domain = dom.domain /\ cursor' = cursor
      BY <1>0, <2>10 DEF GrantActor, RunFrame
    <3>2. QED
      BY <1>1, <2>10, <3>1 DEF ServingIn
  <2>11. CASE ActorReturns /\ dom.domain # d
    <3>1. dom'.domain = dom.domain /\ cursor'[d] = cursor[d]
      BY <1>0, <2>11 DEF ActorReturns, RunFrame
    <3>2. QED
      BY <1>1, <2>11, <3>1 DEF ServingIn
  <2>12. QED
    BY <1>2, <1>3, <2>1, <2>2, <2>3, <2>4, <2>5, <2>6, <2>7, <2>8, <2>9, <2>10, <2>11
       DEF Next, PumpStep

\* ev_domain_pump_run() does the same among the actors of each domain.
THEOREM ActorsInTurnAlways == Spec => ActorsInTurn
<1>1. []FrameInv /\ [][Next]_vars
        => [][\A d \in Domains : [ActorTurns(d)!Next]_(ActorTurns(d)!vars)]_vars
  BY ActorTurnsNext, PTL
<1>2. QED
  BY <1>1, FrameInvAlways, ActorTurnsInit, PTL DEF Spec, ActorsInTurn

-----------------------------------------------------------------------------
(* What a run reports is what happened. *)

LEMMA NoAnswerTruthful ==
  /\ Truthful(NoAnswer) /\ NoAnswer.handled = NoAnswer.used
  /\ ~NoAnswer.failed /\ NoAnswer.rc = "none"
  BY DEF NoAnswer, Truthful

\* When an answer of the system pump is true.
LEMMA AnsweredTruthful ==
  ASSUME NEW rc, NEW stop, NEW exhausted \in BOOLEAN, NEW turns \in Nat,
         Answered(rc, stop, exhausted, turns), turns <= sys.budget,
         exhausted => turns = sys.budget /\ WaitingDomains # {},
         rc = "OK" /\ ~exhausted => WaitingDomains = {},
         stop = "EMPTY" => WaitingDomains = {}
  PROVE  Truthful(sysAnswer')
<1> DEFINE idle == (WaitingDomains = {})
<1>1. /\ sysAnswer'.rc = rc /\ sysAnswer'.stop = stop /\ sysAnswer'.exhausted = exhausted
      /\ sysAnswer'.budget = sys.budget /\ sysAnswer'.used = turns /\ sysAnswer'.idle = idle
  BY DEF Answered, NoAnswer
<1>2. idle \in BOOLEAN /\ (idle <=> WaitingDomains = {})
  OBVIOUS
<1> HIDE DEF idle
<1>3. QED
  BY <1>1, <1>2 DEF Truthful

\* When an answer of a domain pump is true.
LEMMA DomainTruthful ==
  ASSUME NEW a, NEW idle \in BOOLEAN, NEW used \in Nat,
         a.idle = idle, a.used = used, a.handled = used, a.budget = dom.budget,
         a.exhausted \in BOOLEAN, a.failed \in BOOLEAN, used <= dom.budget,
         a.exhausted => used = dom.budget /\ ~idle,
         a.rc = "OK" /\ ~a.exhausted => idle,
         a.stop = "EMPTY" => idle,
         a.failed => a.rc # "OK",
         a.rc \notin {"OK", "CONTRACT", "none"} => a.failed
  PROVE  /\ Truthful(a) /\ a.handled = a.used
         /\ a.failed => a.rc # "OK"
         /\ a.rc \notin {"OK", "CONTRACT", "none"} => a.failed
  BY DEF Truthful

DomainAnswerTrue ==
    /\ Truthful(domAnswer) /\ domAnswer.handled = domAnswer.used
    /\ domAnswer.failed => domAnswer.rc # "OK"
    /\ domAnswer.rc \notin {"OK", "CONTRACT", "none"} => domAnswer.failed

LEMMA SystemAnswerNext ==
  ASSUME FrameInv, DomainAccounted, SystemAccounted, Truthful(sysAnswer), [Next]_vars
  PROVE  Truthful(sysAnswer') /\ SystemAccounted'
<1>0. /\ dom \in RunFrame /\ sys \in CallFrame /\ TypeOK /\ Nested
      /\ sys.budget \in Nat /\ sys.left \in Nat /\ sys.turns \in Nat
      /\ sys.offset \in 0..NDomains /\ sys.start \in 0..(NDomains - 1)
      /\ sys.progressed \in BOOLEAN /\ sys.made \in BOOLEAN
  BY FrameFields, Sizes DEF FrameInv, TypeOK
<1>1. CASE sysAnswer' = sysAnswer /\ sys' = sys /\ dom'.domain = dom.domain
  BY <1>1 DEF SystemAccounted
<1>2. ASSUME NEW budget \in TurnBudgets, RunEmpty(budget)
      PROVE  Truthful(sysAnswer') /\ SystemAccounted'
  <2>1. sys' = sys /\ dom' = dom
    BY <1>2 DEF RunEmpty
  <2>2. /\ sysAnswer'.rc = "EMPTY" /\ sysAnswer'.used = 0 /\ sysAnswer'.budget = budget
        /\ sysAnswer'.exhausted = FALSE /\ sysAnswer'.idle = TRUE
    BY <1>2 DEF RunEmpty, NoAnswer
  <2>3. budget \in Nat
    BY SchedulerAssumption
  <2>4. QED
    BY <2>1, <2>2, <2>3 DEF Truthful, SystemAccounted
<1>3. ASSUME NEW budget \in TurnBudgets, Run(budget)
      PROVE  Truthful(sysAnswer') /\ SystemAccounted'
  <2>1. budget \in Nat
    BY SchedulerAssumption
  <2>2. sysAnswer' = NoAnswer /\ sys'.turns = 0 /\ sys'.left = budget /\ sys'.budget = budget /\ sys'.offset = 0
    BY <1>3 DEF Run, NoCall
  <2>3. QED
    BY <2>1, <2>2, NoAnswerTruthful DEF SystemAccounted
<1>4. CASE GrantDomain
  <2> DEFINE o == Min(DomainOffsets)
             d == (sys.start + o) % NDomains
  <2>1. d \in Domains
    BY <1>0, <1>4, DomainFound DEF GrantDomain
  <2>2. sys' = [sys EXCEPT !.offset = o + 1] /\ dom'.domain = d /\ sysAnswer' = sysAnswer
    BY <1>4 DEF GrantDomain, NoRun
  <2> HIDE DEF o, d
  <2>3. sys'.on = sys.on /\ sys'.turns = sys.turns /\ sys'.left = sys.left /\ sys'.budget = sys.budget
    BY <1>0, <2>2 DEF CallFrame
  <2>4. QED
    BY <2>1, <2>2, <2>3, Sizes DEF SystemAccounted
<1>5. CASE RefuseDomain
  <2>1. sys.turns <= sys.budget
    BY <1>0, <1>5 DEF RefuseDomain, SystemScans, SystemAccounted
  <2>2. Answered("CONTRACT", "CONTRACT", FALSE, sys.turns) /\ sys' = NoCall
    BY <1>5 DEF RefuseDomain
  <2>3. Truthful(sysAnswer')
    BY <1>0, <2>1, <2>2, AnsweredTruthful
  <2>4. ~sys'.on
    BY <2>2 DEF NoCall
  <2>5. QED
    BY <2>3, <2>4 DEF SystemAccounted
<1>6. CASE NextSystemPass
  <2>1. /\ sys'.turns = sys.turns /\ sys'.left = sys.left /\ sys'.budget = sys.budget /\ sys'.offset = 0
        /\ sysAnswer' = sysAnswer /\ sys.on
    BY <1>0, <1>6 DEF NextSystemPass, SystemScans, CallFrame
  <2>2. QED
    BY <2>1 DEF SystemAccounted
<1>7. CASE SystemStops
  <2> DEFINE more == sys.left = 0 /\ WaitingDomains # {}
             stop == IF more THEN "OK" ELSE "EMPTY"
  <2>1. sys' = NoCall /\ sys.on /\ dom.domain = NoDomain
    BY <1>7 DEF SystemStops
  <2>2. sys.turns + sys.left = sys.budget
    BY <2>1 DEF SystemAccounted
  <2>3. \/ Answered("STATE", "STATE", FALSE, sys.turns)
        \/ Answered("OK", stop, more, sys.turns)
    BY <1>7 DEF SystemStops
  <2>4. ~more => WaitingDomains = {}
    <3>1. SUFFICES ASSUME sys.left # 0 PROVE WaitingDomains = {}
      BY DEF more
    <3>2. DomainOffsets = {} /\ ~sys.progressed
      BY <1>7, <3>1 DEF SystemStops
    <3>3. sys.offset = 0
      BY <2>1, <3>2 DEF SystemAccounted
    <3>4. WaitingDomains \subseteq 0..(NDomains - 1)
      BY WaitingTypes, Sizes
    <3>5. QED
      BY <1>0, <3>2, <3>3, <3>4, NoneFound, Sizes DEF DomainOffsets
  <2>5. more => sys.turns = sys.budget /\ WaitingDomains # {}
    BY <1>0, <2>2 DEF more
  <2>6. more \in BOOLEAN /\ (stop = "EMPTY" => ~more) /\ sys.turns <= sys.budget
    BY <1>0, <2>2
  <2> HIDE DEF more, stop
  <2>7. Truthful(sysAnswer')
    <3>1. CASE Answered("STATE", "STATE", FALSE, sys.turns)
      BY <1>0, <2>6, <3>1, AnsweredTruthful
    <3>2. CASE Answered("OK", stop, more, sys.turns)
      BY <1>0, <2>4, <2>5, <2>6, <3>2, AnsweredTruthful
    <3>3. QED
      BY <2>3, <3>1, <3>2
  <2>8. ~sys'.on
    BY <2>1 DEF NoCall
  <2>9. QED
    BY <2>7, <2>8 DEF SystemAccounted
<1>8. CASE DomainReturns
  <2>1. /\ sys.on /\ sys.left > 0 /\ dom.rc # "busy" /\ dom.rc # "EMPTY"
        /\ sys.turns + sys.left = sys.budget
    BY <1>0, <1>8 DEF DomainReturns, Nested, DomainAccounted, SystemAccounted
  <2>2. CASE dom.rc = "OK"
    <3>1. /\ sys' = [sys EXCEPT !.turns = @ + 1, !.left = @ - 1, !.progressed = TRUE, !.made = TRUE]
          /\ sysAnswer' = sysAnswer
      BY <1>8, <2>2 DEF DomainReturns
    <3>2. /\ sys'.turns = sys.turns + 1 /\ sys'.left = sys.left - 1 /\ sys'.budget = sys.budget
          /\ sys'.progressed
      BY <1>0, <3>1 DEF CallFrame
    <3>3. sys'.turns + sys'.left = sys'.budget
      BY <1>0, <2>1, <3>2
    <3>4. QED
      BY <3>1, <3>2, <3>3 DEF SystemAccounted
  <2>3. CASE dom.rc # "OK"
    <3>1. Answered(dom.rc, dom.rc, FALSE, sys.turns + 1) /\ sys' = NoCall
      BY <1>8, <2>3 DEF DomainReturns
    <3>2. sys.turns + 1 \in Nat /\ sys.turns + 1 <= sys.budget
      BY <1>0, <2>1
    <3>3. Truthful(sysAnswer')
      BY <2>1, <2>3, <3>1, <3>2, AnsweredTruthful
    <3>4. ~sys'.on
      BY <3>1 DEF NoCall
    <3>5. QED
      BY <3>3, <3>4 DEF SystemAccounted
  <2>4. QED
    BY <2>2, <2>3
<1>9. QED
  <2>1. CASE (\E a \in Bound : Deliver(a)) \/ UNCHANGED vars \/ QuantumOver
    BY <1>1, <2>1 DEF Deliver, vars, QuantumOver
  <2>2. CASE GrantActor \/ NextDomainPass
    BY <1>0, <1>1, <2>2 DEF GrantActor, NextDomainPass, RunFrame
  <2>3. CASE RefuseActor \/ DomainStops
    BY <1>0, <1>1, <2>3 DEF RefuseActor, DomainStops, DomainAnswers, RunFrame
  <2>4. CASE \E rc \in Outcomes, fed \in SUBSET Bound : HandleOne(rc, fed)
    BY <1>0, <1>1, <2>4 DEF HandleOne, RunFrame
  <2>5. CASE ActorReturns
    BY <1>0, <1>1, <2>5 DEF ActorReturns, RunFrame
  <2>6. QED
    BY <1>2, <1>3, <1>4, <1>5, <1>6, <1>7, <1>8, <2>1, <2>2, <2>3, <2>4, <2>5 DEF Next, PumpStep

LEMMA DomainAnswerNext ==
  ASSUME FrameInv, DomainAccounted, DomainAnswerTrue, "EMPTY" \notin Outcomes, [Next]_vars
  PROVE  DomainAnswerTrue' /\ DomainAccounted'
<1>0. /\ act \in PumpFrame /\ dom \in RunFrame /\ TypeOK /\ Nested
      /\ dom.budget \in Nat /\ dom.left \in Nat /\ dom.processed \in Nat /\ dom.handled \in Nat
      /\ dom.offset \in 0..NActors /\ dom.start \in 0..(NActors - 1)
      /\ dom.progressed \in BOOLEAN /\ dom.made \in BOOLEAN /\ dom.failed \in BOOLEAN
      /\ act.done \in Nat /\ act.left \in Nat /\ act.done <= act.left
      /\ act.rc \in Outcomes \cup {"busy", "OK"} /\ act.rc # "EMPTY"
  BY FrameFields, Sizes DEF FrameInv, TypeOK
\* A domain pump that has the processor: nothing is left to be counted.
<1>1. ASSUME DomainRuns
      PROVE  /\ act = NoPump /\ act.done = 0 /\ act.rc = "busy" /\ dom.domain # NoDomain
             /\ dom.processed + dom.left = dom.budget /\ dom.handled = dom.processed
             /\ ~dom.failed
             /\ ~dom.progressed => dom.offset = 0
             /\ ~dom.made => ~dom.progressed /\ dom.left > 0 /\ WaitingIn(dom.domain) # {}
  <2>1. act = NoPump /\ act.done = 0 /\ act.rc = "busy" /\ dom.domain # NoDomain /\ dom.rc = "busy"
    BY <1>0, <1>1 DEF DomainRuns, Nested, NoPump
  <2>2. QED
    BY <1>0, <1>1, <2>1 DEF DomainRuns, DomainAccounted
\* What DomainAnswers() reports of it.
<1>2. ASSUME DomainRuns, NEW rc \in {"OK", "CONTRACT"}, NEW stop, NEW exhausted \in BOOLEAN,
             DomainAnswers(rc, stop, exhausted),
             exhausted => dom.left = 0 /\ WaitingIn(dom.domain) # {},
             rc = "OK" /\ ~exhausted => WaitingIn(dom.domain) = {},
             stop = "EMPTY" => WaitingIn(dom.domain) = {}
      PROVE  DomainAnswerTrue' /\ DomainAccounted'
  <2> DEFINE idle == (WaitingIn(dom.domain) = {})
             a == domAnswer'
  <2>1. /\ a.rc = rc /\ a.stop = stop /\ a.exhausted = exhausted
        /\ a.budget = dom.budget /\ a.used = dom.processed /\ a.idle = idle
        /\ a.handled = dom.handled /\ a.failed = dom.failed
    BY <1>2 DEF DomainAnswers, NoAnswer
  <2>2. idle \in BOOLEAN /\ (idle <=> WaitingIn(dom.domain) = {})
    OBVIOUS
  <2>3. dom'.rc = rc
    BY <1>0, <1>2 DEF DomainAnswers, RunFrame
  <2> HIDE DEF idle, a
  <2>4. /\ dom.processed <= dom.budget /\ a.handled = dom.processed /\ a.failed = FALSE
        /\ a.exhausted => dom.processed = dom.budget /\ ~idle
        /\ a.rc = "OK" /\ ~a.exhausted => idle
        /\ a.stop = "EMPTY" => idle
    BY <1>0, <1>1, <1>2, <2>1, <2>2
  <2>5. /\ Truthful(a) /\ a.handled = a.used
        /\ a.failed => a.rc # "OK"
        /\ a.rc \notin {"OK", "CONTRACT", "none"} => a.failed
    BY <1>0, <1>2, <2>1, <2>2, <2>4, DomainTruthful
  <2>6. DomainAnswerTrue'
    BY <2>5 DEF DomainAnswerTrue, Truthful, a
  <2>7. DomainAccounted'
    BY <1>2, <2>3 DEF DomainAccounted
  <2>8. QED
    BY <2>6, <2>7
<1>3. CASE /\ domAnswer' = domAnswer \/ domAnswer' = NoAnswer
           /\ dom'.domain = NoDomain \/ (dom' = dom /\ act' = act /\ pend' = pend)
  <2>1. DomainAnswerTrue'
    BY <1>3, NoAnswerTruthful DEF DomainAnswerTrue, Truthful
  <2>2. DomainAccounted'
    BY <1>3 DEF DomainAccounted, WaitingIn, ActorsOf
  <2>3. QED
    BY <2>1, <2>2
<1>4. CASE GrantDomain
  <2> DEFINE o == Min(DomainOffsets)
             d == (sys.start + o) % NDomains
             q == DomainQuantum(d)
  <2>0. PICK e \in WaitingDomains : e = d
    BY <1>0, <1>4, DomainFound DEF GrantDomain
  <2>1. q \in Nat
    BY DomainQuantumType
  <2>2. /\ q > 0 /\ pend' = pend /\ act' = act /\ act = NoPump /\ domAnswer' = NoAnswer
        /\ dom' = [NoRun EXCEPT !.domain = d, !.budget = q, !.left = q, !.start = cursor[d]]
    BY <1>0, <1>4 DEF GrantDomain, SystemScans, Nested, NoRun
  <2> HIDE DEF o, d, q
  <2>3. /\ dom'.domain = e /\ dom'.budget = q /\ dom'.left = q /\ dom'.processed = 0
        /\ dom'.handled = 0 /\ ~dom'.failed /\ dom'.offset = 0 /\ ~dom'.progressed /\ dom'.rc = "busy"
    BY <2>0, <2>2 DEF NoRun
  <2>4. act'.done = 0 /\ act'.rc = "busy"
    BY <2>2 DEF NoPump
  <2>5. WaitingIn(e)' # {}
    BY <2>2 DEF WaitingDomains, WaitingIn, ActorsOf
  <2>6. DomainAccounted'
    BY <2>1, <2>2, <2>3, <2>4, <2>5 DEF DomainAccounted
  <2>7. DomainAnswerTrue'
    BY <2>2, NoAnswerTruthful DEF DomainAnswerTrue, Truthful
  <2>8. QED
    BY <2>6, <2>7
<1>5. CASE GrantActor
  <2> DEFINE o == Min(ActorOffsets)
             a == (dom.start + o) % NActors
             q == Min({Quantum[a], dom.left})
  <2>1. DomainRuns /\ domAnswer' = domAnswer /\ a \in Actors
    BY <1>0, <1>5, ActorFound DEF GrantActor, DomainScans
  <2>2. dom' = [dom EXCEPT !.offset = o + 1] /\ act' = [NoPump EXCEPT !.actor = a, !.left = q]
    BY <1>5 DEF GrantActor
  <2> HIDE DEF o, a, q
  <2>3. /\ dom'.processed = dom.processed /\ dom'.left = dom.left /\ dom'.budget = dom.budget
        /\ dom'.handled = dom.handled /\ dom'.failed = dom.failed /\ dom'.rc = dom.rc
        /\ act'.actor = a /\ act'.done = 0 /\ act'.rc = "busy"
    BY <1>0, <2>2 DEF RunFrame, NoPump
  <2>4. dom.rc = "busy"
    BY <2>1 DEF DomainRuns
  <2>5. DomainAccounted'
    BY <1>0, <1>1, <2>1, <2>3, <2>4, Sizes DEF DomainAccounted
  <2>6. DomainAnswerTrue'
    BY <2>1 DEF DomainAnswerTrue, Truthful
  <2>7. QED
    BY <2>5, <2>6
<1>6. CASE RefuseActor
  BY <1>2, <1>6 DEF RefuseActor, DomainScans
<1>7. CASE NextDomainPass
  <2>1. DomainRuns /\ dom.progressed /\ act' = act /\ pend' = pend /\ domAnswer' = domAnswer
    BY <1>7 DEF NextDomainPass, DomainScans
  <2>2. /\ dom'.processed = dom.processed /\ dom'.left = dom.left /\ dom'.budget = dom.budget
        /\ dom'.handled = dom.handled /\ dom'.failed = dom.failed /\ dom'.rc = dom.rc
        /\ dom'.made = dom.made /\ dom'.offset = 0
    BY <1>0, <1>7 DEF NextDomainPass, RunFrame
  <2>3. dom'.made /\ dom.rc = "busy"
    BY <1>0, <1>1, <2>1, <2>2 DEF DomainRuns
  <2>4. DomainAccounted'
    BY <1>0, <1>1, <2>1, <2>2, <2>3 DEF DomainAccounted
  <2>5. DomainAnswerTrue'
    BY <2>1 DEF DomainAnswerTrue, Truthful
  <2>6. QED
    BY <2>4, <2>5
<1>8. CASE DomainStops
  <2> DEFINE more == dom.left = 0 /\ WaitingIn(dom.domain) # {}
             stop == IF more THEN "OK" ELSE "EMPTY"
  <2>1. DomainRuns /\ (dom.left = 0 \/ (ActorOffsets = {} /\ ~dom.progressed))
    BY <1>8 DEF DomainStops
  <2>2. dom.left # 0 => WaitingIn(dom.domain) = {}
    <3>1. SUFFICES ASSUME dom.left # 0 PROVE WaitingIn(dom.domain) = {}
      OBVIOUS
    <3>2. ActorOffsets = {} /\ dom.offset = 0
      BY <1>1, <2>1, <3>1
    <3>3. WaitingIn(dom.domain) \subseteq 0..(NActors - 1)
      BY WaitingTypes, Sizes
    <3>4. QED
      BY <1>0, <3>2, <3>3, NoneFound, Sizes DEF ActorOffsets
  <2>3. dom.made
    BY <1>0, <1>1, <2>1, <2>2
  <2>4. DomainAnswers("OK", stop, more)
    BY <1>8, <2>3 DEF DomainStops
  <2>5. /\ more \in BOOLEAN /\ (more => dom.left = 0 /\ WaitingIn(dom.domain) # {})
        /\ (~more => WaitingIn(dom.domain) = {}) /\ (stop = "EMPTY" => ~more)
    BY <2>2
  <2> HIDE DEF more, stop
  <2>6. QED
    BY <1>2, <2>1, <2>4, <2>5
<1>9. ASSUME NEW rc \in Outcomes, NEW fed \in SUBSET Bound, HandleOne(rc, fed)
      PROVE  DomainAnswerTrue' /\ DomainAccounted'
  <2>1. act.actor # NoActor /\ act.rc = "busy" /\ rc # "busy" /\ domAnswer' = domAnswer
    BY <1>9, SchedulerAssumption DEF HandleOne, ActorRuns
  <2>2. dom.domain # NoDomain /\ dom.rc = "busy"
    BY <1>0, <2>1 DEF Nested
  <2>3. /\ dom.processed + dom.left = dom.budget /\ dom.handled = dom.processed + act.done
        /\ ~dom.failed
    BY <1>0, <2>1, <2>2 DEF DomainAccounted
  <2>4. /\ act'.actor = act.actor /\ act'.done = act.done + 1
        /\ act'.rc = IF rc = "OK" THEN act.rc ELSE rc
        /\ dom'.processed = dom.processed /\ dom'.left = dom.left /\ dom'.budget = dom.budget
        /\ dom'.handled = dom.handled + 1 /\ dom'.rc = dom.rc
        /\ dom'.failed <=> dom.failed \/ rc # "OK"
    BY <1>0, <1>9 DEF HandleOne, PumpFrame, RunFrame
  <2>5. dom'.handled = dom'.processed + act'.done
    BY <1>0, <2>3, <2>4
  <2>6. DomainAccounted'
    BY <1>0, <2>1, <2>2, <2>3, <2>4, <2>5 DEF DomainAccounted
  <2>7. DomainAnswerTrue'
    BY <2>1 DEF DomainAnswerTrue, Truthful
  <2>8. QED
    BY <2>6, <2>7
<1>10. CASE QuantumOver
  <2>1. act.actor # NoActor /\ act.rc = "busy" /\ domAnswer' = domAnswer /\ dom' = dom
    BY <1>10 DEF QuantumOver, ActorRuns
  <2>2. act'.actor = act.actor /\ act'.done = act.done /\ act'.rc = "OK"
    BY <1>0, <1>10 DEF QuantumOver, PumpFrame
  <2>3. DomainAccounted'
    BY <1>0, <2>1, <2>2 DEF DomainAccounted
  <2>4. DomainAnswerTrue'
    BY <2>1 DEF DomainAnswerTrue, Truthful
  <2>5. QED
    BY <2>3, <2>4
<1>11. CASE ActorReturns
  <2> DEFINE sum == dom.processed + act.done
             rest == dom.left - act.done
  <2>1. /\ act.actor # NoActor /\ act.rc # "busy" /\ act' = NoPump
        /\ dom.domain # NoDomain /\ dom.rc = "busy" /\ act.left <= dom.left
    BY <1>0, <1>11 DEF ActorReturns, Nested
  <2>2. /\ dom.processed + dom.left = dom.budget /\ dom.handled = sum
        /\ dom.failed <=> act.rc # "OK"
    BY <1>0, <2>1 DEF DomainAccounted
  <2>3. act'.done = 0 /\ act'.rc = "busy" /\ act'.actor = NoActor
    BY <2>1 DEF NoPump
  <2>4. CASE act.rc = "OK"
    <3>1. /\ dom' = [dom EXCEPT !.processed = sum, !.left = rest, !.progressed = TRUE, !.made = TRUE]
          /\ domAnswer' = domAnswer
      BY <1>0, <1>11, <2>4 DEF ActorReturns, RunFrame
    <3>2. sum + rest = dom.budget
      BY <1>0, <2>2
    <3> HIDE DEF sum, rest
    <3>3. /\ dom'.processed = sum /\ dom'.left = rest /\ dom'.budget = dom.budget
          /\ dom'.handled = dom.handled /\ dom'.failed = dom.failed /\ dom'.rc = dom.rc
          /\ dom'.progressed /\ dom'.made
      BY <1>0, <3>1 DEF RunFrame
    <3>4. sum \in Nat
      BY <1>0 DEF sum
    <3>5. DomainAccounted'
      BY <1>0, <2>1, <2>2, <2>3, <2>4, <3>2, <3>3, <3>4 DEF DomainAccounted
    <3>6. DomainAnswerTrue'
      BY <3>1 DEF DomainAnswerTrue, Truthful
    <3>7. QED
      BY <3>5, <3>6
  <2>5. CASE act.rc # "OK"
    <3> DEFINE idle == (WaitingIn(dom.domain) = {})
               a == domAnswer'
    <3>1. /\ dom' = [dom EXCEPT !.processed = sum, !.rc = act.rc]
          /\ domAnswer' = [NoAnswer EXCEPT !.rc = act.rc, !.stop = act.rc,
                !.budget = dom.budget, !.used = sum, !.idle = idle,
                !.handled = dom.handled, !.failed = dom.failed]
      BY <1>0, <1>11, <2>5 DEF ActorReturns, RunFrame
    <3>2. sum \in Nat /\ sum <= dom.budget
      BY <1>0, <2>1, <2>2
    <3>3. idle \in BOOLEAN
      OBVIOUS
    <3> HIDE DEF sum, rest, idle
    <3>4. /\ a.rc = act.rc /\ a.stop = act.rc /\ a.exhausted = FALSE
          /\ a.budget = dom.budget /\ a.used = sum /\ a.idle = idle
          /\ a.handled = dom.handled /\ a.failed = dom.failed
      BY <3>1 DEF NoAnswer
    <3>5. dom'.rc = act.rc
      BY <1>0, <3>1 DEF RunFrame
    <3> HIDE DEF a
    <3>6. /\ Truthful(a) /\ a.handled = a.used
          /\ a.failed => a.rc # "OK"
          /\ a.rc \notin {"OK", "CONTRACT", "none"} => a.failed
      BY <1>0, <2>2, <2>5, <3>2, <3>3, <3>4, DomainTruthful
    <3>7. DomainAnswerTrue'
      BY <3>6 DEF DomainAnswerTrue, Truthful, a
    <3>8. DomainAccounted'
      BY <1>0, <2>1, <3>5 DEF DomainAccounted
    <3>9. QED
      BY <3>7, <3>8
  <2>6. QED
    BY <2>4, <2>5
<1>12. QED
  <2>1. CASE \E a \in Bound : Deliver(a)
    BY <1>0, <1>3, <2>1 DEF Deliver, Nested
  <2>2. CASE \E budget \in TurnBudgets : RunEmpty(budget) \/ Run(budget)
    BY <1>3, <2>2 DEF RunEmpty, Run
  <2>3. CASE RefuseDomain \/ NextSystemPass \/ SystemStops
    BY <1>3, <2>3 DEF RefuseDomain, NextSystemPass, SystemStops
  <2>4. CASE DomainReturns
    BY <1>3, <2>4 DEF DomainReturns, NoRun
  <2>5. CASE UNCHANGED vars
    BY <1>3, <2>5 DEF vars
  <2>6. QED
    BY <1>4, <1>5, <1>6, <1>7, <1>8, <1>9, <1>10, <1>11, <2>1, <2>2, <2>3, <2>4, <2>5
       DEF Next, PumpStep

\* What ev_domain_pump_run() and ev_system_pump_run() report is what happened,
\* as long as no handler answers EV_ERR_EMPTY, which the domain pump takes for
\* an empty mailbox.
THEOREM AnswersTruthfulAlways == ASSUME "EMPTY" \notin Outcomes PROVE Spec => []AnswersTruthful
<1>1. Init => AnswerInv
  <2> SUFFICES ASSUME Init PROVE AnswerInv
    OBVIOUS
  <2>1. /\ dom.domain = NoDomain /\ ~sys.on
        /\ domAnswer = NoAnswer /\ sysAnswer = NoAnswer
    BY DEF Init, NoRun, NoCall
  <2>2. QED
    BY <2>1, FrameInit, NoAnswerTruthful
       DEF AnswerInv, DomainAccounted, SystemAccounted, AnswersTruthful
<1>2. AnswerInv /\ [Next]_vars => AnswerInv'
  <2> SUFFICES ASSUME AnswerInv, [Next]_vars PROVE AnswerInv'
    OBVIOUS
  <2>1. FrameInv'
    BY FrameNext DEF AnswerInv
  <2>2. Truthful(sysAnswer') /\ SystemAccounted'
    BY SystemAnswerNext DEF AnswerInv, AnswersTruthful
  <2>3. DomainAnswerTrue' /\ DomainAccounted'
    BY DomainAnswerNext DEF AnswerInv, AnswersTruthful, DomainAnswerTrue
  <2>4. QED
    BY <2>1, <2>2, <2>3 DEF AnswerInv, AnswersTruthful, DomainAnswerTrue, Truthful
<1>3. AnswerInv => AnswersTruthful
  BY DEF AnswerInv
<1>4. QED
  BY <1>1, <1>2, <1>3, PTL DEF Spec
==============================================================================
