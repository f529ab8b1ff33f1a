--------------------------- MODULE AppLoop_proofs ---------------------------
(***************************************************************************)
(* A poll is bounded work, a tick is never early, and a poll that answers  *)
(* OK has left nothing undone, for every limit of the budget, every period *)
(* and every width of the clock.                                           *)
(*                                                                         *)
(* The bounds of PollBounded are kept by the guards once the fields have   *)
(* their types.  NeverAhead needs to know how far the clock and the time   *)
(* the timer phase works with are from each deadline, as signed            *)
(* differences: a tick is published when a deadline has passed `now`, and  *)
(* what has passed now has passed the clock.  OkMeansDone needs what each  *)
(* phase of the poll has settled before the next one begins.               *)
(***************************************************************************)
EXTENDS AppLoop, TLAPS

Budget == [irq : Nat, net : Nat, calls : Nat, turns : Nat, msgs : Nat, exhausted : BOOLEAN]
Round == [reserved : Nat, sampled : BOOLEAN, ticked : BOOLEAN]
Times == 0..(Wrap - 1)
Timing == pc \in {"timers", "timer drain"}

-----------------------------------------------------------------------------
(* The invariant. *)

\* How far the clock is past the deadlines, and the time read by the timers.
TimeInv ==
    /\ Minus(clock, next100) \in -Fast..MaxLag /\ Minus(clock, next1s) \in -Slow..MaxLag
    /\ Timing =>
          /\ Minus(now, next100) \in -Fast..Minus(clock, next100)
          /\ Minus(now, next1s) \in -Slow..Minus(clock, next1s)

NoneDue == ~FastDue /\ ~SlowDue

\* What the phases of the poll have settled.
PhaseInv ==
    /\ pc = "timers" => pend = 0
    /\ pc = "timer drain" /\ ~round.ticked => NoneDue
    /\ pc = "final" /\ rc \notin {"FULL", "ERR"} /\ ~b.exhausted => pend = 0 /\ NoneDue

LoopInv == TypeOK /\ PollBounded /\ TimeInv /\ PhaseInv

-----------------------------------------------------------------------------
(* The clock. *)

\* At most one round of the clock: the remainder is one subtraction.
LEMMA Wrapped ==
  ASSUME NEW t \in Times, NEW n \in 0..(Wrap - 1)
  PROVE  (t + n) % Wrap = (IF t + n < Wrap THEN t + n ELSE t + n - Wrap) /\ (t + n) % Wrap \in Times
<1>1. Wrap \in Nat \ {0}
  BY AppLoopAssumption
<1>2. CASE t + n < Wrap
  BY <1>1, <1>2 DEF Times
<1>3. CASE ~(t + n < Wrap)
  BY <1>1, <1>3 DEF Times
<1>4. QED
  BY <1>2, <1>3

\* The signed difference is the one of x - y and its wrapped values that is
\* in the lower or the upper half of the range.
LEMMA MinusIs ==
  ASSUME NEW x \in Times, NEW y \in Times
  PROVE  /\ Minus(x, y) \in Int
         /\ Minus(x, y) = x - y \/ Minus(x, y) = x - y + Wrap \/ Minus(x, y) = x - y - Wrap
         /\ -Wrap <= 2 * Minus(x, y) + 1 /\ 2 * Minus(x, y) < Wrap
<1> DEFINE half == Wrap \div 2
           d == (x - y + Wrap) % Wrap
<1>1. Wrap \in Nat \ {0} /\ half \in Int /\ 2 * half <= Wrap /\ Wrap <= 2 * half + 1
  BY AppLoopAssumption
<1>2. d = IF x - y < 0 THEN x - y + Wrap ELSE x - y
  <2>1. CASE x - y < 0
    BY <1>1, <2>1 DEF Times
  <2>2. CASE ~(x - y < 0)
    <3>1. (x - y) % Wrap = x - y
      BY <1>1, <2>2 DEF Times
    <3>2. (x - y + Wrap) % Wrap = (x - y) % Wrap
      BY <1>1 DEF Times
    <3>3. QED
      BY <2>2, <3>1, <3>2
  <2>3. QED
    BY <2>1, <2>2
<1>3. Minus(x, y) = IF d < half THEN d ELSE d - Wrap
  BY DEF Minus
<1>4. x \in Int /\ y \in Int /\ 0 <= x /\ x < Wrap /\ 0 <= y /\ y < Wrap
  BY <1>1 DEF Times
<1> HIDE DEF d, half
<1>5. QED
  BY <1>1, <1>2, <1>3, <1>4

\* So a value that is one of the three, well inside the range, is the signed
\* difference.
LEMMA MinusOnly ==
  ASSUME NEW x \in Times, NEW y \in Times, NEW d \in Int,
         d = x - y \/ d = x - y + Wrap \/ d = x - y - Wrap,
         -Slow <= d, d <= MaxLag
  PROVE  Minus(x, y) = d
<1>1. /\ Wrap \in Nat /\ MaxLag \in Nat /\ Slow \in Nat /\ 2 * (MaxLag + Slow) < Wrap /\ Slow >= 1
  BY AppLoopAssumption
<1>2. x \in Int /\ y \in Int
  BY <1>1 DEF Times
<1> DEFINE m == Minus(x, y)
<1>3. /\ m \in Int /\ (m = x - y \/ m = x - y + Wrap \/ m = x - y - Wrap)
      /\ -Wrap <= 2 * m + 1 /\ 2 * m < Wrap
  BY MinusIs
<1> HIDE DEF m
<1>4. m = d \/ m = d + Wrap \/ m = d - Wrap \/ m = d + 2 * Wrap \/ m = d - 2 * Wrap
  BY <1>1, <1>2, <1>3
<1>5. m = d
  BY <1>1, <1>3, <1>4
<1>6. QED
  BY <1>5 DEF m

\* A ms later the difference is one more, and it is a period less for a
\* deadline that moved on by the period.
LEMMA Later ==
  ASSUME NEW t \in Times, NEW y \in Times, Minus(t, y) \in -Slow..(MaxLag - 1)
  PROVE  (t + 1) % Wrap \in Times /\ Minus((t + 1) % Wrap, y) = Minus(t, y) + 1
<1>1. Wrap \in Nat /\ MaxLag \in Nat /\ Slow \in Nat /\ 2 * (MaxLag + Slow) < Wrap /\ Slow >= 1
  BY AppLoopAssumption
<1> DEFINE u == (t + 1) % Wrap
<1>2. u = (IF t + 1 < Wrap THEN t + 1 ELSE t + 1 - Wrap) /\ u \in Times
  BY <1>1, Wrapped
<1>3. t \in Int /\ y \in Int /\ 0 <= t /\ t < Wrap /\ 0 <= y /\ y < Wrap
  BY <1>1 DEF Times
<1> HIDE DEF u
<1>4. Minus(t, y) + 1 = u - y \/ Minus(t, y) + 1 = u - y + Wrap \/ Minus(t, y) + 1 = u - y - Wrap
  BY <1>1, <1>2, <1>3, MinusIs
<1>5. QED
  BY <1>1, <1>2, <1>4, MinusOnly DEF u

LEMMA Postponed ==
  ASSUME NEW t \in Times, NEW y \in Times, NEW n \in 1..Slow, Minus(t, y) \in 0..MaxLag
  PROVE  (y + n) % Wrap \in Times /\ Minus(t, (y + n) % Wrap) = Minus(t, y) - n
<1>1. Wrap \in Nat /\ MaxLag \in Nat /\ Slow \in Nat /\ 2 * (MaxLag + Slow) < Wrap /\ Slow >= 1
  BY AppLoopAssumption
<1> DEFINE z == (y + n) % Wrap
<1>2. z = (IF y + n < Wrap THEN y + n ELSE y + n - Wrap) /\ z \in Times
  BY <1>1, Wrapped
<1>3. t \in Int /\ y \in Int /\ 0 <= t /\ t < Wrap /\ 0 <= y /\ y < Wrap
  BY <1>1 DEF Times
<1> DEFINE m == Minus(t, y)
<1>4. m \in Int /\ (m = t - y \/ m = t - y + Wrap \/ m = t - y - Wrap)
  BY MinusIs
<1>5. 2 * m < Wrap /\ m >= 0 /\ m <= MaxLag
  BY <1>1, MinusIs
<1> HIDE DEF z, m
<1>6. m - n = t - z \/ m - n = t - z + Wrap \/ m - n = t - z - Wrap
  BY <1>1, <1>2, <1>3, <1>4, <1>5
<1>7. m - n \in Int /\ -Slow <= m - n /\ m - n <= MaxLag
  BY <1>1, <1>4, <1>5
<1>8. QED
  BY <1>2, <1>6, <1>7, MinusOnly DEF z, m

\* A deadline set from the clock is a period ahead of it.
LEMMA SetFrom ==
  ASSUME NEW t \in Times, NEW n \in 1..Slow
  PROVE  (t + n) % Wrap \in Times /\ Minus(t, (t + n) % Wrap) = -n
<1>1. Minus(t, t) = 0
  BY AppLoopAssumption, MinusOnly DEF Times
<1>2. QED
  BY <1>1, Postponed, AppLoopAssumption

-----------------------------------------------------------------------------
(* The budget and the round. *)

\* Looking at the budget sets its flag, and nothing else.
LEMMA CheckedFacts ==
  ASSUME NEW x \in Budget
  PROVE  /\ Checked(x) \in Budget /\ (Checked(x).exhausted <=> UsedUp(x))
         /\ Checked(x).irq = x.irq /\ Checked(x).net = x.net /\ Checked(x).calls = x.calls
         /\ Checked(x).turns = x.turns /\ Checked(x).msgs = x.msgs
<1>1. UsedUp(x) \in BOOLEAN
  BY DEF UsedUp
<1>2. ASSUME NEW e \in BOOLEAN
      PROVE  LET y == [x EXCEPT !.exhausted = e]
             IN  /\ y \in Budget /\ y.exhausted = e /\ y.irq = x.irq /\ y.net = x.net
                 /\ y.calls = x.calls /\ y.turns = x.turns /\ y.msgs = x.msgs
  BY DEF Budget
<1>3. QED
  BY <1>1, <1>2, Zenon DEF Checked

\* What one sample adds to the budget and to the round.
IrqCounted(x) == [x EXCEPT !.irq = @ + 1]
NetCounted(x) == [x EXCEPT !.net = @ + 1]
Sampled(r) == [r EXCEPT !.reserved = @ + 1, !.sampled = TRUE]

LEMMA IrqCountedFacts ==
  ASSUME NEW x \in Budget
  PROVE  /\ IrqCounted(x) \in Budget /\ IrqCounted(x).irq = x.irq + 1 /\ IrqCounted(x).net = x.net
         /\ IrqCounted(x).calls = x.calls /\ IrqCounted(x).turns = x.turns
         /\ IrqCounted(x).msgs = x.msgs
<1>1. x.irq + 1 \in Nat
  BY DEF Budget
<1>2. ASSUME NEW n \in Nat PROVE [x EXCEPT !.irq = n] \in Budget
  BY DEF Budget
<1>3. QED
  BY <1>1, <1>2 DEF IrqCounted, Budget

LEMMA NetCountedFacts ==
  ASSUME NEW x \in Budget
  PROVE  /\ NetCounted(x) \in Budget /\ NetCounted(x).net = x.net + 1 /\ NetCounted(x).irq = x.irq
         /\ NetCounted(x).calls = x.calls /\ NetCounted(x).turns = x.turns
         /\ NetCounted(x).msgs = x.msgs
<1>1. x.net + 1 \in Nat
  BY DEF Budget
<1>2. ASSUME NEW n \in Nat PROVE [x EXCEPT !.net = n] \in Budget
  BY DEF Budget
<1>3. QED
  BY <1>1, <1>2 DEF NetCounted, Budget

LEMMA RunCountedFacts ==
  ASSUME NEW x \in Budget, NEW turns \in Nat, NEW msgs \in Nat
  PROVE  /\ RunCounted(x, turns, msgs) \in Budget
         /\ RunCounted(x, turns, msgs).calls = x.calls + 1
         /\ RunCounted(x, turns, msgs).turns = x.turns + turns
         /\ RunCounted(x, turns, msgs).msgs = x.msgs + msgs
         /\ RunCounted(x, turns, msgs).irq = x.irq /\ RunCounted(x, turns, msgs).net = x.net
<1>1. x.calls + 1 \in Nat /\ x.turns + turns \in Nat /\ x.msgs + msgs \in Nat
  BY DEF Budget
<1>2. ASSUME NEW c \in Nat, NEW t \in Nat, NEW m \in Nat
      PROVE  [x EXCEPT !.calls = c, !.turns = t, !.msgs = m] \in Budget
  BY DEF Budget
<1>3. QED
  BY <1>1, <1>2 DEF RunCounted, Budget

LEMMA SampledFacts ==
  ASSUME NEW r \in Round
  PROVE  Sampled(r) \in Round
<1>1. r.reserved + 1 \in Nat
  BY DEF Round
<1>2. ASSUME NEW n \in Nat PROVE [r EXCEPT !.reserved = n, !.sampled = TRUE] \in Round
  BY DEF Round
<1>3. QED
  BY <1>1, <1>2 DEF Sampled

\* Raising the flag of the budget keeps its counts.
SameCounts(x, y) ==
    x.irq = y.irq /\ x.net = y.net /\ x.calls = y.calls /\ x.turns = y.turns /\ x.msgs = y.msgs

LEMMA FlaggedFacts ==
  ASSUME NEW x \in Budget, NEW e \in BOOLEAN
  PROVE  /\ [x EXCEPT !.exhausted = e] \in Budget /\ [x EXCEPT !.exhausted = e].exhausted = e
         /\ SameCounts([x EXCEPT !.exhausted = e], x)
  BY DEF Budget, SameCounts

\* TypeOK, spelled out.
LEMMA TypeFacts ==
  ASSUME TypeOK
  PROVE  /\ irq \in Nat /\ net \in Nat /\ pend \in Nat /\ pend \in 0..MaxPend
         /\ clock \in Times /\ next100 \in Times /\ next1s \in Times /\ now \in Times
         /\ b \in Budget /\ round \in Round
<1>1. irq \in 0..RingCap /\ net \in 0..RingCap /\ pend \in 0..MaxPend
  BY Zenon DEF TypeOK
<1>2. {clock, next100, next1s, now} \subseteq Times
  BY Zenon DEF TypeOK, Times
<1>3. b \in Budget /\ round \in Round
  BY Zenon DEF TypeOK, Budget, Round
<1>4. RingCap \in Nat /\ MaxPend \in Nat
  BY AppLoopAssumption
<1>5. QED
  BY <1>1, <1>2, <1>3, <1>4

\* The end of a drain, in both phases.
LEMMA DrainedFacts ==
  ASSUME TypeOK, NEW then, Drained(then)
  PROVE  /\ b' \in Budget /\ SameCounts(b', b)
         /\ b'.exhausted \/ pend = 0
         /\ pc' = IF b'.exhausted THEN "final" ELSE then
<1>1. b \in Budget /\ b.exhausted \in BOOLEAN /\ UsedUp(b) \in BOOLEAN /\ pend \in Nat
  <2>1. b \in Budget /\ pend \in Nat
    BY TypeFacts
  <2>2. UsedUp(b) \in BOOLEAN
    BY DEF UsedUp
  <2>3. QED
    BY <2>1, <2>2 DEF Budget
<1>2. PICK e \in BOOLEAN : e <=> b.exhausted \/ (pend > 0 /\ UsedUp(b))
  BY <1>1
<1>3. b' = [b EXCEPT !.exhausted = e]
  <2>1. (b.exhausted \/ (pend > 0 /\ UsedUp(b))) = e
    BY <1>1, <1>2
  <2>2. b' = [b EXCEPT !.exhausted = (b.exhausted \/ (pend > 0 /\ UsedUp(b)))]
    BY DEF Drained
  <2>3. QED
    BY <2>1, <2>2, Zenon
<1>4. b' \in Budget /\ SameCounts(b', b) /\ b'.exhausted = e
  BY <1>1, <1>3, FlaggedFacts
<1>5. b'.exhausted \/ pend = 0
  <2>1. pend = 0 \/ b.exhausted \/ UsedUp(b)
    BY DEF Drained
  <2>2. QED
    BY <1>1, <1>2, <1>4, <2>1
<1>6. pc' = IF b'.exhausted THEN "final" ELSE then
  BY DEF Drained
<1>7. QED
  BY <1>4, <1>5, <1>6

-----------------------------------------------------------------------------
(* The steps. *)

LEMMA Monotone ==
  ASSUME NEW k \in Nat, NEW n \in Nat, NEW m \in 1..n
  PROVE  m * k <= n * k /\ m * k \in Nat
<1>1. (n - m) * k \in Nat /\ n * k = (n - m) * k + m * k /\ m * k \in Nat
  OBVIOUS
<1>2. QED
  BY <1>1

\* The limits of one poll, kept by every step.
LEMMA BudgetNext ==
  ASSUME TypeOK, PollBounded, Next
  PROVE  b' \in Budget /\ PollBounded'
<1>1. /\ b \in Budget /\ b.irq \in Nat /\ b.net \in Nat /\ b.calls \in Nat /\ b.turns \in Nat
      /\ b.msgs \in Nat /\ b.exhausted \in BOOLEAN
  BY DEF TypeOK, Budget
<1>2. /\ MaxIrq \in Nat \ {0} /\ MaxNet \in Nat \ {0} /\ MaxTurns \in Nat \ {0} /\ MaxMessages \in Nat \ {0}
      /\ TurnBudget \in Nat \ {0} /\ Quantum \in Nat \ {0}
  BY AppLoopAssumption
\* A budget with the same counts is within the same limits.
<1>3. ASSUME b' \in Budget, SameCounts(b', b) PROVE PollBounded'
  BY <1>3 DEF SameCounts, PollBounded
<1>4. ASSUME b' = b PROVE b' \in Budget /\ PollBounded'
  BY <1>1, <1>3, <1>4 DEF SameCounts
<1>5. CASE Environment \/ StartPoll \/ Restart \/ NoTick
  BY <1>4, <1>5 DEF Environment, StartPoll, Restart, NoTick
<1>6. CASE TakeIrq
  <2>1. b' = Checked(IrqCounted(b)) \/ b' = IrqCounted(b)
    BY <1>6 DEF TakeIrq, IrqCounted
  <2>2. /\ b' \in Budget /\ b'.irq = b.irq + 1 /\ b'.net = b.net /\ b'.calls = b.calls
        /\ b'.turns = b.turns /\ b'.msgs = b.msgs
    BY <1>1, <2>1, IrqCountedFacts, CheckedFacts
  <2>3. b.irq < MaxIrq
    BY <1>6 DEF TakeIrq, IrqOpen
  <2>4. QED
    BY <1>1, <1>2, <2>2, <2>3 DEF PollBounded
<1>7. CASE TakeNet
  <2>1. b' = Checked(NetCounted(b)) \/ b' = NetCounted(b)
    BY <1>7 DEF TakeNet, NetCounted
  <2>2. /\ b' \in Budget /\ b'.net = b.net + 1 /\ b'.irq = b.irq /\ b'.calls = b.calls
        /\ b'.turns = b.turns /\ b'.msgs = b.msgs
    BY <1>1, <2>1, NetCountedFacts, CheckedFacts
  <2>3. b.net < MaxNet
    BY <1>7 DEF TakeNet, NetOpen
  <2>4. QED
    BY <1>1, <1>2, <2>2, <2>3 DEF PollBounded
<1>8. CASE IrqTaken \/ NetTaken
  <2>1. PICK e \in BOOLEAN : b' = [b EXCEPT !.exhausted = e]
    <3>1. (b.exhausted \/ b.irq >= MaxIrq) \in BOOLEAN /\ (b.exhausted \/ b.net >= MaxNet) \in BOOLEAN
      BY <1>1
    <3>2. QED
      BY <1>8, <3>1, Zenon DEF IrqTaken, NetTaken
  <2>2. b' \in Budget /\ SameCounts(b', b)
    BY <1>1, <2>1, FlaggedFacts
  <2>3. QED
    BY <1>3, <2>2
<1>9. CASE PumpRun \/ PumpFails
  <2>1. PICK turns \in 1..TurnBudget, msgs \in Nat :
           /\ msgs <= turns * Quantum
           /\ b' = Checked(RunCounted(b, turns, msgs)) \/ b' = RunCounted(b, turns, msgs)
    <3>1. PICK turns \in 1..TurnBudget : \E msgs \in turns..(turns * Quantum) :
             b' = Checked(RunCounted(b, turns, msgs)) \/ b' = RunCounted(b, turns, msgs)
      BY <1>9 DEF PumpRun, PumpFails
    <3>2. QED
      BY <1>2, <3>1
  <2>2. /\ b' \in Budget /\ b'.irq = b.irq /\ b'.net = b.net /\ b'.calls = b.calls + 1
        /\ b'.turns = b.turns + turns /\ b'.msgs = b.msgs + msgs
    <3>1. turns \in Nat
      BY <1>2
    <3> DEFINE y == RunCounted(b, turns, msgs)
    <3>2. /\ y \in Budget /\ y.irq = b.irq /\ y.net = b.net /\ y.calls = b.calls + 1
          /\ y.turns = b.turns + turns /\ y.msgs = b.msgs + msgs
      <4>1. y \in Budget
        BY <1>1, <3>1, RunCountedFacts
      <4>2. y.irq = b.irq
        BY <1>1, <3>1, RunCountedFacts
      <4>3. y.net = b.net
        BY <1>1, <3>1, RunCountedFacts
      <4>4. y.calls = b.calls + 1
        BY <1>1, <3>1, RunCountedFacts
      <4>5. y.turns = b.turns + turns
        BY <1>1, <3>1, RunCountedFacts
      <4>6. y.msgs = b.msgs + msgs
        BY <1>1, <3>1, RunCountedFacts
      <4>7. QED
        BY <4>1, <4>2, <4>3, <4>4, <4>5, <4>6
    <3>3. b' = Checked(y) \/ b' = y
      BY <2>1
    <3> HIDE DEF y
    <3>4. QED
      BY <3>2, <3>3, CheckedFacts
  <2>3. b.calls < MaxTurns /\ b.turns < MaxTurns /\ b.msgs < MaxMessages
    BY <1>1, <1>2, <1>9 DEF PumpRun, PumpFails, UsedUp
  <2>4. msgs <= TurnBudget * Quantum /\ TurnBudget * Quantum \in Nat
    <3>1. turns * Quantum <= TurnBudget * Quantum /\ turns * Quantum \in Nat
      BY <1>2, Monotone
    <3>2. TurnBudget * Quantum \in Nat
      BY <1>2
    <3>3. QED
      BY <2>1, <3>1, <3>2
  <2> DEFINE most == TurnBudget * Quantum
  <2> HIDE DEF most
  <2>5. msgs <= most /\ most \in Nat
    BY <2>4 DEF most
  <2>6. b'.msgs <= MaxMessages - 1 + most
    BY <1>1, <1>2, <2>2, <2>3, <2>5
  <2>7. QED
    BY <1>1, <1>2, <2>2, <2>3, <2>6 DEF PollBounded, most
<1>10. CASE IngressDrained \/ TimersDrained
  <2>1. b' \in Budget /\ SameCounts(b', b)
    BY <1>10, DrainedFacts DEF IngressDrained, TimersDrained
  <2>2. QED
    BY <1>3, <2>1
<1>11. CASE FastTick \/ SlowTick
  <2>1. b' \in Budget /\ SameCounts(b', b)
    BY <1>1, <1>11, CheckedFacts DEF FastTick, SlowTick, Tick, SameCounts
  <2>2. QED
    BY <1>3, <2>1
<1>12. CASE EndPoll
  <2>1. b' = NoBudget /\ NoBudget \in Budget
    BY <1>12 DEF EndPoll, NoBudget, Budget
  <2>2. TurnBudget * Quantum \in Nat
    BY <1>2
  <2> DEFINE most == TurnBudget * Quantum
  <2> HIDE DEF most
  <2>3. 0 <= MaxMessages - 1 + most
    BY <1>2, <2>2 DEF most
  <2>4. QED
    BY <1>2, <2>1, <2>3 DEF PollBounded, NoBudget, most
<1>13. QED
  BY <1>5, <1>6, <1>7, <1>8, <1>9, <1>10, <1>11, <1>12 DEF Next, Poll

LEMMA TypeNext ==
  ASSUME TypeOK, PollBounded, Next
  PROVE  TypeOK'
<1>1. /\ irq \in 0..RingCap /\ net \in 0..RingCap /\ pend \in 0..MaxPend
      /\ clock \in Times /\ next100 \in Times /\ next1s \in Times /\ now \in Times
      /\ round \in Round /\ NoRound \in Round
      /\ rc \in {"OK", "PARTIAL", "FULL", "ERR"}
      /\ pc \in {"wait", "irq", "net", "drain", "timers", "timer drain", "final", "failed"}
  <2>1. irq \in 0..RingCap /\ net \in 0..RingCap /\ rc \in {"OK", "PARTIAL", "FULL", "ERR"}
    BY Zenon DEF TypeOK
  <2>2. pc \in {"wait", "irq", "net", "drain", "timers", "timer drain", "final", "failed"}
    BY Zenon DEF TypeOK
  <2>3. NoRound \in Round
    BY DEF NoRound, Round
  <2>4. QED
    BY <2>1, <2>2, <2>3, TypeFacts
<1>2. /\ RingCap \in Nat /\ MaxPend \in Nat \ {0} /\ FanOut \in Nat \ {0} /\ Wrap \in Nat \ {0}
      /\ Fast \in 1..Slow /\ Slow \in 1..Slow /\ 0 \in Times /\ Slow < Wrap
  BY AppLoopAssumption DEF Times
<1> DEFINE Ring == 0..RingCap
           Pend == 0..MaxPend
<1>13. /\ \A n \in Ring : n \in Nat /\ (n < RingCap => n + 1 \in Ring) /\ (n > 0 => n - 1 \in Ring)
       /\ 0 \in Ring /\ irq \in Ring /\ net \in Ring
  <2>1. \A n \in Ring : n \in Nat /\ (n < RingCap => n + 1 \in Ring) /\ (n > 0 => n - 1 \in Ring)
    BY <1>2
  <2>2. 0 \in Ring
    BY <1>2
  <2>3. QED
    BY <1>1, <2>1, <2>2
<1>14. /\ 0 \in Pend /\ pend \in Pend
       /\ \A n \in Pend, k \in 0..FanOut : n + k <= MaxPend => n + k \in Pend
  <2>1. \A n \in Pend, k \in 0..FanOut : n + k <= MaxPend => n + k \in Pend
    BY <1>2
  <2>2. 0 \in Pend
    BY <1>2
  <2>3. QED
    BY <1>1, <2>1, <2>2
<1>15. \A n \in Pend : n > 0 => (n - 1)..MaxPend \subseteq Pend
  BY <1>2
<1>16. 1..MaxPend \subseteq Pend /\ 0..(FanOut - 1) \subseteq 0..FanOut
  BY <1>2
<1> HIDE DEF Ring, Pend
\* The parts of the type, each by itself.
<1>3. irq' \in Ring /\ net' \in Ring
  BY <1>13 DEF Next, Poll, Environment, IrqArrives, NetArrives, TimePasses, StartPoll, Restart,
     TakeIrq, IrqTaken, TakeNet, NetTaken, PumpRun, PumpFails, IngressDrained, TimersDrained,
     FastTick, SlowTick, Tick, NoTick, EndPoll
<1>4. pend' \in Pend
  <2>1. Published => pend' \in Pend
    BY <1>14, <1>15, <1>16 DEF Published
  <2>2. PublishFails => pend' \in Pend
    BY <1>14, <1>15, <1>16 DEF PublishFails
  <2>3. PumpRun => pend' \in Pend
    BY DEF PumpRun, Pend
  <2>4. PumpFails => pend' \in Pend
    BY DEF PumpFails, Pend
  <2>5. QED
    BY <1>14, <1>15, <1>16, <2>1, <2>2, <2>3, <2>4 DEF Next, Poll, Environment, StartPoll, Restart,
       TakeIrq, IrqTaken, TakeNet, NetTaken, IngressDrained, TimersDrained, FastTick, SlowTick,
       Tick, NoTick, EndPoll
<1>5. clock' \in Times
  <2>1. TimePasses => clock' \in Times
    <3>1. 1 \in 0..(Wrap - 1)
      BY <1>2
    <3>2. (clock + 1) % Wrap \in Times
      BY <1>1, <3>1, Wrapped
    <3>3. QED
      BY <3>2 DEF TimePasses
  <2>2. QED
    BY <1>1, <2>1 DEF Next, Poll, Environment, IrqArrives, NetArrives, StartPoll, Restart,
       TakeIrq, IrqTaken, TakeNet, NetTaken, PumpRun, PumpFails, IngressDrained, TimersDrained,
       FastTick, SlowTick, Tick, NoTick, EndPoll
<1>6. next100' \in Times /\ next1s' \in Times
  <2>1. \A t \in Times : (t + Fast) % Wrap \in Times /\ (t + Slow) % Wrap \in Times
    BY <1>2, Wrapped
  <2>2. QED
    BY <1>1, <2>1 DEF Next, Poll, Environment, StartPoll, Restart,
       TakeIrq, IrqTaken, TakeNet, NetTaken, PumpRun, PumpFails, IngressDrained, TimersDrained,
       FastTick, SlowTick, NoTick, EndPoll
<1>7. now' \in Times
  BY <1>1, <1>2 DEF Next, Poll, Environment, StartPoll, Restart,
     TakeIrq, IrqTaken, TakeNet, NetTaken, PumpRun, PumpFails, IngressDrained, TimersDrained,
     FastTick, SlowTick, Tick, NoTick, EndPoll
<1>8. pc' \in {"wait", "irq", "net", "drain", "timers", "timer drain", "final", "failed"}
  BY <1>1 DEF Next, Poll, Environment, StartPoll, Restart,
     TakeIrq, IrqTaken, TakeNet, NetTaken, PumpRun, PumpFails, IngressDrained, TimersDrained,
     FastTick, SlowTick, Tick, NoTick, EndPoll, PublishFails, Drained
<1>9. rc' \in {"OK", "PARTIAL", "FULL", "ERR"}
  BY <1>1 DEF Next, Poll, Environment, StartPoll, Restart,
     TakeIrq, IrqTaken, TakeNet, NetTaken, PumpRun, PumpFails, IngressDrained, TimersDrained,
     FastTick, SlowTick, Tick, NoTick, EndPoll, PublishFails
<1>10. round' \in Round
  <2>1. TakeIrq \/ TakeNet => round' = Sampled(round)
    BY DEF TakeIrq, TakeNet, Sampled
  <2>2. IrqTaken => round' \in Round
    BY <1>1 DEF IrqTaken, Round
  <2>3. Tick => round' \in Round
    BY <1>1 DEF Tick, Round
  <2>4. QED
    BY <1>1, <2>1, <2>2, <2>3, SampledFacts DEF Next, Poll, Environment, StartPoll, Restart,
       NetTaken, PumpRun, PumpFails, IngressDrained, TimersDrained, FastTick, SlowTick, NoTick, EndPoll
<1>11. b' \in Budget
  BY BudgetNext
<1>12. QED
  BY <1>3, <1>4, <1>5, <1>6, <1>7, <1>8, <1>9, <1>10, <1>11 DEF TypeOK, Budget, Round, Times, Ring, Pend

\* The distances to the deadlines.
LEMMA TimeNext ==
  ASSUME TypeOK, TimeInv, Next
  PROVE  TimeInv'
<1>1. clock \in Times /\ next100 \in Times /\ next1s \in Times /\ now \in Times
  BY TypeFacts
<1>2. Fast \in 1..Slow /\ Slow \in 1..Slow /\ Fast \in Nat /\ Slow \in Nat /\ MaxLag \in Nat
  BY AppLoopAssumption
<1> DEFINE c100 == Minus(clock, next100)
           c1s == Minus(clock, next1s)
           n100 == Minus(now, next100)
           n1s == Minus(now, next1s)
<1>3. c100 \in -Fast..MaxLag /\ c1s \in -Slow..MaxLag
  BY DEF TimeInv
<1>4. Timing => n100 \in -Fast..c100 /\ n1s \in -Slow..c1s
  BY DEF TimeInv
<1>14. c100 \in Int /\ c1s \in Int /\ -Fast <= c100 /\ c100 <= MaxLag /\ -Slow <= c1s /\ c1s <= MaxLag
  BY <1>2, <1>3
<1>15. Timing =>
          n100 \in Int /\ n1s \in Int /\ -Fast <= n100 /\ n100 <= c100 /\ -Slow <= n1s /\ n1s <= c1s
  BY <1>2, <1>4, <1>14
<1>5. ASSUME UNCHANGED <<clock, next100, next1s>>, ~Timing' \/ (Timing /\ UNCHANGED now)
      PROVE  TimeInv'
  <2>1. c100' = c100 /\ c1s' = c1s
    BY <1>5
  <2>2. Timing' => Timing /\ n100' = n100 /\ n1s' = n1s
    BY <1>5
  <2>3. QED
    BY <1>3, <1>4, <2>1, <2>2 DEF TimeInv
<1>6. CASE StartPoll \/ TakeIrq \/ IrqTaken \/ TakeNet \/ NetTaken \/ PumpFails \/ EndPoll
  <2>1. UNCHANGED <<clock, next100, next1s>>
    BY <1>6 DEF StartPoll, TakeIrq, IrqTaken, TakeNet, NetTaken, PumpFails, EndPoll
  <2>2. pc' \in {"wait", "irq", "net", "drain", "final", "failed"}
    BY <1>6 DEF StartPoll, TakeIrq, IrqTaken, TakeNet, NetTaken, PumpFails, EndPoll, PublishFails
  <2>3. QED
    BY <1>5, <2>1, <2>2 DEF Timing
<1>7. CASE PumpRun \/ TimersDrained \/ NoTick
  <2>1. UNCHANGED <<clock, next100, next1s, now>>
    BY <1>7 DEF PumpRun, TimersDrained, NoTick
  <2>2. Timing' => Timing
    BY <1>7 DEF PumpRun, TimersDrained, NoTick, Drained, Timing
  <2>3. QED
    BY <1>5, <2>1, <2>2
<1>8. CASE Environment
  <2>1. CASE IrqArrives \/ NetArrives
    BY <1>5, <1>8, <2>1 DEF Environment, IrqArrives, NetArrives, Timing
  <2>2. CASE TimePasses
    <3>1. clock' = (clock + 1) % Wrap /\ c100 < MaxLag /\ c1s < MaxLag
      BY <2>2 DEF TimePasses
    <3>2. UNCHANGED <<next100, next1s, pc, now>>
      BY <1>8 DEF Environment
    <3>3. c100 \in -Slow..(MaxLag - 1) /\ c1s \in -Slow..(MaxLag - 1)
      BY <1>2, <1>3, <3>1
    <3>4. c100' = c100 + 1 /\ c1s' = c1s + 1
      BY <1>1, <3>1, <3>2, <3>3, Later
    <3>5. n100' = n100 /\ n1s' = n1s /\ (Timing' => Timing)
      BY <3>2 DEF Timing
    <3> HIDE DEF c100, c1s, n100, n1s
    <3>6. c100' \in -Fast..MaxLag /\ c1s' \in -Slow..MaxLag
      BY <1>2, <1>3, <3>1, <3>4
    <3>7. Timing' => n100' \in -Fast..c100' /\ n1s' \in -Slow..c1s'
      BY <1>2, <1>3, <1>4, <3>4, <3>5
    <3>8. QED
      BY <3>6, <3>7 DEF TimeInv, c100, c1s, n100, n1s
  <2>3. QED
    BY <1>8, <2>1, <2>2 DEF Environment
<1>9. CASE Restart
  <2>1. next100' = (clock + Fast) % Wrap /\ next1s' = (clock + Slow) % Wrap /\ clock' = clock /\ pc' = "wait"
    BY <1>9 DEF Restart
  <2>2. c100' = -Fast /\ c1s' = -Slow
    BY <1>1, <1>2, <2>1, SetFrom
  <2>3. c100' \in -Fast..MaxLag /\ c1s' \in -Slow..MaxLag
    BY <1>2, <2>2
  <2>4. QED
    BY <2>1, <2>3 DEF TimeInv, Timing
\* The timer phase begins with the clock of the moment.
<1>10. CASE IngressDrained
  <2>1. UNCHANGED <<clock, next100, next1s>> /\ (pc' = "timers" => now' = clock)
    BY <1>10 DEF IngressDrained
  <2>2. pc' \in {"irq", "timers", "final"}
    BY <1>10 DEF IngressDrained, Drained
  <2>3. c100' = c100 /\ c1s' = c1s
    BY <2>1
  <2>4. pc' = "timers" => n100' = c100 /\ n1s' = c1s
    BY <2>1
  <2> HIDE DEF c100, c1s, n100, n1s
  <2>5. Timing' => n100' \in -Fast..c100' /\ n1s' \in -Slow..c1s'
    <3>1. Timing' => pc' = "timers"
      BY <2>2 DEF Timing
    <3>2. c100 \in -Fast..c100 /\ c1s \in -Slow..c1s
      BY <1>2, <1>14
    <3>3. QED
      BY <2>3, <2>4, <3>1, <3>2
  <2>6. QED
    BY <1>3, <2>3, <2>5 DEF TimeInv, c100, c1s, n100, n1s
\* A tick is published when its deadline has passed now, and so the clock.
<1>11. CASE FastTick
  <2>1. /\ pc = "timers" /\ pc' = "timer drain" /\ next100' = (next100 + Fast) % Wrap
        /\ UNCHANGED <<clock, next1s, now>> /\ n100 >= 0
    BY <1>11 DEF FastTick, Tick, FastFirst, FastDue, Due
  <2>2. n100 \in 0..MaxLag /\ c100 \in 0..MaxLag
    <3>1. Timing /\ n100 >= 0
      BY <2>1 DEF Timing
    <3> HIDE DEF c100, c1s, n100, n1s
    <3>2. n100 \in Int /\ c100 \in Int /\ 0 <= n100 /\ n100 <= c100 /\ c100 <= MaxLag
      BY <1>14, <1>15, <3>1
    <3>3. QED
      BY <1>2, <3>2
  <2>3. c100' = c100 - Fast /\ n100' = n100 - Fast
    BY <1>1, <1>2, <2>1, <2>2, Postponed
  <2>4. c1s' = c1s /\ n1s' = n1s
    BY <2>1
  <2> HIDE DEF c100, c1s, n100, n1s
  <2>5. c100' \in -Fast..MaxLag /\ c1s' \in -Slow..MaxLag
    BY <1>2, <1>3, <2>2, <2>3, <2>4
  <2>6. n100' \in -Fast..c100' /\ n1s' \in -Slow..c1s'
    <3>1. Timing
      BY <2>1 DEF Timing
    <3>2. QED
      BY <1>2, <1>14, <1>15, <2>2, <2>3, <2>4, <3>1
  <2>7. QED
    BY <2>5, <2>6 DEF TimeInv, c100, c1s, n100, n1s
<1>12. CASE SlowTick
  <2>1. /\ pc = "timers" /\ pc' = "timer drain" /\ next1s' = (next1s + Slow) % Wrap
        /\ UNCHANGED <<clock, next100, now>> /\ n1s >= 0
    BY <1>12 DEF SlowTick, Tick, SlowDue, Due
  <2>2. n1s \in 0..MaxLag /\ c1s \in 0..MaxLag
    <3>1. Timing /\ n1s >= 0
      BY <2>1 DEF Timing
    <3> HIDE DEF c100, c1s, n100, n1s
    <3>2. n1s \in Int /\ c1s \in Int /\ 0 <= n1s /\ n1s <= c1s /\ c1s <= MaxLag
      BY <1>14, <1>15, <3>1
    <3>3. QED
      BY <1>2, <3>2
  <2>3. c1s' = c1s - Slow /\ n1s' = n1s - Slow
    BY <1>1, <1>2, <2>1, <2>2, Postponed
  <2>4. c100' = c100 /\ n100' = n100
    BY <2>1
  <2> HIDE DEF c100, c1s, n100, n1s
  <2>5. c100' \in -Fast..MaxLag /\ c1s' \in -Slow..MaxLag
    BY <1>2, <1>3, <2>2, <2>3, <2>4
  <2>6. n100' \in -Fast..c100' /\ n1s' \in -Slow..c1s'
    <3>1. Timing
      BY <2>1 DEF Timing
    <3>2. QED
      BY <1>2, <1>14, <1>15, <2>2, <2>3, <2>4, <3>1
  <2>7. QED
    BY <2>5, <2>6 DEF TimeInv, c100, c1s, n100, n1s
<1>13. QED
  BY <1>6, <1>7, <1>8, <1>9, <1>10, <1>11, <1>12 DEF Next, Poll

\* What each phase of the poll settles before the next one begins.
LEMMA PhaseNext ==
  ASSUME TypeOK, PhaseInv, Next
  PROVE  PhaseInv'
<1>1. ASSUME pc' \notin {"timers", "timer drain", "final"} PROVE PhaseInv'
  BY <1>1 DEF PhaseInv
<1>2. ASSUME pc' = "final", rc' \in {"FULL", "ERR"} PROVE PhaseInv'
  BY <1>2 DEF PhaseInv
<1>3. CASE StartPoll \/ Restart \/ IrqTaken \/ NetTaken
  BY <1>1, <1>3 DEF StartPoll, Restart, IrqTaken, NetTaken
<1>4. CASE PumpFails
  BY <1>2, <1>4 DEF PumpFails
<1>5. CASE TakeIrq \/ TakeNet
  BY <1>1, <1>2, <1>5 DEF TakeIrq, TakeNet, PublishFails
<1>6. CASE EndPoll
  BY <1>1, <1>6 DEF EndPoll
<1>7. CASE Environment
  <2>1. UNCHANGED <<pend, next100, next1s, pc, b, round, now, rc>>
    BY <1>7 DEF Environment
  <2>2. QED
    BY <2>1 DEF PhaseInv, NoneDue, FastDue, SlowDue
<1>8. CASE PumpRun
  <2>1. pc' \in {"drain", "timer drain"} /\ UNCHANGED <<pc, next100, next1s, round, now>>
    BY <1>8 DEF PumpRun, Draining
  <2>2. QED
    BY <2>1 DEF PhaseInv, NoneDue, FastDue, SlowDue
<1>9. CASE IngressDrained
  <2>1. /\ b'.exhausted \/ pend = 0
        /\ pc' = IF b'.exhausted THEN "final" ELSE IF round.sampled THEN "irq" ELSE "timers"
        /\ pend' = pend
    BY <1>9, DrainedFacts DEF IngressDrained
  <2>2. QED
    BY <2>1 DEF PhaseInv
<1>10. CASE TimersDrained
  <2>1. /\ b'.exhausted \/ pend = 0
        /\ pc' = IF b'.exhausted THEN "final" ELSE IF round.ticked THEN "timers" ELSE "final"
        /\ UNCHANGED <<pend, next100, next1s, now>> /\ pc = "timer drain"
    <3> DEFINE then == IF round.ticked THEN "timers" ELSE "final"
    <3>1. Drained(then) /\ UNCHANGED <<pend, next100, next1s, now>> /\ pc = "timer drain"
      BY <1>10 DEF TimersDrained
    <3>2. b'.exhausted \/ pend = 0
      BY <3>1, DrainedFacts
    <3>3. pc' = IF b'.exhausted THEN "final" ELSE then
      BY <3>1 DEF Drained
    <3>4. QED
      BY <3>1, <3>2, <3>3
  <2>2. ~round.ticked => NoneDue /\ NoneDue'
    BY <2>1 DEF PhaseInv, NoneDue, FastDue, SlowDue
  <2>3. QED
    BY <2>1, <2>2 DEF PhaseInv
<1>11. CASE FastTick \/ SlowTick
  <2>1. pc' = "timer drain" /\ round'.ticked
    BY <1>11, TypeFacts DEF FastTick, SlowTick, Tick, Round
  <2>2. QED
    BY <2>1 DEF PhaseInv
<1>12. CASE NoTick
  <2>1. pc' = "timer drain" /\ UNCHANGED <<next100, next1s, now>> /\ NoneDue
    <3>1. pend = 0
      BY <1>12 DEF NoTick, PhaseInv
    <3>2. ~(pend > 0)
      BY <3>1
    <3>3. NoneDue
      BY <1>12, <3>2, Zenon DEF NoTick, NoneDue
    <3>4. QED
      BY <1>12, <3>3 DEF NoTick
  <2>2. QED
    BY <2>1 DEF PhaseInv, NoneDue, FastDue, SlowDue
<1>13. QED
  BY <1>3, <1>4, <1>5, <1>6, <1>7, <1>8, <1>9, <1>10, <1>11, <1>12 DEF Next, Poll

LEMMA InvInit == Init => LoopInv
<1> SUFFICES ASSUME Init PROVE LoopInv
  OBVIOUS
<1>1. /\ RingCap \in Nat /\ MaxPend \in Nat /\ Fast \in 1..Slow /\ Slow \in 1..Slow /\ Slow < Wrap
      /\ Slow \in Nat /\ Fast \in Nat /\ MaxLag \in Nat /\ 0 \in Times
  BY AppLoopAssumption DEF Times
<1>2. next100 \in Times /\ next1s \in Times /\ Minus(clock, next100) = -Fast /\ Minus(clock, next1s) = -Slow
  BY <1>1, SetFrom DEF Init
<1>3. TypeOK
  <2>1. irq \in 0..RingCap /\ net \in 0..RingCap /\ pend \in 0..MaxPend
    BY <1>1 DEF Init
  <2>2. b \in Budget /\ round \in Round
    BY DEF Init, NoBudget, NoRound, Budget, Round
  <2>3. {clock, next100, next1s, now} \subseteq 0..(Wrap - 1)
    BY <1>1, <1>2 DEF Init, Times
  <2>4. pc = "wait" /\ rc = "OK"
    BY DEF Init
  <2>5. QED
    BY <2>1, <2>2, <2>3, <2>4 DEF TypeOK, Budget, Round
<1>4. PollBounded
  <2>1. TurnBudget * Quantum \in Nat
    BY AppLoopAssumption
  <2> DEFINE most == TurnBudget * Quantum
  <2> HIDE DEF most
  <2>2. most \in Nat /\ MaxMessages \in Nat \ {0} /\ MaxTurns \in Nat \ {0} /\ TurnBudget \in Nat
        /\ MaxIrq \in Nat /\ MaxNet \in Nat
    BY <2>1, AppLoopAssumption DEF most
  <2>3. QED
    BY <2>2 DEF Init, NoBudget, PollBounded, most
<1>5. TimeInv
  <2>1. pc = "wait" /\ -Fast \in -Fast..MaxLag /\ -Slow \in -Slow..MaxLag
    BY <1>1 DEF Init
  <2>2. QED
    BY <1>2, <2>1 DEF TimeInv, Timing
<1>6. PhaseInv
  BY DEF Init, PhaseInv
<1>7. QED
  BY <1>3, <1>4, <1>5, <1>6 DEF LoopInv

LEMMA InvNext == LoopInv /\ [Next]_vars => LoopInv'
<1>1. CASE Next
  BY <1>1, TypeNext, BudgetNext, TimeNext, PhaseNext DEF LoopInv
<1>2. CASE UNCHANGED vars
  <2>1. LoopInv => TypeOK' /\ PollBounded'
    BY <1>2 DEF vars, LoopInv, TypeOK, PollBounded
  <2>2. LoopInv => TimeInv'
    BY <1>2 DEF vars, LoopInv, TimeInv, Timing
  <2>3. LoopInv => PhaseInv'
    BY <1>2 DEF vars, LoopInv, PhaseInv, NoneDue, FastDue, SlowDue
  <2>4. QED
    BY <2>1, <2>2, <2>3 DEF LoopInv
<1>3. QED
  BY <1>1, <1>2

-----------------------------------------------------------------------------
(* The theorems. *)

\* The inductive invariant: the limits of the budget, how far the clock is
\* from each deadline and what the phases of a poll have settled.
THEOREM LoopInvAlways == Spec => []LoopInv
<1>1. QED
  BY InvInit, InvNext, PTL DEF Spec

\* One poll of ev_demo_app_poll() is bounded work: the sample and call limits
\* are exact, turns and messages overshoot by at most one run of the pump.
THEOREM PollBoundedAlways == Spec => []PollBounded
<1>1. LoopInv => PollBounded
  BY DEF LoopInv
<1>2. QED
  BY <1>1, LoopInvAlways, PTL

\* A deadline never runs ahead of the clock by more than its period: no tick
\* of ev_demo_app_process_timers() is early or doubled, over the wrap of the
\* clock and however late the loop comes.
THEOREM NeverAheadAlways == Spec => []NeverAhead
<1>1. LoopInv => NeverAhead
  <2> SUFFICES ASSUME LoopInv PROVE NeverAhead
    OBVIOUS
  <2>1. clock \in Times /\ next100 \in Times /\ next1s \in Times
    BY TypeFacts DEF LoopInv
  <2>2. ASSUME NEW d \in Times, NEW n \in 1..Slow, Minus(clock, d) \in -n..MaxLag
        PROVE  Minus(d, clock) <= n
    <3> DEFINE m == Minus(clock, d)
               k == Minus(d, clock)
    <3>1. /\ m \in Int /\ (m = clock - d \/ m = clock - d + Wrap \/ m = clock - d - Wrap)
          /\ k \in Int /\ (k = d - clock \/ k = d - clock + Wrap \/ k = d - clock - Wrap)
          /\ 2 * k < Wrap
      BY <2>1, MinusIs
    <3>2. /\ Wrap \in Nat /\ MaxLag \in Nat /\ Slow \in Nat /\ 2 * (MaxLag + Slow) < Wrap
          /\ clock \in Int /\ d \in Int
      BY <2>1, AppLoopAssumption DEF Times
    <3>3. -n <= m /\ m <= MaxLag /\ n <= Slow
      BY <2>2, <3>2
    <3> HIDE DEF m, k
    <3>4. k = -m \/ k = -m + Wrap \/ k = -m - Wrap \/ k = -m + 2 * Wrap \/ k = -m - 2 * Wrap
      BY <3>1, <3>2
    <3>5. k <= n
      BY <3>1, <3>2, <3>3, <3>4
    <3>6. QED
      BY <3>5 DEF k
  <2>3. Fast \in 1..Slow /\ Slow \in 1..Slow
    BY AppLoopAssumption
  <2>4. Minus(clock, next100) \in -Fast..MaxLag /\ Minus(clock, next1s) \in -Slow..MaxLag
    BY DEF LoopInv, TimeInv
  <2>5. QED
    BY <2>1, <2>2, <2>3, <2>4 DEF NeverAhead
<1>2. QED
  BY <1>1, LoopInvAlways, PTL

\* A poll that answers OK left nothing undone: without exhaustion the
\* mailboxes are empty and every tick that was due is out, with exhaustion no
\* work at all was left.
THEOREM OkMeansDoneAlways == Spec => OkMeansDone
<1> DEFINE Done ==
      pc = "final" /\ pc' = "wait" /\ rc' = "OK" =>
          /\ pend = 0
          /\ ~b.exhausted => ~Due(now, next100) /\ ~Due(now, next1s)
          /\ b.exhausted => irq = 0 /\ net = 0
<1>1. LoopInv /\ [Next]_vars => [Done]_vars
  <2> SUFFICES ASSUME LoopInv, Next, pc = "final", pc' = "wait", rc' = "OK"
               PROVE  Done
    BY DEF vars
  <2>1. irq \in Nat /\ net \in Nat /\ pend \in Nat /\ TypeOK /\ b.exhausted \in BOOLEAN
    BY TypeFacts DEF LoopInv, Budget
  <2>2. EndPoll
    BY DEF Next, Poll, Environment, StartPoll, Restart, TakeIrq, IrqTaken, TakeNet, NetTaken,
       PumpRun, Draining, PumpFails, IngressDrained, TimersDrained, FastTick, SlowTick, Tick, NoTick
  <2>3. rc \notin {"FULL", "ERR"} /\ ~(b.exhausted /\ WorkLeft)
    BY <2>2 DEF EndPoll
  <2>4. CASE b.exhausted
    BY <2>1, <2>3, <2>4 DEF WorkLeft
  <2>5. CASE ~b.exhausted
    BY <2>3, <2>5 DEF LoopInv, PhaseInv, NoneDue, FastDue, SlowDue
  <2>6. QED
    BY <2>4, <2>5
<1>2. QED
  BY <1>1, LoopInvAlways, PTL DEF Spec, OkMeansDone
==============================================================================
