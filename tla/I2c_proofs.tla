------------------------------ MODULE I2c_proofs ------------------------------
(***************************************************************************)
(* Proofs about the bus, for every byte width, every number of pulses      *)
(* greater than it, every device size, address and fault: from whatever    *)
(* place an earlier transaction was broken off, one without a fault        *)
(* succeeds; OK tells the truth; no register takes a torn byte.            *)
(*                                                                         *)
(* The proof follows the code from the wires up.  Each function of the     *)
(* adapter gets a lemma of what it does to the wires and the device        *)
(* (SetSdaFacts ... ReadFacts); a loop of the code is a set of wires for   *)
(* each round (Freeing, Sent, Told, Heard, Fetched), and Upto carries it   *)
(* along.  What ties them together is Phase: what a device may drive and   *)
(* know by what the clock is at.  It holds between any two edges, so it    *)
(* also holds wherever a transaction ends.                                 *)
(***************************************************************************)
EXTENDS I2cBus, Extrema, SequenceTheorems

-----------------------------------------------------------------------------
(* Loops and numbers. *)

\* Induction along a loop, over a set of indices.
LEMMA Upto ==
  ASSUME NEW n \in Nat, NEW S, 0 \in S, \A i \in 1..n : i - 1 \in S => i \in S
  PROVE  \A i \in 0..n : i \in S
<1> DEFINE T == {i \in 1..n : i \notin S}
<1>1. SUFFICES ASSUME NEW j \in 0..n, j \notin S PROVE FALSE
  OBVIOUS
<1>2. j \in T
  <2>1. j # 0
    BY <1>1
  <2>2. QED
    BY <1>1, <2>1
<1>3. PICK x \in T : \A y \in T : x <= y
  <2>1. T \subseteq 1..n /\ T # {}
    BY <1>2
  <2> HIDE DEF T
  <2>2. QED
    BY <2>1, LeastOf
<1>4. x - 1 \in S
  <2>1. CASE x = 1
    BY <2>1
  <2>2. CASE x # 1
    <3>1. x - 1 \in 1..n /\ ~(x <= x - 1)
      BY <2>2
    <3>2. x - 1 \notin T
      BY <1>3, <3>1
    <3>3. QED
      BY <3>1, <3>2
  <2>3. QED
    BY <2>1, <2>2
<1>5. QED
  BY <1>3, <1>4

\* A loop of n rounds has a history of its states.
History(g, n, first, F, X) ==
    g \in [0..n -> X] /\ g[0] = first /\ \A i \in 1..n : g[i] = F[<<g[i - 1], i>>]

LEMMA HistoryExists ==
  ASSUME NEW X, NEW first \in X, NEW n \in Nat, NEW F \in [X \X (1..n) -> X]
  PROVE  \E g : History(g, n, first, F, X)
<1> DEFINE Has(m) == \E g : History(g, m, first, F, X)
           S == {m \in 0..n : Has(m)}
<1>1. Has(0)
  <2> DEFINE g == [i \in 0..0 |-> first]
  <2>1. g \in [0..0 -> X] /\ g[0] = first /\ 1..0 = {}
    OBVIOUS
  <2>2. History(g, 0, first, F, X)
    BY <2>1 DEF History
  <2>3. QED
    BY <2>2
<1>2. ASSUME NEW m \in 1..n, Has(m - 1) PROVE Has(m)
  <2>1. PICK g : History(g, m - 1, first, F, X)
    BY <1>2
  <2> DEFINE h == [i \in 0..m |-> IF i = m THEN F[<<g[m - 1], m>>] ELSE g[i]]
  <2>2. /\ g \in [0..(m - 1) -> X] /\ g[0] = first
        /\ \A i \in 1..(m - 1) : g[i] = F[<<g[i - 1], i>>]
    BY <2>1 DEF History
  <2>3. m - 1 \in 0..(m - 1) /\ F[<<g[m - 1], m>>] \in X
    BY <2>2
  <2>4. h \in [0..m -> X]
    <3>1. ASSUME NEW i \in 0..m PROVE h[i] \in X
      <4>1. CASE i = m
        BY <4>1, <2>3
      <4>2. CASE i # m
        <5>1. i \in 0..(m - 1)
          BY <4>2
        <5>2. QED
          BY <5>1, <4>2, <2>2
      <4>3. QED
        BY <4>1, <4>2
    <3>2. QED
      BY <3>1
  <2>5. h[m] = F[<<g[m - 1], m>>] /\ \A i \in 0..(m - 1) : h[i] = g[i]
    OBVIOUS
  <2> HIDE DEF h
  <2>6. h[0] = first
    BY <2>2, <2>5
  <2>7. ASSUME NEW i \in 1..m PROVE h[i] = F[<<h[i - 1], i>>]
    <3>1. CASE i = m
      BY <3>1, <2>5
    <3>2. CASE i # m
      <4>1. i \in 1..(m - 1) /\ i \in 0..(m - 1) /\ i - 1 \in 0..(m - 1)
        BY <3>2
      <4>2. QED
        BY <4>1, <2>2, <2>5
    <3>3. QED
      BY <3>1, <3>2
  <2>8. History(h, m, first, F, X)
    BY <2>4, <2>6, <2>7 DEF History
  <2>9. QED
    BY <2>8
<1>3. \A m \in 0..n : m \in S
  <2> HIDE DEF Has
  <2>1. 0 \in S /\ \A m \in 1..n : m - 1 \in S => m \in S
    BY <1>1, <1>2
  <2> HIDE DEF S
  <2>2. QED
    BY <2>1, Upto
<1>4. Has(n)
  <2> HIDE DEF Has
  <2>1. QED
    BY <1>3
<1>5. QED
  BY <1>4

\* The weights of a byte's bits.
LEMMA WeightIs ==
  /\ Weight \in [0..Bits -> Nat] /\ Weight[0] = 1
  /\ \A i \in 1..Bits : Weight[i] = 2 * Weight[i - 1]
<1> DEFINE F == [p \in Nat \X (1..Bits) |-> 2 * p[1]]
<1>1. Bits \in Nat
  BY I2cAssumption
<1>2. F \in [Nat \X (1..Bits) -> Nat]
  OBVIOUS
<1>3. PICK g : History(g, Bits, 1, F, Nat)
  <2>1. 1 \in Nat
    OBVIOUS
  <2> HIDE DEF F
  <2>2. QED
    BY <1>1, <1>2, <2>1, HistoryExists
<1>4. g = [i \in 0..Bits |-> IF i = 0 THEN 1 ELSE 2 * g[i - 1]]
  <2>0. g \in [0..Bits -> Nat] /\ g[0] = 1 /\ \A i \in 1..Bits : g[i] = F[<<g[i - 1], i>>]
    <3> HIDE DEF F
    <3>1. QED
      BY <1>3 DEF History
  <2>1. ASSUME NEW i \in 0..Bits
        PROVE  g[i] = IF i = 0 THEN 1 ELSE 2 * g[i - 1]
    <3>1. CASE i = 0
      BY <3>1, <2>0
    <3>2. CASE i # 0
      <4>1. i - 1 \in 0..Bits /\ i \in 1..Bits
        BY <3>2, <1>1
      <4>2. <<g[i - 1], i>> \in Nat \X (1..Bits)
        BY <4>1, <2>0
      <4>3. QED
        BY <3>2, <4>1, <4>2, <2>0
    <3>3. QED
      BY <3>1, <3>2
  <2>2. QED
    BY <2>0, <2>1
<1>5. Weight = [i \in 0..Bits |-> IF i = 0 THEN 1 ELSE 2 * Weight[i - 1]]
  BY <1>4, Zenon DEF Weight
<1>6. Weight[0] = 1 /\ \A i \in 1..Bits : Weight[i] = 2 * Weight[i - 1]
  <2>1. 0 \in 0..Bits /\ \A i \in 1..Bits : i \in 0..Bits /\ i # 0
    BY <1>1
  <2>2. Weight[0] = 1
    BY <1>5, <2>1
  <2>3. ASSUME NEW i \in 1..Bits PROVE Weight[i] = 2 * Weight[i - 1]
    BY <1>5, <2>1
  <2>4. QED
    BY <2>2, <2>3
<1>7. \A i \in 0..Bits : Weight[i] \in Nat
  <2> DEFINE S == {i \in 0..Bits : Weight[i] \in Nat}
  <2>1. 0 \in S
    BY <1>1, <1>6
  <2>2. \A i \in 1..Bits : i - 1 \in S => i \in S
    BY <1>1, <1>6
  <2>3. QED
    <3> HIDE DEF S
    <3>1. \A i \in 0..Bits : i \in S
      BY <1>1, <2>1, <2>2, Upto
    <3>2. QED
      BY <3>1 DEF S
<1>8. QED
  BY <1>5, <1>6, <1>7

LEMMA Sizes ==
  /\ Bits \in Nat /\ Bits > 1 /\ Pulses \in Nat /\ Pulses > Bits
  /\ Registers \in Nat /\ Registers > 0 /\ Registers <= Weight[Bits]
  /\ Weight[Bits] \in Nat /\ Address \in Nat
  /\ \A i \in 0..Bits : Weight[i] \in Nat /\ Weight[i] > 0 /\ Weight[i] <= Weight[Bits]
<1>1. Bits \in Nat /\ Bits > 1 /\ Pulses \in Nat /\ Pulses > Bits
  BY I2cAssumption
<1>2. /\ \A i \in 0..Bits : Weight[i] \in Nat
      /\ \A i \in 1..Bits : i \in 0..Bits /\ i - 1 \in 0..Bits /\ Weight[i] = 2 * Weight[i - 1]
  <2>1. \A i \in 1..Bits : i \in 0..Bits /\ i - 1 \in 0..Bits
    BY <1>1
  <2>2. QED
    BY <2>1, WeightIs
<1>3. \A i \in 0..Bits : Weight[i] > 0
  <2> DEFINE S == {i \in 0..Bits : Weight[i] > 0}
  <2>1. 0 \in S
    BY <1>1, WeightIs
  <2>2. \A i \in 1..Bits : i - 1 \in S => i \in S
    BY <1>2
  <2>3. \A i \in 0..Bits : i \in S
    <3> HIDE DEF S
    <3>1. QED
      BY <1>1, <2>1, <2>2, Upto
  <2>4. QED
    BY <2>3
<1>4. \A i \in 0..Bits : Weight[Bits - i] <= Weight[Bits]
  <2> DEFINE S == {i \in 0..Bits : Weight[Bits - i] <= Weight[Bits]}
  <2>1. 0 \in S
    BY <1>1, <1>2
  <2>2. ASSUME NEW i \in 1..Bits, i - 1 \in S PROVE i \in S
    <3>1. /\ Bits - (i - 1) \in 1..Bits /\ Bits - (i - 1) - 1 = Bits - i /\ i \in 0..Bits
          /\ Bits - i \in 0..Bits /\ Bits \in 0..Bits
      BY <1>1
    <3>2. Weight[Bits - (i - 1)] = 2 * Weight[Bits - i] /\ Weight[Bits - (i - 1)] <= Weight[Bits]
      BY <2>2, <3>1, <1>2
    <3>3. QED
      BY <3>1, <3>2, <1>2
  <2>3. \A i \in 0..Bits : i \in S
    <3> HIDE DEF S
    <3>1. QED
      BY <1>1, <2>1, <2>2, Upto
  <2>4. QED
    BY <2>3
<1>5. \A i \in 0..Bits : Weight[i] <= Weight[Bits]
  <2> TAKE i \in 0..Bits
  <2>1. Bits - i \in 0..Bits /\ Bits - (Bits - i) = i
    BY <1>1
  <2>2. QED
    BY <2>1, <1>4
<1>6. Weight[Bits] \in Nat /\ Registers \in Nat /\ Registers > 0 /\ Registers <= Weight[Bits]
  BY <1>1, <1>2, I2cAssumption
<1>7. Address \in Nat
  BY I2cAssumption
<1>8. QED
  BY <1>1, <1>2, <1>3, <1>5, <1>6, <1>7

\* What is known of a value when its first i bits were sent.
Prefix(value, i) == value \div Weight[Bits - i]

LEMMA Halved ==
  ASSUME NEW a \in Nat, NEW b \in Nat, b > 0
  PROVE  a \div b = 2 * (a \div (2 * b)) + ((a \div b) % 2)
<1> DEFINE q == a \div b
           p == q \div 2
           s == q % 2
           r == a % b
           c == 2 * b
<1>1. q \in Nat /\ r \in Nat /\ r < b /\ a = b * q + r
  OBVIOUS
<1>2. p \in Nat /\ s \in {0, 1} /\ q = 2 * p + s
  OBVIOUS
<1> HIDE DEF q, p, s, r
<1>3. a = b * (2 * p + s) + r
  BY <1>1, <1>2
<1>4. b * (2 * p + s) = c * p + b * s
  BY <1>1, <1>2
<1>5. b * s \in {0, b}
  BY <1>2
<1>6. a = c * p + (b * s + r) /\ b * s + r \in Nat /\ b * s + r < c
  <2> DEFINE x == b * s
             y == c * p
  <2>1. x \in Nat /\ x <= b /\ y \in Nat /\ a = (y + x) + r
    BY <1>1, <1>2, <1>3, <1>4, <1>5
  <2>2. c = b + b
    OBVIOUS
  <2> HIDE DEF x, y, c
  <2>3. a = y + (x + r) /\ x + r \in Nat /\ x + r < c
    BY <2>1, <2>2, <1>1
  <2>4. QED
    BY <2>3 DEF x, y
<1>7. a \div c = p
  <2> DEFINE t == b * s + r
  <2>1. t \in Nat /\ t < c /\ a = c * p + t /\ c \in Nat /\ c > 0
    BY <1>6
  <2> HIDE DEF t, c
  <2>2. QED
    BY <2>1, <1>2
<1>8. QED
  BY <1>2, <1>7 DEF q, p, s

LEMMA Prefixes ==
  ASSUME NEW value \in Byte
  PROVE  /\ Prefix(value, 0) = 0 /\ Prefix(value, Bits) = value
         /\ \A i \in 1..Bits : /\ BitOf(value, i) \in {0, 1}
                               /\ Prefix(value, i - 1) \in Nat
                               /\ Prefix(value, i) = 2 * Prefix(value, i - 1) + BitOf(value, i)
<1>1. value \in Nat /\ value < Weight[Bits] /\ Bits - 0 = Bits /\ Bits - Bits = 0 /\ Weight[0] = 1
  BY Sizes, WeightIs DEF Byte
<1>2. Prefix(value, 0) = 0
  <2>1. \A w \in Nat : value < w => value \div w = 0
    BY <1>1
  <2>2. QED
    BY <1>1, <2>1, Sizes DEF Prefix
<1>3. Prefix(value, Bits) = value
  BY <1>1 DEF Prefix
<1>4. ASSUME NEW i \in 1..Bits
      PROVE  /\ BitOf(value, i) \in {0, 1} /\ Prefix(value, i - 1) \in Nat
             /\ Prefix(value, i) = 2 * Prefix(value, i - 1) + BitOf(value, i)
  <2> DEFINE b == Weight[Bits - i]
  <2>1. Bits - (i - 1) \in 1..Bits /\ Bits - (i - 1) - 1 = Bits - i /\ Bits - i \in 0..Bits
    BY Sizes
  <2>2. b \in Nat /\ b > 0
    BY <2>1, Sizes
  <2>3. Weight[Bits - (i - 1)] = 2 * b
    BY <2>1, WeightIs
  <2> HIDE DEF b
  <2>4. value \div b \in Nat /\ value \div (2 * b) \in Nat
    BY <1>1, <2>2
  <2>5. Prefix(value, i) = value \div b /\ Prefix(value, i - 1) = value \div (2 * b)
        /\ BitOf(value, i) = (value \div b) % 2
    BY <2>3 DEF Prefix, BitOf, b
  <2>6. value \div b = 2 * (value \div (2 * b)) + ((value \div b) % 2)
    BY <1>1, <2>2, Halved
  <2>7. (value \div b) % 2 \in {0, 1}
    BY <2>4
  <2>8. QED
    BY <2>4, <2>5, <2>6, <2>7
<1>5. QED
  BY <1>2, <1>3, <1>4

-----------------------------------------------------------------------------
(* The device at the edges of the clock. *)

Device == [mode : {"idle", "address", "pointer", "write", "read"}, slot : {"data", "ack"},
           bits : 0..Bits, value : Byte, low : BOOLEAN,
           reg : 0..(Registers - 1), mem : [0..(Registers - 1) -> Byte]]

\* What the device knows and drives, by what the clock is at.
Phase(dev, high) ==
    /\ dev.mode = "idle" => dev.slot = "data" /\ ~dev.low /\ dev.bits = 0
    /\ Receives(dev) => (dev.low <=> dev.slot = "ack")
    /\ dev.mode = "read" /\ dev.slot = "ack" => ~dev.low
    /\ dev.slot = "data" => /\ Receives(dev) => dev.value < Weight[dev.bits]
                            /\ ~high => dev.bits < Bits

SameStore(d, e) == e.reg = d.reg /\ e.mem = d.mem

LEMMA QuietDevice ==
  ASSUME NEW dev \in Device, NEW high \in BOOLEAN
  PROVE  /\ Quiet(dev) \in Device /\ Phase(Quiet(dev), high) /\ SameStore(dev, Quiet(dev))
         /\ Quiet(dev).mode = "idle" /\ ~Quiet(dev).low
         /\ Started(dev) \in Device /\ Phase(Started(dev), high) /\ SameStore(dev, Started(dev))
         /\ Started(dev).mode = "address" /\ Started(dev).slot = "data" /\ Started(dev).bits = 0
         /\ Started(dev).value = 0 /\ ~Started(dev).low
<1>1. 0 \in 0..Bits /\ 0 \in Byte /\ Weight[0] = 1 /\ 0 < Bits
  BY Sizes, WeightIs DEF Byte
<1> DEFINE q == Quiet(dev)
           s == Started(dev)
<1>2. /\ q \in Device /\ q.mode = "idle" /\ q.slot = "data" /\ q.bits = 0 /\ q.value = 0 /\ ~q.low
      /\ SameStore(dev, q)
  BY <1>1 DEF Device, Quiet, SameStore
<1>3. s = [q EXCEPT !.mode = "address"]
  BY DEF Started
<1> HIDE DEF q, s
<1>4. /\ s \in Device /\ s.mode = "address" /\ s.slot = "data" /\ s.bits = 0 /\ s.value = 0 /\ ~s.low
      /\ SameStore(dev, s)
  BY <1>2, <1>3 DEF Device, SameStore
<1>5. Phase(q, high) /\ Phase(s, high)
  BY <1>1, <1>2, <1>4 DEF Phase, Receives
<1>6. QED
  BY <1>2, <1>4, <1>5 DEF q, s

\* A value of fewer bits than a byte has room for one more.
LEMMA RoomForBit ==
  ASSUME NEW n \in 0..Bits, n < Bits, NEW value \in Nat, value < Weight[n], NEW bit \in {0, 1}
  PROVE  n + 1 \in 0..Bits /\ 2 * value + bit < Weight[n + 1] /\ 2 * value + bit \in Byte
<1>1. n + 1 \in 1..Bits /\ n + 1 \in 0..Bits /\ (n + 1) - 1 = n
  BY Sizes
<1>2. Weight[n + 1] = 2 * Weight[n] /\ Weight[n] \in Nat /\ Weight[n + 1] <= Weight[Bits]
      /\ Weight[Bits] \in Nat /\ Weight[n + 1] \in Nat
  BY <1>1, WeightIs, Sizes
<1>3. QED
  BY <1>1, <1>2 DEF Byte

LEMMA RisingDevice ==
  ASSUME NEW dev \in Device, Phase(dev, FALSE), NEW sda \in {0, 1}
  PROVE  /\ ClockRises(dev, sda) \in Device /\ Phase(ClockRises(dev, sda), TRUE)
         /\ SameStore(dev, ClockRises(dev, sda))
<1> DEFINE new == ClockRises(dev, sda)
<1>1. CASE Receives(dev) /\ dev.slot = "data"
  <2>1. new = [dev EXCEPT !.value = 2 * @ + sda, !.bits = @ + 1]
    BY <1>1 DEF ClockRises
  <2>2. dev.bits + 1 \in 0..Bits /\ 2 * dev.value + sda < Weight[dev.bits + 1]
        /\ 2 * dev.value + sda \in Byte
    <3>1. dev.bits \in 0..Bits /\ dev.bits < Bits /\ dev.value \in Nat /\ dev.value < Weight[dev.bits]
      BY <1>1, Sizes DEF Device, Phase, Byte
    <3>2. QED
      BY <3>1, RoomForBit
  <2>3. QED
    BY <1>1, <2>1, <2>2 DEF Device, Phase, SameStore, Receives
<1>2. CASE dev.mode = "read" /\ dev.slot = "data"
  <2>1. new = [dev EXCEPT !.bits = @ + 1]
    BY <1>2 DEF ClockRises, Receives
  <2>2. dev.bits + 1 \in 0..Bits
    BY <1>2, Sizes DEF Device, Phase
  <2>3. QED
    BY <1>2, <2>1, <2>2 DEF Device, Phase, SameStore, Receives
<1>3. CASE dev.slot # "data" \/ ~(Receives(dev) \/ dev.mode = "read")
  <2>1. new \in {dev, Quiet(dev)}
    BY <1>3 DEF ClockRises
  <2>2. Phase(dev, TRUE) /\ SameStore(dev, dev)
    BY DEF Phase, SameStore
  <2>3. QED
    BY <2>1, <2>2, QuietDevice
<1>4. QED
  BY <1>1, <1>2, <1>3

LEMMA NextRegister ==
  ASSUME NEW r \in Nat
  PROVE  Following(r) \in 0..(Registers - 1) /\ r % Registers \in 0..(Registers - 1)
BY Sizes DEF Following

LEMMA SendingDevice ==
  ASSUME NEW dev \in Device, NEW value \in Byte, NEW high \in BOOLEAN
  PROVE  /\ Sending(dev, value) \in Device /\ Phase(Sending(dev, value), high)
         /\ Sending(dev, value).mem = dev.mem /\ Sending(dev, value).reg = Following(dev.reg)
         /\ Sending(dev, value).mode = "read" /\ Sending(dev, value).slot = "data"
         /\ Sending(dev, value).bits = 0 /\ Sending(dev, value).value = value
         /\ (Sending(dev, value).low <=> BitOf(value, 1) = 0)
<1>1. 0 \in 0..Bits /\ 0 < Bits /\ Following(dev.reg) \in 0..(Registers - 1)
  BY Sizes, NextRegister DEF Device
<1>2. (BitOf(value, 1) = 0) \in BOOLEAN
  OBVIOUS
<1> DEFINE b == BitOf(value, 1) = 0
<1>3. Sending(dev, value) = [dev EXCEPT !.mode = "read", !.slot = "data", !.bits = 0, !.value = value,
                                        !.low = b, !.reg = Following(@)]
  BY DEF Sending
<1> HIDE DEF b
<1>4. QED
  BY <1>1, <1>2, <1>3 DEF Device, Phase, Receives, b

\* A device that listens after an acknowledge waits for the first bit.
Listens(dev, mode) == [Quiet(dev) EXCEPT !.mode = mode]

LEMMA ListeningDevice ==
  ASSUME NEW dev \in Device, NEW high \in BOOLEAN, NEW mode \in {"pointer", "write"}, NEW e,
         e = Listens(dev, mode)
  PROVE  /\ e \in Device /\ Phase(e, high) /\ SameStore(dev, e)
         /\ e.mode = mode /\ e.slot = "data" /\ e.bits = 0 /\ e.value = 0 /\ ~e.low
<1>1. 0 \in 0..Bits /\ 0 \in Byte /\ Weight[0] = 1 /\ 0 < Bits
  BY Sizes, WeightIs DEF Byte
<1> DEFINE q == Quiet(dev)
<1>2. /\ q \in Device /\ q.slot = "data" /\ q.bits = 0 /\ q.value = 0 /\ ~q.low /\ SameStore(dev, q)
  BY <1>1 DEF Device, Quiet, SameStore
<1> HIDE DEF q
<1>3. e = [q EXCEPT !.mode = mode]
  BY DEF q, Listens
<1>4. /\ e \in Device /\ e.mode = mode /\ e.slot = "data" /\ e.bits = 0 /\ e.value = 0 /\ ~e.low
      /\ SameStore(dev, e)
  BY <1>2, <1>3 DEF Device, SameStore
<1>5. QED
  BY <1>1, <1>4 DEF Phase, Receives

\* What follows the acknowledge, by what it was for.
LEMMA AcknowledgedDevice ==
  ASSUME NEW dev \in Device, dev.mode # "idle", NEW high \in BOOLEAN
  PROVE  LET e == Acknowledged(dev)
         IN  /\ e \in Device /\ Phase(e, high) /\ e.mem = dev.mem /\ e.slot = "data" /\ e.bits = 0
             /\ dev.mode = "read" \/ (dev.mode = "address" /\ dev.value % 2 = 1) =>
                   /\ e.mode = "read" /\ e.value = dev.mem[dev.reg] /\ e.reg = Following(dev.reg)
                   /\ e.low <=> BitOf(dev.mem[dev.reg], 1) = 0
             /\ ~(dev.mode = "read" \/ (dev.mode = "address" /\ dev.value % 2 = 1)) =>
                   /\ e.mode = IF dev.mode = "address" THEN "pointer" ELSE "write"
                   /\ e.value = 0 /\ e.reg = dev.reg /\ ~e.low
<1> DEFINE e == Acknowledged(dev)
<1>1. CASE dev.mode = "read" \/ (dev.mode = "address" /\ dev.value % 2 = 1)
  <2>1. e = Sending(dev, dev.mem[dev.reg]) /\ dev.mem[dev.reg] \in Byte
    BY <1>1 DEF Acknowledged, Device
  <2>2. QED
    BY <1>1, <2>1, SendingDevice
<1>2. CASE ~(dev.mode = "read" \/ (dev.mode = "address" /\ dev.value % 2 = 1))
  <2> DEFINE mode == IF dev.mode = "address" THEN "pointer" ELSE "write"
  <2>1. e = Listens(dev, mode) /\ mode \in {"pointer", "write"}
    BY <1>2 DEF Acknowledged, Listens
  <2> HIDE DEF mode, e
  <2>2. /\ e \in Device /\ Phase(e, high) /\ SameStore(dev, e)
        /\ e.mode = mode /\ e.slot = "data" /\ e.bits = 0 /\ e.value = 0 /\ ~e.low
    BY ONLY dev \in Device, high \in BOOLEAN, <2>1, ListeningDevice
  <2>3. QED
    BY <1>2, <2>2 DEF SameStore, mode, e
<1>3. QED
  BY <1>1, <1>2

\* The last bit of a byte: the device acknowledges it, but for an address that
\* is not its own.
LEMMA TakenDevice ==
  ASSUME NEW dev \in Device, Receives(dev), dev.slot = "data", dev.bits = Bits
  PROVE  LET e == ClockFalls(dev)
         IN  IF dev.mode = "address" /\ dev.value \div 2 # Address THEN e = Quiet(dev)
             ELSE /\ e \in Device /\ Phase(e, FALSE)
                  /\ e.mode = dev.mode /\ e.slot = "ack" /\ e.low /\ e.value = dev.value
                  /\ dev.mode = "address" => SameStore(dev, e)
                  /\ dev.mode = "pointer" => e.mem = dev.mem /\ e.reg = dev.value % Registers
                  /\ dev.mode = "write" => /\ e.mem = [dev.mem EXCEPT ![dev.reg] = dev.value]
                                           /\ e.reg = Following(dev.reg)
<1> DEFINE e == ClockFalls(dev)
           t == Taken(dev)
<1>1. dev.mode # "idle" /\ dev.mode # "read" /\ ~(dev.bits < Bits)
  BY Sizes DEF Receives
<1>2. CASE dev.mode = "address" /\ dev.value \div 2 # Address
  BY <1>1, <1>2 DEF ClockFalls
<1>3. CASE ~(dev.mode = "address" /\ dev.value \div 2 # Address)
  <2>1. e = [t EXCEPT !.slot = "ack", !.low = TRUE]
    BY <1>1, <1>3 DEF ClockFalls
  <2>2. /\ t \in Device /\ t.mode = dev.mode /\ t.value = dev.value
        /\ dev.mode = "address" => SameStore(dev, t)
        /\ dev.mode = "pointer" => t.mem = dev.mem /\ t.reg = dev.value % Registers
        /\ dev.mode = "write" => /\ t.mem = [dev.mem EXCEPT ![dev.reg] = dev.value]
                                 /\ t.reg = Following(dev.reg)
    <3>1. /\ dev.reg \in Nat /\ dev.value \in Nat /\ dev.value \in Byte
          /\ dev.reg \in 0..(Registers - 1) /\ dev.mem \in [0..(Registers - 1) -> Byte]
      BY Sizes DEF Device, Byte
    <3>2. Following(dev.reg) \in 0..(Registers - 1) /\ dev.value % Registers \in 0..(Registers - 1)
      BY <3>1, NextRegister
    <3>3. CASE dev.mode = "address"
      BY <3>3 DEF Taken, SameStore
    <3>4. CASE dev.mode = "pointer"
      <4>1. t = [dev EXCEPT !.reg = dev.value % Registers]
        BY <3>4 DEF Taken
      <4>2. QED
        BY <3>2, <3>4, <4>1 DEF Device
    <3>5. CASE dev.mode = "write"
      <4>1. t = [dev EXCEPT !.mem = [dev.mem EXCEPT ![dev.reg] = dev.value],
                            !.reg = Following(dev.reg)]
        BY <3>5 DEF Taken, Device
      <4>2. [dev.mem EXCEPT ![dev.reg] = dev.value] \in [0..(Registers - 1) -> Byte]
        BY <3>1
      <4>3. QED
        BY <3>2, <3>5, <4>1, <4>2 DEF Device
    <3>6. QED
      BY <3>3, <3>4, <3>5 DEF Receives
  <2> HIDE DEF t, e
  <2>3. e \in Device /\ e.slot = "ack" /\ e.low /\ e.mode = t.mode /\ e.value = t.value
        /\ e.mem = t.mem /\ e.reg = t.reg
    BY <2>1, <2>2 DEF Device
  <2>4. Phase(e, FALSE)
    BY <2>2, <2>3, <1>1 DEF Phase, Receives
  <2>5. QED
    BY <1>3, <2>2, <2>3, <2>4 DEF SameStore, e
<1>4. QED
  BY <1>2, <1>3

\* A falling clock: only the last bit of a byte written changes a register.
LEMMA FallingDevice ==
  ASSUME NEW dev \in Device, Phase(dev, TRUE)
  PROVE  /\ ClockFalls(dev) \in Device /\ Phase(ClockFalls(dev), FALSE)
         /\ ~(dev.mode = "write" /\ dev.slot = "data" /\ dev.bits = Bits) => ClockFalls(dev).mem = dev.mem
<1> DEFINE e == ClockFalls(dev)
<1>1. CASE dev.mode = "idle"
  <2>1. e = dev
    BY <1>1 DEF ClockFalls
  <2>2. dev.bits < Bits
    BY <1>1, Sizes DEF Phase
  <2>3. QED
    BY <1>1, <2>1, <2>2 DEF Phase
<1>2. CASE dev.mode # "idle" /\ dev.slot = "ack"
  <2>1. e = Acknowledged(dev)
    BY <1>2 DEF ClockFalls
  <2>2. QED
    BY <1>2, <2>1, AcknowledgedDevice
<1>3. CASE dev.mode = "read" /\ dev.slot = "data"
  <2>1. CASE dev.bits = Bits
    <3>1. e = [dev EXCEPT !.slot = "ack", !.low = FALSE]
      BY <1>3, <2>1 DEF ClockFalls
    <3>2. QED
      BY <1>3, <3>1 DEF Device, Phase, Receives
  <2>2. CASE dev.bits # Bits
    <3> DEFINE b == BitOf(dev.value, dev.bits + 1) = 0
    <3>1. e = [dev EXCEPT !.low = b] /\ b \in BOOLEAN
      BY <1>3, <2>2 DEF ClockFalls
    <3>2. dev.bits < Bits
      BY <2>2, Sizes DEF Device
    <3> HIDE DEF b
    <3>3. QED
      BY <1>3, <3>1, <3>2 DEF Device, Phase, Receives
  <2>3. QED
    BY <2>1, <2>2
<1>4. CASE Receives(dev) /\ dev.slot = "data"
  <2>1. CASE dev.bits < Bits
    <3>1. e = dev
      BY <1>4, <2>1 DEF ClockFalls, Receives
    <3>2. QED
      BY <1>4, <2>1, <3>1 DEF Phase
  <2>2. CASE ~(dev.bits < Bits)
    <3>1. dev.bits = Bits
      BY <2>2, Sizes DEF Device
    <3>2. CASE dev.mode = "address" /\ dev.value \div 2 # Address
      <4>1. e = Quiet(dev)
        BY <1>4, <3>1, <3>2, TakenDevice
      <4>2. Quiet(dev) \in Device /\ Phase(Quiet(dev), FALSE) /\ SameStore(dev, Quiet(dev))
        BY QuietDevice
      <4>3. e \in Device /\ Phase(e, FALSE) /\ e.mem = dev.mem
        BY <4>1, <4>2 DEF SameStore
      <4>4. QED
        BY <4>3
    <3>3. CASE ~(dev.mode = "address" /\ dev.value \div 2 # Address)
      <4>1. /\ e \in Device /\ Phase(e, FALSE)
            /\ dev.mode = "address" => SameStore(dev, e)
            /\ dev.mode = "pointer" => e.mem = dev.mem
        BY <1>4, <3>1, <3>3, TakenDevice
      <4>2. QED
        BY <1>4, <3>1, <4>1 DEF SameStore, Receives
    <3>4. QED
      BY <3>2, <3>3
  <2>3. QED
    BY <2>1, <2>2
<1>5. QED
  BY <1>1, <1>2, <1>3, <1>4 DEF Device, Receives

-----------------------------------------------------------------------------
(* The wires. *)

Wire == [dev : Device, fault : [kind : {"none", "late", "cut", "stretch", "sda"}, at : Nat, to : Nat],
         sda : BOOLEAN, scl : BOOLEAN, held : BOOLEAN, raises : Nat,
         status : {"OK", "TIMEOUT", "NACK", "BUS_LOCKED"}, cut : BOOLEAN, found : BOOLEAN,
         got : Seq(Nat)]

High(w) == ~w.scl /\ ~w.held
Sound(w) == w \in Wire /\ Phase(w.dev, High(w))
Live(w) == w.status = "OK" /\ ~w.cut
Same(w, v) == v.fault = w.fault /\ (v.found <=> w.found) /\ v.got = w.got
SameEnd(w, v) == v.status = w.status /\ (v.cut <=> w.cut)
SameLines(w, v) == (v.sda <=> w.sda) /\ (v.scl <=> w.scl) /\ (v.held <=> w.held)

LEMMA WireFacts ==
  ASSUME NEW w, w \in Wire
  PROVE  /\ w.dev \in Device /\ Sda(w) \in {0, 1} /\ (Sda(w) = 0 <=> Sda(w) # 1)
         /\ (Scl(w) = 1 <=> High(w)) /\ (Scl(w) = 0 <=> ~High(w)) /\ High(w) \in BOOLEAN
         /\ (Sda(w) = 0 <=> w.sda \/ w.dev.low \/ w.fault.kind = "sda")
         /\ (Ok(w) /\ ~w.cut <=> Live(w))
BY DEF Wire, Sda, Scl, High, Ok, Live

LEMMA SetSdaFacts ==
  ASSUME NEW w, Sound(w), NEW low \in BOOLEAN, NEW v, v = SetSda(w, low)
  PROVE  /\ Sound(v) /\ Same(w, v) /\ SameEnd(w, v) /\ SameStore(w.dev, v.dev)
         /\ v.raises = w.raises /\ (v.scl <=> w.scl) /\ (v.held <=> w.held)
         /\ w.cut => v = w
         /\ ~w.cut => (v.sda <=> low)
         /\ w.cut \/ ~High(w) \/ w.dev.low \/ w.fault.kind = "sda" \/ (w.sda <=> low) => v.dev = w.dev
         /\ ~w.cut /\ High(w) /\ ~w.dev.low /\ w.fault.kind # "sda" /\ low /\ ~w.sda =>
               v.dev = Started(w.dev)
         /\ ~w.cut /\ High(w) /\ ~w.dev.low /\ w.fault.kind # "sda" /\ ~low /\ w.sda =>
               v.dev = Quiet(w.dev)
<1> DEFINE after == [w EXCEPT !.sda = low]
<1>1. w \in Wire /\ w.dev \in Device
  BY DEF Sound, Wire
<1>2. /\ after \in Wire /\ (after.sda <=> low) /\ after.dev = w.dev /\ (after.scl <=> w.scl)
      /\ (after.held <=> w.held) /\ after.raises = w.raises /\ Same(w, after) /\ SameEnd(w, after)
  BY <1>1 DEF Wire, Same, SameEnd
<1> HIDE DEF after
<1>3. (Sda(after) = 0 <=> low \/ w.dev.low \/ w.fault.kind = "sda")
      /\ (Sda(w) = 0 <=> w.sda \/ w.dev.low \/ w.fault.kind = "sda")
      /\ Sda(after) \in {0, 1} /\ Sda(w) \in {0, 1} /\ (Scl(w) = 0 <=> ~High(w))
  BY <1>1, <1>2, WireFacts DEF Same
<1>4. CASE w.cut
  BY <1>4, <1>1 DEF SetSda, Same, SameEnd, SameStore
<1>5. CASE ~w.cut /\ (Scl(w) = 0 \/ Sda(after) = Sda(w))
  <2>1. v = after
    BY <1>5 DEF SetSda, after
  <2>2. Sound(v)
    BY <1>2, <2>1 DEF Sound, High
  <2>3. QED
    BY <1>2, <1>3, <1>5, <2>1, <2>2 DEF SameStore
<1>6. CASE ~w.cut /\ ~(Scl(w) = 0 \/ Sda(after) = Sda(w))
  <2> DEFINE d == IF Sda(after) = 0 THEN Started(w.dev) ELSE Quiet(w.dev)
  <2>1. v = [after EXCEPT !.dev = d]
    BY <1>2, <1>6 DEF SetSda, after
  <2>2. d \in Device /\ Phase(d, TRUE) /\ SameStore(w.dev, d)
    BY <1>1, QuietDevice
  <2>3. d = IF low THEN Started(w.dev) ELSE Quiet(w.dev)
    BY <1>3, <1>6
  <2> HIDE DEF d
  <2>4. /\ v \in Wire /\ (v.sda <=> low) /\ v.dev = d /\ (v.scl <=> w.scl)
        /\ (v.held <=> w.held) /\ v.raises = w.raises /\ Same(w, v) /\ SameEnd(w, v)
    BY <1>2, <2>1, <2>2 DEF Wire, Same, SameEnd
  <2>5. High(w) /\ ~w.dev.low /\ w.fault.kind # "sda" /\ ~(w.sda <=> low)
    BY <1>1, <1>3, <1>6, WireFacts
  <2>6. Sound(v)
    BY <2>2, <2>4, <2>5 DEF Sound, High
  <2>7. QED
    BY <1>6, <2>2, <2>3, <2>4, <2>5, <2>6
<1>7. QED
  BY <1>4, <1>5, <1>6

LEMMA SclRisesFacts ==
  ASSUME NEW w, Sound(w), NEW v, v = SclRises(w)
  PROVE  /\ Sound(v) /\ Same(w, v) /\ SameEnd(w, v) /\ SameStore(w.dev, v.dev)
         /\ v.raises = w.raises /\ (v.sda <=> w.sda) /\ High(v)
         /\ v.dev = IF High(w) THEN w.dev ELSE ClockRises(w.dev, Sda(w))
<1> DEFINE after == [w EXCEPT !.scl = FALSE, !.held = FALSE]
           d == IF High(w) THEN w.dev ELSE ClockRises(w.dev, Sda(w))
<1>1. w \in Wire /\ w.dev \in Device /\ Sda(w) \in {0, 1} /\ (Scl(w) = 1 <=> High(w))
      /\ High(w) \in BOOLEAN
  BY WireFacts DEF Sound
<1>2. /\ after \in Wire /\ (after.sda <=> w.sda) /\ after.dev = w.dev /\ ~after.scl /\ ~after.held
      /\ after.raises = w.raises /\ Same(w, after) /\ SameEnd(w, after)
  BY <1>1 DEF Wire, Same, SameEnd
<1>3. v = [after EXCEPT !.dev = d]
  <2>1. CASE High(w)
    <3>1. v = after /\ d = after.dev
      BY <1>1, <1>2, <2>1 DEF SclRises, after
    <3> HIDE DEF after, d
    <3>2. QED
      BY <1>2, <3>1 DEF Wire
  <2>2. CASE ~High(w)
    BY <1>1, <1>2, <2>2 DEF SclRises
  <2>3. QED
    BY <2>1, <2>2
<1>4. d \in Device /\ Phase(d, TRUE) /\ SameStore(w.dev, d)
  <2>1. CASE High(w)
    BY <1>1, <2>1 DEF SameStore, Sound, Phase
  <2>2. CASE ~High(w)
    <3>1. Phase(w.dev, FALSE)
      BY <2>2 DEF Sound, Phase
    <3>2. QED
      BY <1>1, <2>2, <3>1, RisingDevice
  <2>3. QED
    BY <2>1, <2>2
<1> HIDE DEF after, d
<1>5. /\ v \in Wire /\ (v.sda <=> w.sda) /\ v.dev = d /\ ~v.scl /\ ~v.held
      /\ v.raises = w.raises /\ Same(w, v) /\ SameEnd(w, v)
  BY <1>2, <1>3, <1>4 DEF Wire, Same, SameEnd
<1>6. Sound(v) /\ High(v)
  BY <1>4, <1>5 DEF Sound, High, Phase
<1>7. QED
  BY <1>4, <1>5, <1>6 DEF d

LEMMA WaitSclHighFacts ==
  ASSUME NEW w, Sound(w), NEW v, v = WaitSclHigh(w)
  PROVE  /\ Sound(v) /\ Same(w, v) /\ SameStore(w.dev, v.dev) /\ (v.sda <=> w.sda)
         /\ w.cut => v.cut
         /\ Live(v) => /\ Live(w) /\ High(v)
                       /\ v.dev = IF High(w) THEN w.dev ELSE ClockRises(w.dev, Sda(w))
         /\ w.fault.kind = "none" /\ Live(w) => Live(v)
<1> DEFINE n == w.raises + 1
<1>1. w \in Wire /\ (Scl(w) = 0 <=> ~High(w)) /\ n \in Nat
  BY WireFacts DEF Sound, Wire
<1> HIDE DEF n
<1>2. CASE w.cut
  BY <1>1, <1>2 DEF WaitSclHigh, Same, SameStore, Live
<1>3. CASE ~w.cut /\ w.fault.kind = "cut" /\ n >= w.fault.at
  <2>1. v = [w EXCEPT !.cut = TRUE]
    BY <1>3 DEF WaitSclHigh, n
  <2>2. /\ v \in Wire /\ v.cut /\ v.dev = w.dev /\ Same(w, v) /\ (v.sda <=> w.sda)
        /\ (High(v) <=> High(w))
    BY <1>1, <2>1 DEF Wire, Same, High
  <2>3. QED
    BY <1>3, <2>2 DEF Sound, Live, SameStore, Phase
<1>4. CASE ~w.cut /\ ~(w.fault.kind = "cut" /\ n >= w.fault.at)
  <2>1. CASE w.fault.kind = "stretch" /\ Scl(w) = 0 /\ n \in w.fault.at..w.fault.to
    <3>1. v = [w EXCEPT !.raises = n, !.scl = FALSE, !.held = TRUE, !.status = "TIMEOUT"]
      BY <1>4, <2>1 DEF WaitSclHigh, n
    <3>2. /\ v \in Wire /\ v.status = "TIMEOUT" /\ v.dev = w.dev /\ Same(w, v) /\ (v.sda <=> w.sda)
          /\ ~High(v) /\ ~High(w)
      BY <1>1, <2>1, <3>1 DEF Wire, Same, High
    <3>3. QED
      BY <1>4, <2>1, <3>2 DEF Sound, Live, SameStore, Phase
  <2>2. CASE ~(w.fault.kind = "stretch" /\ Scl(w) = 0 /\ n \in w.fault.at..w.fault.to)
    <3> DEFINE r == SclRises(w)
    <3>1. v = [r EXCEPT !.raises = n]
      BY <1>4, <2>2 DEF WaitSclHigh, n
    <3>2. /\ Sound(r) /\ Same(w, r) /\ SameEnd(w, r) /\ SameStore(w.dev, r.dev)
          /\ (r.sda <=> w.sda) /\ High(r)
          /\ r.dev = IF High(w) THEN w.dev ELSE ClockRises(w.dev, Sda(w))
      BY SclRisesFacts
    <3> HIDE DEF r
    <3>3. /\ v \in Wire /\ v.dev = r.dev /\ Same(r, v) /\ SameEnd(r, v) /\ (v.sda <=> r.sda)
          /\ (High(v) <=> High(r))
      BY <1>1, <3>1, <3>2 DEF Sound, Wire, Same, SameEnd, High
    <3>4. Sound(v)
      BY <3>2, <3>3 DEF Sound, Phase
    <3>5. QED
      BY <1>4, <3>2, <3>3, <3>4 DEF Same, SameEnd, Live
  <2>3. QED
    BY <2>1, <2>2
<1>5. QED
  BY <1>2, <1>3, <1>4

LEMMA RaiseSclFacts ==
  ASSUME NEW w, Sound(w), NEW v, v = RaiseScl(w)
  PROVE  /\ Sound(v) /\ Same(w, v) /\ SameStore(w.dev, v.dev) /\ (v.sda <=> w.sda)
         /\ w.cut => v.cut
         /\ Live(v) => /\ Live(w) /\ High(v)
                       /\ v.dev = IF High(w) THEN w.dev ELSE ClockRises(w.dev, Sda(w))
         /\ w.fault.kind = "none" /\ Live(w) => Live(v)
<1>1. CASE w.fault.kind = "late" /\ w.raises + 1 >= w.fault.at
  <2> DEFINE n == w.raises + 1
             r == [w EXCEPT !.raises = n]
  <2>1. v = IF r.cut THEN r ELSE [r EXCEPT !.status = "TIMEOUT"]
    BY <1>1 DEF RaiseScl, Fails
  <2>2. w \in Wire /\ n \in Nat
    BY DEF Sound, Wire
  <2> HIDE DEF n
  <2>3. /\ r \in Wire /\ r.dev = w.dev /\ Same(w, r) /\ SameEnd(w, r) /\ SameLines(w, r)
    BY <2>2 DEF Wire, Same, SameEnd, SameLines
  <2> HIDE DEF r
  <2>4. v \in Wire /\ v.dev = w.dev /\ Same(w, v) /\ SameLines(w, v) /\ (v.cut <=> w.cut) /\ ~Live(v)
    BY <2>1, <2>3 DEF Wire, Same, SameEnd, SameLines, Live
  <2>5. QED
    BY <1>1, <2>4 DEF Sound, SameLines, SameStore, High, Phase
<1>2. CASE ~(w.fault.kind = "late" /\ w.raises + 1 >= w.fault.at)
  <2>1. v = WaitSclHigh(w)
    BY <1>2 DEF RaiseScl
  <2>2. QED
    BY <2>1, WaitSclHighFacts
<1>3. QED
  BY <1>1, <1>2

LEMMA LowerSclFacts ==
  ASSUME NEW w, Sound(w), NEW v, v = LowerScl(w)
  PROVE  /\ Sound(v) /\ Same(w, v) /\ SameEnd(w, v) /\ (v.sda <=> w.sda)
         /\ w.cut => v = w
         /\ ~w.cut => v.scl /\ ~High(v)
         /\ v.dev = IF ~w.cut /\ High(w) THEN ClockFalls(w.dev) ELSE w.dev
<1>1. w \in Wire /\ (Scl(w) = 0 <=> ~High(w)) /\ w.dev \in Device
  BY WireFacts DEF Sound, Wire
<1>2. CASE w.cut
  BY <1>1, <1>2 DEF LowerScl, Same, SameEnd
<1>3. CASE ~w.cut
  <2> DEFINE d == IF High(w) THEN ClockFalls(w.dev) ELSE w.dev
  <2>1. v = [w EXCEPT !.scl = TRUE, !.dev = d]
    <3>1. CASE High(w)
      BY <1>1, <1>3, <3>1 DEF LowerScl
    <3>2. CASE ~High(w)
      BY <1>1, <1>3, <3>2 DEF LowerScl, Wire
    <3>3. QED
      BY <3>1, <3>2
  <2>2. d \in Device /\ Phase(d, FALSE)
    <3>1. CASE High(w)
      <4>1. Phase(w.dev, TRUE)
        BY <3>1 DEF Sound, Phase
      <4>2. QED
        BY <1>1, <3>1, <4>1, FallingDevice
    <3>2. CASE ~High(w)
      BY <1>1, <3>2 DEF Sound, Phase
    <3>3. QED
      BY <3>1, <3>2
  <2> HIDE DEF d
  <2>3. /\ v \in Wire /\ v.dev = d /\ Same(w, v) /\ SameEnd(w, v) /\ (v.sda <=> w.sda) /\ v.scl
    BY <1>1, <2>1, <2>2 DEF Wire, Same, SameEnd
  <2>4. QED
    BY <1>3, <2>2, <2>3 DEF Sound, High, d, Phase
<1>4. QED
  BY <1>2, <1>3

LEMMA ReleaseLinesFacts ==
  ASSUME NEW w, Sound(w), NEW v, v = ReleaseLines(w)
  PROVE  /\ Sound(v) /\ Same(w, v) /\ SameEnd(w, v) /\ SameStore(w.dev, v.dev)
         /\ ~w.cut => ~v.sda /\ ~v.scl
         /\ ~w.cut /\ High(w) /\ ~w.sda => High(v) /\ v.dev = w.dev
<1> DEFINE r == SetSda(w, FALSE)
<1>1. /\ Sound(r) /\ Same(w, r) /\ SameEnd(w, r) /\ SameStore(w.dev, r.dev)
      /\ (r.scl <=> w.scl) /\ (r.held <=> w.held)
      /\ ~w.cut => ~r.sda
      /\ ~w.cut /\ ~w.sda => r.dev = w.dev
  BY SetSdaFacts
<1>2. CASE w.cut
  BY <1>2 DEF ReleaseLines, Same, SameEnd, SameStore
<1>3. CASE ~w.cut /\ w.held
  <2>1. v = [r EXCEPT !.scl = FALSE]
    BY <1>3 DEF ReleaseLines, ReleaseSda
  <2> HIDE DEF r
  <2>2. /\ v \in Wire /\ v.dev = r.dev /\ Same(r, v) /\ SameEnd(r, v) /\ (v.sda <=> r.sda) /\ ~v.scl
        /\ (v.held <=> r.held)
    BY <1>1, <2>1 DEF Sound, Wire, Same, SameEnd
  <2>3. Sound(v)
    BY <1>1, <1>3, <2>2 DEF Sound, High, Phase
  <2>4. QED
    BY <1>1, <1>3, <2>2, <2>3 DEF Same, SameEnd, High
<1>4. CASE ~w.cut /\ ~w.held
  <2>1. v = SclRises(r)
    BY <1>4 DEF ReleaseLines, ReleaseSda
  <2> HIDE DEF r
  <2>2. /\ Sound(v) /\ Same(r, v) /\ SameEnd(r, v) /\ SameStore(r.dev, v.dev)
        /\ (v.sda <=> r.sda) /\ High(v) /\ (High(r) => v.dev = r.dev)
    BY <1>1, <2>1, SclRisesFacts
  <2>3. QED
    BY <1>1, <1>4, <2>2 DEF Same, SameEnd, SameStore, High
<1>5. QED
  BY <1>2, <1>3, <1>4

\* What holds along a loop, as sets of states by the rounds done.
Along(n, Inv, first, R) ==
    /\ first \in Inv[0]
    /\ \A i \in 1..n : \A x \in Inv[i - 1] : R[<<x, i>>] \in Inv[i]

Runs(g, n, first, R) == g = [i \in 0..n |-> IF i = 0 THEN first ELSE R[<<g[i - 1], i>>]]

LEMMA LoopHistory ==
  ASSUME NEW X, NEW n \in Nat, NEW first, NEW R, NEW Inv, Along(n, Inv, first, R),
         \A i \in 0..n : Inv[i] \subseteq X
  PROVE  \E g : Runs(g, n, first, R) /\ \A i \in 0..n : g[i] \in Inv[i]
<1> DEFINE Next(p) == IF R[p] \in X THEN R[p] ELSE p[1]
           F == [p \in X \X (1..n) |-> Next(p)]
<1>1. 0 \in 0..n /\ first \in X
  BY DEF Along
<1>2. F \in [X \X (1..n) -> X]
  OBVIOUS
<1>3. \A x \in X, i \in 1..n : R[<<x, i>>] \in X => F[<<x, i>>] = R[<<x, i>>]
  OBVIOUS
<1> HIDE DEF F
<1>4. PICK g : History(g, n, first, F, X)
  BY <1>1, <1>2, HistoryExists
<1>5. g \in [0..n -> X] /\ g[0] = first /\ \A i \in 1..n : g[i] = F[<<g[i - 1], i>>]
  BY <1>4 DEF History
<1>6. ASSUME NEW i \in 1..n, g[i - 1] \in Inv[i - 1]
      PROVE  g[i] = R[<<g[i - 1], i>>] /\ g[i] \in Inv[i]
  <2>1. i - 1 \in 0..n /\ i \in 0..n
    OBVIOUS
  <2>2. R[<<g[i - 1], i>>] \in Inv[i]
    BY <1>6 DEF Along
  <2>3. g[i - 1] \in X /\ R[<<g[i - 1], i>>] \in X
    BY <2>1, <2>2, <1>5
  <2>4. g[i] = R[<<g[i - 1], i>>]
    BY <2>3, <1>3, <1>5
  <2>5. QED
    BY <2>2, <2>4
<1>7. \A i \in 0..n : g[i] \in Inv[i]
  <2> DEFINE S == {i \in 0..n : g[i] \in Inv[i]}
  <2>1. 0 \in S
    BY <1>1, <1>5 DEF Along
  <2>2. ASSUME NEW i \in 1..n, i - 1 \in S PROVE i \in S
    <3>1. g[i - 1] \in Inv[i - 1] /\ i \in 0..n
      BY <2>2
    <3>2. QED
      BY <3>1, <1>6
  <2>3. \A i \in 0..n : i \in S
    <3> HIDE DEF S
    <3>1. QED
      BY <2>1, <2>2, Upto
  <2>4. QED
    BY <2>3
<1>8. ASSUME NEW i \in 0..n PROVE g[i] = IF i = 0 THEN first ELSE R[<<g[i - 1], i>>]
  <2>1. CASE i = 0
    BY <2>1, <1>5
  <2>2. CASE i # 0
    <3>1. i \in 1..n /\ i - 1 \in 0..n
      BY <2>2
    <3>2. QED
      BY <2>2, <3>1, <1>6, <1>7
  <2>3. QED
    BY <2>1, <2>2
<1>9. QED
  BY <1>5, <1>7, <1>8 DEF Runs

\* A rising clock, by what the device does then.
LEMMA RisingFields ==
  ASSUME NEW dev \in Device, NEW sda \in {0, 1}, NEW e, e = ClockRises(dev, sda)
  PROVE  /\ Receives(dev) /\ dev.slot = "data" =>
               /\ e.mode = dev.mode /\ e.slot = "data" /\ e.bits = dev.bits + 1
               /\ e.value = 2 * dev.value + sda /\ (e.low <=> dev.low)
         /\ Receives(dev) /\ dev.slot = "ack" => e = dev
         /\ dev.mode = "read" /\ dev.slot = "data" =>
               /\ e.mode = "read" /\ e.slot = "data" /\ e.bits = dev.bits + 1
               /\ e.value = dev.value /\ (e.low <=> dev.low)
         /\ dev.mode = "read" /\ dev.slot = "ack" => e = IF sda = 1 THEN Quiet(dev) ELSE dev
         /\ dev.mode = "idle" => e = dev
<1>1. Receives(dev) => dev.mode # "read" /\ dev.mode # "idle"
  BY DEF Receives
<1>2. CASE Receives(dev) /\ dev.slot = "data"
  <2>1. e = [dev EXCEPT !.value = 2 * @ + sda, !.bits = @ + 1]
    BY <1>2 DEF ClockRises
  <2>2. QED
    BY <1>1, <1>2, <2>1 DEF Device
<1>3. CASE ~Receives(dev) /\ dev.mode = "read" /\ dev.slot = "data"
  <2>1. e = [dev EXCEPT !.bits = @ + 1]
    BY <1>3 DEF ClockRises
  <2>2. QED
    BY <1>3, <2>1 DEF Device
<1>4. CASE (Receives(dev) /\ dev.slot = "ack") \/ (~Receives(dev) /\ (dev.mode # "read" \/ dev.slot = "ack"))
  BY <1>1, <1>4 DEF ClockRises
<1>5. QED
  BY <1>1, <1>2, <1>3, <1>4 DEF Device

\* A device that drives SDA low and sees a pulse, is in a byte it sends, or
\* has just acknowledged one.
LEMMA LowFalls ==
  ASSUME NEW dev \in Device, Phase(dev, TRUE), dev.low, NEW e, e = ClockFalls(dev)
  PROVE  /\ e.mem = dev.mem /\ (Receives(dev) \/ dev.mode = "read")
         /\ Receives(dev) => e.slot = "data" /\ (Receives(e) \/ (e.mode = "read" /\ e.bits = 0))
         /\ dev.mode = "read" => /\ e.mode = "read" /\ dev.slot = "data"
                                 /\ e.slot = "ack" \/ (e.slot = "data" /\ e.bits = dev.bits)
<1>1. dev.mode # "idle" /\ (Receives(dev) \/ dev.mode = "read")
  BY DEF Phase, Device, Receives
<1>2. ~(dev.mode = "write" /\ dev.slot = "data" /\ dev.bits = Bits)
  BY DEF Phase, Receives
<1>3. e.mem = dev.mem
  BY <1>2, FallingDevice
<1>4. ASSUME Receives(dev)
      PROVE  e.slot = "data" /\ (Receives(e) \/ (e.mode = "read" /\ e.bits = 0))
  <2>1. dev.slot = "ack" /\ e = Acknowledged(dev)
    BY <1>1, <1>4 DEF Phase, ClockFalls
  <2>2. TRUE \in BOOLEAN
    OBVIOUS
  <2> DEFINE a == Acknowledged(dev)
  <2>3. /\ a.slot = "data" /\ a.bits = 0
        /\ dev.mode = "read" \/ (dev.mode = "address" /\ dev.value % 2 = 1) => a.mode = "read"
        /\ ~(dev.mode = "read" \/ (dev.mode = "address" /\ dev.value % 2 = 1)) =>
                   a.mode = IF dev.mode = "address" THEN "pointer" ELSE "write"
    BY <1>1, <2>2, AcknowledgedDevice
  <2>4. e.mode \in {"read", "pointer", "write"}
    BY <2>1, <2>3
  <2>5. QED
    BY <2>1, <2>3, <2>4 DEF Receives
<1>5. ASSUME dev.mode = "read"
      PROVE  e.mode = "read" /\ dev.slot = "data" /\ (e.slot = "ack" \/ (e.slot = "data" /\ e.bits = dev.bits))
  <2>1. dev.slot = "data"
    BY <1>5 DEF Phase, Device
  <2>2. CASE dev.bits = Bits
    <3>1. e = [dev EXCEPT !.slot = "ack", !.low = FALSE]
      BY <1>5, <2>1, <2>2 DEF ClockFalls
    <3>2. QED
      BY <1>5, <2>1, <3>1 DEF Device
  <2>3. CASE dev.bits # Bits
    <3> DEFINE b == BitOf(dev.value, dev.bits + 1) = 0
    <3>1. e = [dev EXCEPT !.low = b]
      BY <1>5, <2>1, <2>3 DEF ClockFalls
    <3> HIDE DEF b
    <3>2. QED
      BY <1>5, <2>1, <3>1 DEF Device
  <2>4. QED
    BY <2>2, <2>3
<1>6. QED
  BY <1>1, <1>3, <1>4, <1>5

-----------------------------------------------------------------------------
(* The bus made free. *)

\* What no step undoes, whatever the fault.
Keeps(w, v) ==
    /\ Sound(v) /\ v.fault = w.fault /\ v.got = w.got
    /\ Live(v) => Live(w)
    /\ w.fault.kind # "sda" => v.dev.mem = w.dev.mem
    /\ w.fault.kind = "none" /\ Live(w) => Live(v)

\* The device after k pulses, while it still holds SDA: a byte it sends is
\* that much nearer to its end.
Freeing(k, x) ==
    IF k = 0 THEN High(x) /\ x.dev.low
    ELSE /\ x.scl
         /\ \/ Receives(x.dev) /\ x.dev.slot = "data" /\ k = 1
            \/ x.dev.mode = "read" /\ x.dev.slot = "data" /\ x.dev.bits >= k - 1
            \/ x.dev.mode = "read" /\ x.dev.slot = "ack"

Pulsed(w, k) ==
    {x \in Wire : /\ Keeps(w, x)
                  /\ Live(x) => /\ ~x.sda
                                /\ x.found => High(x) /\ Sda(x) = 1
                                /\ ~x.found /\ w.fault.kind # "sda" => Freeing(k, x)}

\* One pulse brings the device one step on.
LEMMA OnePulse ==
  ASSUME NEW w, Sound(w), NEW k \in Nat, k > 0, NEW x \in Pulsed(w, k - 1), NEW y,
         y = Then(x, RecoveryPulse)
  PROVE  y \in Pulsed(w, k)
<1>1. x \in Wire /\ Keeps(w, x) /\ Sound(x) /\ w \in Wire
  BY DEF Pulsed, Keeps, Sound
<1>2. CASE ~Live(x)
  <2>1. y = x
    BY <1>1, <1>2, WireFacts DEF Then
  <2>2. QED
    BY <1>1, <1>2, <2>1 DEF Pulsed
<1>3. CASE Live(x) /\ x.found
  <2>1. y = x
    BY <1>1, <1>3, WireFacts DEF Then, RecoveryPulse
  <2>2. QED
    BY <1>1, <1>3, <2>1 DEF Pulsed
<1>4. CASE Live(x) /\ ~x.found
  <2> DEFINE r == RaiseScl(x)
             d == LowerScl(r)
  <2>1. y = IF Ok(r) /\ ~r.cut THEN IF Sda(r) = 1 THEN [r EXCEPT !.found = TRUE] ELSE d ELSE r
    BY <1>1, <1>4, WireFacts DEF Then, RecoveryPulse
  <2>2. /\ Sound(r) /\ Same(x, r) /\ SameStore(x.dev, r.dev) /\ (r.sda <=> x.sda)
        /\ Live(r) => /\ High(r)
                      /\ r.dev = IF High(x) THEN x.dev ELSE ClockRises(x.dev, Sda(x))
        /\ x.fault.kind = "none" => Live(r)
    BY <1>1, <1>4, RaiseSclFacts
  <2>3. /\ Sound(d) /\ Same(r, d) /\ SameEnd(r, d) /\ (d.sda <=> r.sda)
        /\ ~r.cut => d.scl /\ ~High(d)
        /\ d.dev = IF ~r.cut /\ High(r) THEN ClockFalls(r.dev) ELSE r.dev
    BY <2>2, LowerSclFacts
  <2> HIDE DEF r, d
  <2>4. r \in Wire /\ d \in Wire /\ (Ok(r) /\ ~r.cut <=> Live(r)) /\ ~x.sda
        /\ (w.fault.kind # "sda" => Freeing(k - 1, x))
        /\ x.fault = w.fault /\ r.fault = w.fault /\ d.fault = w.fault
        /\ Keeps(w, r) /\ ~r.sda /\ ~r.found
    <3>1. r \in Wire /\ d \in Wire /\ (Ok(r) /\ ~r.cut <=> Live(r)) /\ ~x.sda
      BY <1>4, <2>2, <2>3, WireFacts DEF Sound, Pulsed
    <3>2. Keeps(w, r)
      BY <1>1, <1>4, <2>2 DEF Keeps, Same, SameStore
    <3>3. QED
      BY <1>1, <1>4, <2>2, <2>3, <3>1, <3>2 DEF Same, Keeps, Pulsed
  <2>5. CASE ~Live(r)
    BY <2>1, <2>4, <2>5 DEF Pulsed
  <2>6. CASE Live(r) /\ Sda(r) = 1
    <3>1. y = [r EXCEPT !.found = TRUE]
      BY <2>1, <2>4, <2>6
    <3>2. /\ y \in Wire /\ y.found /\ y.dev = r.dev /\ y.fault = r.fault /\ y.got = r.got
          /\ SameEnd(r, y) /\ SameLines(r, y)
      BY <2>4, <3>1 DEF Wire, SameEnd, SameLines
    <3>3. Sound(y) /\ (High(y) <=> High(r)) /\ Live(y) /\ Sda(y) = 1 /\ ~y.sda
      BY <2>2, <2>4, <2>6, <3>2, WireFacts DEF Sound, SameLines, SameEnd, High, Live, Phase
    <3>4. Keeps(w, y)
      BY <2>4, <2>6, <3>2, <3>3 DEF Keeps
    <3>5. QED
      BY <2>2, <2>6, <3>2, <3>3, <3>4 DEF Pulsed
  <2>7. CASE Live(r) /\ Sda(r) = 0
    <3>1. y = d /\ Live(d) /\ ~r.cut
      BY <2>1, <2>3, <2>4, <2>7 DEF SameEnd, Live
    <3>2. CASE w.fault.kind = "sda"
      <4>1. Keeps(w, d)
        BY <2>3, <2>4, <3>1, <3>2, <2>7 DEF Keeps, Same
      <4>2. QED
        BY <2>3, <2>4, <3>1, <3>2, <4>1 DEF Pulsed, Same
    <3>3. CASE w.fault.kind # "sda"
      <4>1. r.dev.low /\ r.dev \in Device /\ Phase(r.dev, TRUE) /\ d.dev = ClockFalls(r.dev)
            /\ x.dev \in Device /\ d.scl /\ High(r)
        <5>1. (Sda(r) = 0 <=> r.sda \/ r.dev.low \/ r.fault.kind = "sda") /\ r.dev \in Device
              /\ x.dev \in Device
          BY <1>1, <2>4, WireFacts
        <5>2. QED
          BY <2>2, <2>3, <2>4, <2>7, <3>1, <3>3, <5>1 DEF Sound, Phase
      <4>2. /\ d.dev.mem = r.dev.mem /\ (Receives(r.dev) \/ r.dev.mode = "read")
            /\ Receives(r.dev) => d.dev.slot = "data" /\ (Receives(d.dev) \/ (d.dev.mode = "read" /\ d.dev.bits = 0))
            /\ r.dev.mode = "read" => /\ d.dev.mode = "read" /\ r.dev.slot = "data"
                                      /\ d.dev.slot = "ack" \/ (d.dev.slot = "data" /\ d.dev.bits = r.dev.bits)
        BY <4>1, LowFalls
      <4>3. Keeps(w, d)
        BY <2>3, <2>4, <3>1, <4>2, <2>7 DEF Keeps, Same
      <4>4. Freeing(k, d)
        <5>1. CASE k - 1 = 0
          <6>1. k = 1 /\ r.dev.bits >= 0 /\ 0 >= k - 1 /\ r.dev.bits >= k - 1
            BY <4>1, <5>1 DEF Device
          <6>2. QED
            BY <4>1, <4>2, <6>1 DEF Freeing
        <5>2. CASE k - 1 # 0
          <6>1. /\ x.scl /\ Freeing(k - 1, x) /\ ~High(x) /\ Sda(x) \in {0, 1}
                /\ r.dev = ClockRises(x.dev, Sda(x))
                /\ (Sda(x) = 0 <=> x.sda \/ x.dev.low \/ x.fault.kind = "sda")
                /\ Phase(x.dev, FALSE)
            BY <1>1, <2>2, <2>4, <2>7, <3>3, <5>2, WireFacts DEF Freeing, High, Sound
          <6>2. ~(Receives(x.dev) /\ x.dev.slot = "data")
            <7>1. SUFFICES ASSUME Receives(x.dev), x.dev.slot = "data" PROVE FALSE
              OBVIOUS
            <7>2. ~x.dev.low /\ (r.dev.low <=> x.dev.low)
              BY <4>1, <6>1, <7>1, RisingFields DEF Phase
            <7>3. QED
              BY <4>1, <7>2
          <6>3. ~(x.dev.mode = "read" /\ x.dev.slot = "ack")
            <7>1. SUFFICES ASSUME x.dev.mode = "read", x.dev.slot = "ack" PROVE FALSE
              OBVIOUS
            <7>2. Sda(x) = 1
              BY <2>4, <3>3, <6>1, <7>1 DEF Phase
            <7>3. r.dev = Quiet(x.dev)
              BY <4>1, <6>1, <7>1, <7>2, RisingFields
            <7>4. QED
              BY <4>1, <7>3, QuietDevice
          <6>4. x.dev.mode = "read" /\ x.dev.slot = "data" /\ x.dev.bits >= (k - 1) - 1
            BY <5>2, <6>1, <6>2, <6>3 DEF Freeing
          <6>5. r.dev.mode = "read" /\ r.dev.bits = x.dev.bits + 1
            BY <4>1, <6>1, <6>4, RisingFields
          <6>6. r.dev.bits >= k - 1
            BY <4>1, <6>4, <6>5 DEF Device
          <6>7. QED
            BY <4>1, <4>2, <6>5, <6>6 DEF Freeing
        <5>3. QED
          BY <5>1, <5>2
      <4>5. QED
        BY <2>2, <2>3, <2>4, <3>1, <4>3, <4>4 DEF Pulsed, Same
    <3>4. QED
      BY <3>2, <3>3
  <2>8. QED
    BY <2>4, <2>5, <2>6, <2>7, WireFacts
<1>5. QED
  BY <1>2, <1>3, <1>4

LEMMA ClockedFacts ==
  ASSUME NEW w, Sound(w), Live(w), High(w), ~w.sda, w.fault.kind # "sda" => w.dev.low
  PROVE  Clocked(w) \in Pulsed(w, Pulses)
<1> DEFINE n == PulseCount
           first == [w EXCEPT !.found = FALSE]
           Round(x) == Then(x, RecoveryPulse)
           R == [p \in Wire \X (1..n) |-> Round(p[1])]
           Inv == [k \in 0..n |-> Pulsed(w, k)]
<1>1. n \in Nat /\ n = Pulses
  BY Sizes DEF PulseCount
<1>2. first \in Pulsed(w, 0)
  <2>1. w \in Wire
    BY DEF Sound
  <2>2. /\ first \in Wire /\ first.dev = w.dev /\ first.fault = w.fault /\ first.got = w.got
        /\ SameEnd(w, first) /\ SameLines(w, first) /\ ~first.found
    BY <2>1 DEF Wire, SameEnd, SameLines
  <2> HIDE DEF first
  <2>3. Sound(first) /\ High(first) /\ Live(first)
    BY <2>2 DEF Sound, High, Live, SameEnd, SameLines
  <2>4. Keeps(w, first)
    BY <2>2, <2>3 DEF Keeps
  <2>5. QED
    BY <2>2, <2>3, <2>4 DEF Pulsed, Freeing, SameLines
<1> HIDE DEF first
<1>3. \A k \in 1..n : \A x \in Pulsed(w, k - 1) : Round(x) \in Pulsed(w, k)
  BY <1>1, OnePulse
<1> HIDE DEF n
<1>4. \A x \in Wire, k \in 1..n : R[<<x, k>>] = Round(x)
  <2> HIDE DEF Round
  <2>1. QED
    OBVIOUS
<1>5. \A k \in 0..n : Pulsed(w, k) \subseteq Wire /\ Inv[k] = Pulsed(w, k)
  BY DEF Pulsed
<1> HIDE DEF Inv, R, Round
<1>6. PICK g : Runs(g, n, first, R) /\ \A k \in 0..n : g[k] \in Inv[k]
  <2>1. \A k \in 1..n : k \in 0..n /\ k - 1 \in 0..n
    BY <1>1
  <2>2. Along(n, Inv, first, R)
    <3>1. first \in Inv[0]
      BY <1>1, <1>2, <1>5
    <3>2. ASSUME NEW k \in 1..n, NEW x \in Inv[k - 1] PROVE R[<<x, k>>] \in Inv[k]
      <4>1. x \in Pulsed(w, k - 1) /\ x \in Wire
        BY <2>1, <1>5
      <4>2. Round(x) \in Inv[k]
        BY <4>1, <2>1, <1>3, <1>5
      <4>3. QED
        BY <4>1, <4>2, <1>4
    <3>3. QED
      BY <3>1, <3>2 DEF Along
  <2>3. \A k \in 0..n : Inv[k] \subseteq Wire
    BY <1>5
  <2>4. QED
    BY <1>1, <2>2, <2>3, LoopHistory
<1>7. g = [k \in 0..n |-> IF k = 0 THEN first ELSE Round(g[k - 1])]
  <2>1. ASSUME NEW k \in 0..n PROVE g[k] = IF k = 0 THEN first ELSE Round(g[k - 1])
    <3>1. g[k] = IF k = 0 THEN first ELSE R[<<g[k - 1], k>>]
      BY <1>6 DEF Runs
    <3>2. CASE k # 0
      <4>1. k \in 1..n /\ k - 1 \in 0..n
        BY <3>2, <1>1
      <4>2. g[k - 1] \in Wire
        BY <4>1, <1>5, <1>6
      <4>3. QED
        BY <3>1, <3>2, <4>1, <4>2, <1>4
    <3>3. QED
      BY <3>1, <3>2
  <2>2. QED
    BY <1>6, <2>1 DEF Runs
<1>8. \E h : h = [k \in 0..n |-> IF k = 0 THEN first ELSE Round(h[k - 1])] /\ Clocked(w) = h[n]
  BY <1>7, Zenon DEF Clocked, Rounds, first, Round, n
<1>9. PICK h : h = [k \in 0..n |-> IF k = 0 THEN first ELSE Round(h[k - 1])] /\ Clocked(w) = h[n]
  BY <1>8
<1>10. \A k \in 0..n : k \in {j \in 0..n : h[j] \in Pulsed(w, j)}
  <2> DEFINE S == {j \in 0..n : h[j] \in Pulsed(w, j)}
  <2>1. 0 \in S
    BY <1>1, <1>2, <1>9
  <2>2. ASSUME NEW k \in 1..n, k - 1 \in S PROVE k \in S
    <3>1. k \in 0..n /\ k # 0 /\ h[k - 1] \in Pulsed(w, k - 1)
      BY <1>1, <2>2
    <3>2. h[k] = Round(h[k - 1])
      BY <3>1, <1>9
    <3>3. QED
      BY <3>1, <3>2, <1>3
  <2> HIDE DEF S
  <2>3. \A k \in 0..n : k \in S
    BY <1>1, <2>1, <2>2, Upto
  <2>4. QED
    BY <2>3 DEF S
<1>11. QED
  <2>1. n \in 0..n
    BY <1>1
  <2>2. h[n] \in Pulsed(w, n)
    BY <1>10, <2>1
  <2>3. QED
    BY <1>1, <1>9, <2>2

LEMMA FailsFacts ==
  ASSUME NEW w, Sound(w), NEW status \in {"OK", "TIMEOUT", "NACK", "BUS_LOCKED"}, NEW v, v = Fails(w, status)
  PROVE  /\ Sound(v) /\ Same(w, v) /\ SameLines(w, v) /\ v.dev = w.dev /\ (v.cut <=> w.cut)
         /\ ~w.cut => v.status = status
         /\ w.cut => v.status = w.status
<1>1. w \in Wire
  BY DEF Sound
<1>2. CASE w.cut
  BY <1>1, <1>2 DEF Fails, Same, SameLines
<1>3. CASE ~w.cut
  <2>1. v = [w EXCEPT !.status = status]
    BY <1>3 DEF Fails
  <2>2. /\ v \in Wire /\ v.dev = w.dev /\ Same(w, v) /\ SameLines(w, v) /\ (v.cut <=> w.cut)
        /\ v.status = status
    BY <1>1, <2>1 DEF Wire, Same, SameLines
  <2>3. QED
    BY <1>3, <2>2 DEF Sound, SameLines, High, Phase
<1>4. QED
  BY <1>2, <1>3

\* The bus is free: nobody drives a line.
Free(w) == High(w) /\ ~w.sda /\ Sda(w) = 1

LEMMA RecoverBusFacts ==
  ASSUME NEW w, Sound(w), Live(w), High(w), ~w.sda, w.fault.kind # "sda" => w.dev.low,
         NEW v, v = RecoverBus(w)
  PROVE  Keeps(w, v) /\ (Live(v) => Free(v))
<1> DEFINE y == Clocked(w)
           d == SetSda(y, TRUE)
           r == RaiseScl(d)
           l == ReleaseLines(r)
           s == SetSda(r, FALSE)
           f == Fails(s, "BUS_LOCKED")
<1>1. v = IF Ok(y) /\ ~y.cut
          THEN IF ~Ok(r) THEN l ELSE IF Sda(s) = 1 /\ Scl(s) = 1 THEN s ELSE f
          ELSE y
  BY DEF RecoverBus, Then, DriveSda, ReleaseSda
<1>0. /\ y = Clocked(w) /\ d = SetSda(y, TRUE) /\ r = RaiseScl(d) /\ l = ReleaseLines(r)
      /\ s = SetSda(r, FALSE) /\ f = Fails(s, "BUS_LOCKED")
      /\ TRUE \in BOOLEAN /\ FALSE \in BOOLEAN
  OBVIOUS
<1> HIDE DEF y, d, r, l, s, f
<1>2. /\ y \in Wire /\ Keeps(w, y) /\ Sound(y)
      /\ Live(y) => /\ ~y.sda
                    /\ y.found => High(y) /\ Sda(y) = 1
                    /\ ~y.found /\ w.fault.kind # "sda" => Freeing(Pulses, y)
  BY <1>0, ClockedFacts DEF Pulsed, Keeps
<1>3. /\ Sound(d) /\ Same(y, d) /\ SameEnd(y, d) /\ SameStore(y.dev, d.dev)
      /\ (d.scl <=> y.scl) /\ (d.held <=> y.held)
      /\ ~y.cut => d.sda
      /\ ~High(y) => d.dev = y.dev
      /\ ~y.cut /\ High(y) /\ ~y.dev.low /\ y.fault.kind # "sda" /\ ~y.sda => d.dev = Started(y.dev)
  BY <1>0, <1>2, SetSdaFacts
<1>4. /\ Sound(r) /\ Same(d, r) /\ SameStore(d.dev, r.dev) /\ (r.sda <=> d.sda)
      /\ Live(r) => /\ High(r) /\ r.dev = IF High(d) THEN d.dev ELSE ClockRises(d.dev, Sda(d))
      /\ d.fault.kind = "none" /\ Live(d) => Live(r)
  BY <1>0, <1>3, RaiseSclFacts
<1>5. Sound(l) /\ Same(r, l) /\ SameEnd(r, l) /\ SameStore(r.dev, l.dev)
  BY <1>0, <1>4, ReleaseLinesFacts
<1>6. /\ Sound(s) /\ Same(r, s) /\ SameEnd(r, s) /\ SameStore(r.dev, s.dev)
      /\ (s.scl <=> r.scl) /\ (s.held <=> r.held)
      /\ r.cut => s = r
      /\ ~r.cut => ~s.sda
      /\ ~r.cut /\ High(r) /\ ~r.dev.low /\ r.fault.kind # "sda" /\ r.sda => s.dev = Quiet(r.dev)
  <2>1. Sound(r) /\ s = SetSda(r, FALSE) /\ FALSE \in BOOLEAN
    BY <1>0, <1>4
  <2>2. QED
    BY <2>1, SetSdaFacts
<1>7. /\ Sound(f) /\ Same(s, f) /\ f.dev = s.dev /\ (f.cut <=> s.cut)
      /\ ~s.cut => f.status = "BUS_LOCKED"
  <2>1. Sound(s) /\ f = Fails(s, "BUS_LOCKED") /\ "BUS_LOCKED" \in {"OK", "TIMEOUT", "NACK", "BUS_LOCKED"}
    BY <1>0, <1>6
  <2>2. QED
    BY <2>1, FailsFacts
<1>8. CASE ~Live(y)
  BY <1>1, <1>2, <1>8, WireFacts
<1>9. CASE Live(y)
  <2>1. Ok(y) /\ ~y.cut /\ ~y.sda /\ Live(d) /\ d.sda /\ w \in Wire
    BY <1>2, <1>3, <1>9, WireFacts DEF SameEnd, Live, Sound
  <2>2. v \in {l, s, f}
    BY <1>1, <2>1
  <2>3. /\ Sound(v) /\ v.fault = w.fault /\ v.got = w.got /\ SameStore(y.dev, v.dev)
        /\ y.dev \in Device
    <3>1. y.dev \in Device
      BY <1>2, WireFacts
    <3>2. d.fault = w.fault /\ r.fault = w.fault /\ l.fault = w.fault /\ s.fault = w.fault /\ f.fault = w.fault
      BY <1>2, <1>3, <1>4, <1>5, <1>6, <1>7 DEF Same, Keeps
    <3>3. d.got = w.got /\ r.got = w.got /\ l.got = w.got /\ s.got = w.got /\ f.got = w.got
      BY <1>2, <1>3, <1>4, <1>5, <1>6, <1>7 DEF Same, Keeps
    <3>4. SameStore(y.dev, l.dev) /\ SameStore(y.dev, s.dev) /\ SameStore(y.dev, f.dev)
      BY <1>3, <1>4, <1>5, <1>6, <1>7 DEF SameStore
    <3>5. QED
      BY <1>5, <1>6, <1>7, <2>2, <3>1, <3>2, <3>3, <3>4
  <2>4. r.fault = w.fault /\ s.fault = w.fault /\ d.fault = w.fault /\ y.fault = w.fault
        /\ r \in Wire /\ s \in Wire /\ d \in Wire
    BY <1>2, <1>3, <1>4, <1>6 DEF Same, Keeps, Sound
  <2>5. Live(v) => Live(r) /\ v = s
    <3>1. CASE ~Ok(r)
      BY <1>1, <1>5, <2>1, <3>1 DEF SameEnd, Ok, Live
    <3>2. CASE Ok(r) /\ r.cut
      <4>1. ~Live(s) /\ ~Live(f)
        BY <1>6, <1>7, <3>2 DEF Live
      <4>2. QED
        BY <1>1, <2>1, <3>2, <4>1
    <3>3. CASE Live(r)
      <4>1. ~Live(f)
        BY <1>6, <1>7, <3>3 DEF Live, SameEnd
      <4>2. QED
        BY <1>1, <2>1, <3>3, <4>1 DEF Ok, Live
    <3>4. QED
      BY <2>4, <3>1, <3>2, <3>3, WireFacts
  <2>6. ASSUME Live(r), w.fault.kind # "sda" PROVE Live(v) /\ Free(v)
    <3>1. ~y.dev.low /\ ~r.dev.low
      <4>1. CASE y.found
        <5>1. High(y) /\ Sda(y) = 1 /\ ~y.dev.low
          BY <1>2, <1>9, <2>4, <4>1, WireFacts
        <5>2. d.dev = Started(y.dev) /\ High(d)
          BY <1>3, <2>1, <2>4, <2>6, <5>1 DEF High
        <5>3. r.dev = Started(y.dev)
          BY <1>4, <2>6, <5>2
        <5>4. QED
          BY <2>3, <5>1, <5>3, QuietDevice
      <4>2. CASE ~y.found
        <5>1. Freeing(Pulses, y) /\ Pulses \in Nat /\ Pulses - 1 >= Bits /\ Pulses # 1 /\ Pulses # 0
          BY <1>2, <1>9, <2>6, <4>2, Sizes
        <5>2. y.scl /\ ~High(y) /\ Phase(y.dev, FALSE)
          BY <1>2, <5>1 DEF Freeing, High, Sound
        <5>3. y.dev.mode = "read" /\ y.dev.slot = "ack" /\ ~y.dev.low
          <6>1. ~(y.dev.mode = "read" /\ y.dev.slot = "data" /\ y.dev.bits >= Pulses - 1)
            BY <2>3, <5>1, <5>2, Sizes DEF Phase, Device
          <6>2. y.dev.mode = "read" /\ y.dev.slot = "ack"
            BY <5>1, <6>1 DEF Freeing
          <6>3. QED
            BY <5>2, <6>2 DEF Phase
        <5>4. d.dev = y.dev /\ ~High(d) /\ Sda(d) = 0
          BY <1>3, <2>1, <2>4, <5>2, WireFacts DEF High
        <5>5. r.dev = ClockRises(y.dev, 0)
          BY <1>4, <2>6, <5>4
        <5>6. r.dev = y.dev
          BY <2>3, <5>3, <5>5, RisingFields
        <5>7. QED
          BY <5>3, <5>6
      <4>3. QED
        BY <4>1, <4>2
    <3>2. High(r) /\ r.sda /\ ~r.cut /\ Ok(r)
      BY <1>4, <2>1, <2>6 DEF Live, Ok
    <3>3. s.dev = Quiet(r.dev) /\ ~s.sda /\ High(s) /\ ~s.dev.low
      <4>1. s.dev = Quiet(r.dev) /\ ~s.sda /\ High(s)
        BY <1>6, <2>4, <2>6, <3>1, <3>2 DEF High
      <4>2. r.dev \in Device
        BY <2>4, WireFacts
      <4>3. QED
        BY <4>1, <4>2, QuietDevice
    <3>4. Sda(s) = 1 /\ Scl(s) = 1
      BY <2>4, <2>6, <3>3, WireFacts
    <3>5. v = s /\ Live(s)
      BY <1>1, <1>6, <2>1, <2>6, <3>2, <3>4 DEF SameEnd, Live
    <3>6. QED
      BY <3>3, <3>4, <3>5 DEF Free
  <2>7. w.fault.kind = "sda" => ~Live(v)
    <3>1. SUFFICES ASSUME w.fault.kind = "sda", Live(v) PROVE FALSE
      OBVIOUS
    <3>2. Live(r) /\ v = s /\ Sda(s) = 0
      BY <2>4, <2>5, <3>1, WireFacts
    <3>3. v = f /\ ~Live(f)
      BY <1>1, <1>6, <1>7, <2>1, <3>2 DEF Live, Ok, SameEnd
    <3>4. QED
      BY <3>1, <3>3
  <2>8. w.fault.kind # "sda" => v.dev.mem = w.dev.mem
    BY <1>2, <2>3 DEF Keeps, SameStore
  <2>9. w.fault.kind = "none" => Live(v)
    BY <1>4, <2>1, <2>4, <2>6
  <2>10. Live(v) => Free(v)
    BY <2>5, <2>6, <2>7
  <2>11. QED
    BY <2>3, <2>8, <2>9, <2>10 DEF Keeps
<1>10. QED
  BY <1>8, <1>9

LEMMA FreeBusFacts ==
  ASSUME NEW w, Sound(w), Live(w) => High(w) /\ ~w.sda, NEW v, v = FreeBus(w)
  PROVE  Keeps(w, v) /\ (Live(v) => Free(v) /\ w.fault.kind # "sda")
<1>1. w \in Wire /\ (Ok(w) /\ ~w.cut <=> Live(w)) /\ Keeps(w, w)
  BY WireFacts DEF Sound, Keeps
<1>2. CASE ~Live(w)
  <2>1. v = w
    BY <1>1, <1>2 DEF FreeBus, Then
  <2>2. QED
    BY <1>1, <1>2, <2>1
<1>3. CASE Live(w) /\ Sda(w) = 1
  <2>1. v = w
    BY <1>1, <1>3 DEF FreeBus, Then
  <2>2. w.fault.kind # "sda"
    BY <1>1, <1>3, WireFacts
  <2>3. QED
    BY <1>1, <1>3, <2>1, <2>2 DEF Free
<1>4. CASE Live(w) /\ Sda(w) = 0
  <2>1. v = RecoverBus(w)
    BY <1>1, <1>4 DEF FreeBus, Then
  <2>2. w.fault.kind # "sda" => w.dev.low
    BY <1>1, <1>4, WireFacts
  <2>3. Keeps(w, v) /\ (Live(v) => Free(v))
    BY <1>4, <2>1, <2>2, RecoverBusFacts
  <2>4. Free(v) => v.fault.kind # "sda"
    BY <2>3, WireFacts DEF Free, Keeps, Sound
  <2>5. QED
    BY <2>3, <2>4 DEF Keeps
<1>5. QED
  BY <1>1, <1>2, <1>3, <1>4, WireFacts

LEMMA PrepareBusFacts ==
  ASSUME NEW w, Sound(w), NEW v, v = PrepareBus(w)
  PROVE  Keeps(w, v) /\ (Live(v) => Free(v) /\ w.fault.kind # "sda")
<1> DEFINE s == SetSda(w, FALSE)
           x == WaitSclHigh(s)
<1>1. v = FreeBus(x)
  BY DEF PrepareBus, ReleaseSda
<1>2. /\ Sound(s) /\ Same(w, s) /\ SameEnd(w, s) /\ SameStore(w.dev, s.dev)
      /\ ~w.cut => ~s.sda
      /\ w.cut => s = w
  BY SetSdaFacts
<1>3. /\ Sound(x) /\ Same(s, x) /\ SameStore(s.dev, x.dev) /\ (x.sda <=> s.sda)
      /\ Live(x) => Live(s) /\ High(x)
      /\ s.fault.kind = "none" /\ Live(s) => Live(x)
  BY <1>2, WaitSclHighFacts
<1> HIDE DEF s, x
<1>4. Keeps(w, x)
  BY <1>2, <1>3 DEF Keeps, Same, SameEnd, SameStore, Live
<1>5. Live(x) => High(x) /\ ~x.sda
  BY <1>2, <1>3 DEF Live, SameEnd
<1>6. Keeps(x, v) /\ (Live(v) => Free(v) /\ x.fault.kind # "sda")
  BY <1>1, <1>3, <1>5, FreeBusFacts
<1>7. QED
  BY <1>4, <1>6 DEF Keeps

\* The device listens for its address, and SCL is low.
Addressed(w) ==
    /\ Live(w) /\ w.scl /\ ~High(w) /\ w.fault.kind # "sda"
    /\ w.dev.mode = "address" /\ w.dev.slot = "data" /\ w.dev.bits = 0 /\ w.dev.value = 0

LEMMA StartConditionFacts ==
  ASSUME NEW w, Sound(w), NEW v, v = StartCondition(w)
  PROVE  Keeps(w, v) /\ (Live(v) => Addressed(v))
<1> DEFINE p == PrepareBus(w)
           s == SetSda(p, TRUE)
           l == LowerScl(s)
<1>1. w \in Wire /\ (Ok(w) /\ ~w.cut <=> Live(w)) /\ Keeps(w, w)
  BY WireFacts DEF Sound, Keeps
<1>2. v = IF Live(w) THEN IF Ok(p) /\ ~p.cut THEN l ELSE p ELSE w
  BY <1>1 DEF StartCondition, Then, PrepareBus, DriveSda
<1>3. Keeps(w, p) /\ (Live(p) => Free(p) /\ w.fault.kind # "sda")
  BY PrepareBusFacts
<1>4. /\ Sound(s) /\ Same(p, s) /\ SameEnd(p, s) /\ SameStore(p.dev, s.dev)
      /\ (s.scl <=> p.scl) /\ (s.held <=> p.held)
      /\ ~p.cut /\ High(p) /\ ~p.dev.low /\ p.fault.kind # "sda" /\ ~p.sda => s.dev = Started(p.dev)
  BY <1>3, SetSdaFacts DEF Keeps
<1>5. /\ Sound(l) /\ Same(s, l) /\ SameEnd(s, l)
      /\ ~s.cut => l.scl /\ ~High(l)
      /\ l.dev = IF ~s.cut /\ High(s) THEN ClockFalls(s.dev) ELSE s.dev
  BY <1>4, LowerSclFacts
<1> HIDE DEF p, s, l
<1>6. p \in Wire /\ (Ok(p) /\ ~p.cut <=> Live(p)) /\ p.fault = w.fault
  BY <1>3, WireFacts DEF Sound, Keeps
<1>7. CASE ~Live(w) \/ ~Live(p)
  BY <1>1, <1>2, <1>3, <1>6, <1>7
<1>8. CASE Live(w) /\ Live(p)
  <2>1. v = l /\ Free(p) /\ w.fault.kind # "sda" /\ ~p.cut /\ ~p.dev.low /\ p.dev \in Device
    BY <1>2, <1>3, <1>6, <1>8, WireFacts DEF Free
  <2>2. s.dev = Started(p.dev) /\ High(s) /\ ~s.cut
    BY <1>4, <1>6, <2>1 DEF Free, High, SameEnd
  <2>3. /\ s.dev.mode = "address" /\ s.dev.slot = "data" /\ s.dev.bits = 0 /\ s.dev.value = 0
    BY <2>1, <2>2, QuietDevice
  <2>4. l.dev = s.dev
    <3>1. l.dev = ClockFalls(s.dev) /\ s.dev.bits < Bits
      BY <1>5, <2>2, <2>3, Sizes
    <3>2. QED
      BY <2>3, <3>1 DEF ClockFalls
  <2>5. Live(l) /\ l.fault = w.fault /\ l.got = w.got /\ l.dev.mem = w.dev.mem
    BY <1>3, <1>4, <1>5, <1>8, <2>1, <2>4 DEF SameEnd, Same, SameStore, Live, Keeps
  <2>6. Addressed(l)
    BY <1>5, <2>1, <2>2, <2>3, <2>4, <2>5 DEF Addressed
  <2>7. QED
    BY <1>5, <1>8, <2>1, <2>5, <2>6 DEF Keeps
<1>9. QED
  BY <1>7, <1>8

-----------------------------------------------------------------------------
(* A byte written. *)

LEMMA WriteBitFacts ==
  ASSUME NEW w, Sound(w), Live(w), w.scl, w.fault.kind # "sda", Receives(w.dev), w.dev.slot = "data",
         NEW bit \in {0, 1}, NEW v, v = WriteBit(w, bit)
  PROVE  /\ Sound(v) /\ v.fault = w.fault /\ v.got = w.got
         /\ Live(v) => v.scl /\ v.dev = ClockFalls(ClockRises(w.dev, bit))
         /\ ~Live(v) => v.dev.mem = w.dev.mem
         /\ w.fault.kind = "none" => Live(v)
<1> DEFINE b == bit = 0
           s == SetSda(w, b)
           r == RaiseScl(s)
           l == LowerScl(r)
           u == SetSda(r, FALSE)
<1>0. /\ s = SetSda(w, b) /\ r = RaiseScl(s) /\ l = LowerScl(r) /\ u = SetSda(r, FALSE)
      /\ b \in BOOLEAN /\ FALSE \in BOOLEAN /\ (b <=> bit = 0)
  OBVIOUS
<1>1. v = IF Ok(r) THEN l ELSE u
  BY DEF WriteBit, ReleaseSda
<1> HIDE DEF b, s, r, l, u
<1>2. ~High(w) /\ ~w.cut /\ ~w.dev.low /\ w \in Wire
  BY DEF High, Live, Sound, Phase
<1>3. /\ Sound(s) /\ Same(w, s) /\ SameEnd(w, s) /\ s.dev = w.dev /\ (s.sda <=> b)
      /\ (s.scl <=> w.scl)
  BY <1>0, <1>2, SetSdaFacts
<1>4. Live(s) /\ ~High(s) /\ Sda(s) = bit /\ s.fault = w.fault /\ s.got = w.got /\ s \in Wire
  BY <1>0, <1>2, <1>3, WireFacts DEF Live, SameEnd, High, Same, Sound
<1>5. /\ Sound(r) /\ Same(s, r) /\ SameStore(s.dev, r.dev)
      /\ Live(r) => High(r) /\ r.dev = ClockRises(s.dev, Sda(s))
      /\ s.fault.kind = "none" => Live(r)
  BY <1>0, <1>3, <1>4, RaiseSclFacts
<1>6. /\ Sound(l) /\ Same(r, l) /\ SameEnd(r, l)
      /\ ~r.cut => l.scl
      /\ l.dev = IF ~r.cut /\ High(r) THEN ClockFalls(r.dev) ELSE r.dev
  <2>1. Sound(r) /\ l = LowerScl(r)
    BY <1>0, <1>5
  <2>2. QED
    BY <2>1, LowerSclFacts
<1>7. /\ Sound(u) /\ Same(r, u) /\ SameEnd(r, u) /\ SameStore(r.dev, u.dev)
  <2>1. Sound(r) /\ u = SetSda(r, FALSE) /\ FALSE \in BOOLEAN
    BY <1>0, <1>5
  <2>2. QED
    BY <2>1, SetSdaFacts
<1>8. CASE Live(r)
  <2>1. v = l /\ ~r.cut
    BY <1>1, <1>8 DEF Live, Ok
  <2>2. Live(l) /\ l.scl /\ l.dev = ClockFalls(ClockRises(w.dev, bit))
    BY <1>3, <1>4, <1>5, <1>6, <1>8, <2>1 DEF SameEnd, Live
  <2>3. QED
    BY <1>4, <1>5, <1>6, <2>1, <2>2 DEF Same
<1>9. CASE ~Live(r)
  <2>1. (v = l /\ r.cut) \/ (v = u /\ r.status # "OK")
    BY <1>1, <1>9 DEF Live, Ok
  <2>2. ~Live(v) /\ v.dev.mem = w.dev.mem
    BY <1>3, <1>5, <1>6, <1>7, <1>9, <2>1 DEF SameEnd, Live, SameStore
  <2>3. QED
    BY <1>4, <1>5, <1>6, <1>7, <1>9, <2>1, <2>2 DEF Same
<1>10. QED
  BY <1>8, <1>9

\* The device listens to a byte, and SCL is low.
Listening(w) ==
    /\ Sound(w) /\ Live(w) /\ w.scl /\ w.fault.kind # "sda"
    /\ Receives(w.dev) /\ w.dev.slot = "data" /\ w.dev.bits = 0 /\ w.dev.value = 0

\* The device before the acknowledge of a byte.
Took(d, value, e) ==
    IF d.mode = "address" /\ value \div 2 # Address THEN e.mode = "idle" /\ ~e.low /\ SameStore(d, e)
    ELSE /\ e.mode = d.mode /\ e.slot = "ack" /\ e.low /\ e.value = value
         /\ d.mode = "address" => SameStore(d, e)
         /\ d.mode = "pointer" => e.mem = d.mem /\ e.reg = value % Registers
         /\ d.mode = "write" => e.mem = [d.mem EXCEPT ![d.reg] = value] /\ e.reg = Following(d.reg)

Sent(w, value, i) ==
    {x \in Wire : /\ Sound(x) /\ x.fault = w.fault /\ x.got = w.got
                  /\ w.fault.kind = "none" => Live(x)
                  /\ ~Live(x) => x.dev.mem = w.dev.mem
                  /\ Live(x) => x.scl
                  /\ Live(x) /\ i < Bits =>
                        /\ SameStore(w.dev, x.dev) /\ x.dev.mode = w.dev.mode /\ x.dev.slot = "data"
                        /\ x.dev.bits = i /\ x.dev.value = Prefix(value, i)
                  /\ Live(x) /\ i = Bits => Took(w.dev, value, x.dev)}

LEMMA OneBit ==
  ASSUME NEW w, Listening(w), NEW value \in Byte, NEW i \in 1..Bits, NEW x \in Sent(w, value, i - 1),
         NEW y, y = Then(x, LAMBDA z : WriteBit(z, BitOf(value, i)))
  PROVE  y \in Sent(w, value, i)
<1>1. /\ x \in Wire /\ Sound(x) /\ x.fault = w.fault /\ x.got = w.got
      /\ w.fault.kind = "none" => Live(x)
      /\ ~Live(x) => x.dev.mem = w.dev.mem
      /\ Live(x) => x.scl
  BY DEF Sent
<1>2. CASE ~Live(x)
  <2>1. y = x
    BY <1>1, <1>2, WireFacts DEF Then
  <2>2. QED
    BY <1>1, <1>2, <2>1 DEF Sent
<1>3. CASE Live(x)
  <2> DEFINE bit == BitOf(value, i)
             c == ClockRises(x.dev, bit)
  <2>1. i - 1 < Bits /\ Bits \in Nat /\ i \in Nat /\ (i < Bits \/ i = Bits)
    BY Sizes
  <2>2. /\ SameStore(w.dev, x.dev) /\ x.dev.mode = w.dev.mode /\ x.dev.slot = "data"
        /\ x.dev.bits = i - 1 /\ x.dev.value = Prefix(value, i - 1)
    BY <1>3, <2>1 DEF Sent
  <2>3. bit \in {0, 1} /\ Prefix(value, i) = 2 * Prefix(value, i - 1) + bit /\ Prefix(value, Bits) = value
    BY Prefixes
  <2>4. y = WriteBit(x, bit)
    BY <1>1, <1>3, WireFacts DEF Then
  <2>5. Receives(x.dev) /\ x.dev \in Device /\ Phase(x.dev, FALSE) /\ x.scl /\ x.fault.kind # "sda"
    BY <1>1, <1>3, <2>2, WireFacts DEF Listening, Receives, Sound, High
  <2> HIDE DEF bit
  <2>6. /\ Sound(y) /\ y.fault = x.fault /\ y.got = x.got
        /\ Live(y) => y.scl /\ y.dev = ClockFalls(c)
        /\ ~Live(y) => y.dev.mem = x.dev.mem
        /\ x.fault.kind = "none" => Live(y)
    BY <1>1, <1>3, <2>2, <2>3, <2>4, <2>5, WriteBitFacts
  <2>7. c \in Device /\ Phase(c, TRUE) /\ SameStore(x.dev, c)
    BY <2>3, <2>5, RisingDevice
  <2>8. /\ c.mode = w.dev.mode /\ c.slot = "data" /\ c.bits = i /\ c.value = Prefix(value, i) /\ ~c.low
    <3>1. /\ c.mode = x.dev.mode /\ c.slot = "data" /\ c.bits = x.dev.bits + 1
          /\ c.value = 2 * x.dev.value + bit
      BY <2>2, <2>3, <2>5, RisingFields
    <3>2. QED
      BY <2>1, <2>2, <2>3, <2>5, <2>7, <3>1 DEF Phase, Receives
  <2>9. Receives(c) /\ c.mode # "idle" /\ c.mode # "read"
    BY <2>2, <2>5, <2>8 DEF Receives
  <2> HIDE DEF c
  <2>10. CASE i < Bits
    <3>1. ClockFalls(c) = c
      BY <2>8, <2>9, <2>10 DEF ClockFalls
    <3>2. SameStore(w.dev, c)
      BY <2>2, <2>7 DEF SameStore
    <3>3. i # Bits
      BY <2>1, <2>10
    <3>4. y \in Wire /\ (~Live(y) => y.dev.mem = w.dev.mem)
      BY <2>2, <2>6 DEF Sound, SameStore
    <3>5. QED
      BY <1>1, <2>6, <2>8, <2>10, <3>1, <3>2, <3>3, <3>4 DEF Sent
  <2>11. CASE i = Bits
    <3>1. c.value = value /\ c.bits = Bits
      BY <2>3, <2>8, <2>11
    <3> DEFINE e == ClockFalls(c)
    <3>2. IF c.mode = "address" /\ c.value \div 2 # Address THEN e = Quiet(c)
          ELSE /\ e.mode = c.mode /\ e.slot = "ack" /\ e.low /\ e.value = c.value
               /\ c.mode = "address" => SameStore(c, e)
               /\ c.mode = "pointer" => e.mem = c.mem /\ e.reg = c.value % Registers
               /\ c.mode = "write" => /\ e.mem = [c.mem EXCEPT ![c.reg] = c.value]
                                      /\ e.reg = Following(c.reg)
      BY <2>7, <2>8, <2>9, <3>1, TakenDevice
    <3> HIDE DEF e
    <3>3. Took(w.dev, value, e)
      <4>1. c.mem = w.dev.mem /\ c.reg = w.dev.reg
        BY <2>2, <2>7 DEF SameStore
      <4>2. CASE w.dev.mode = "address" /\ value \div 2 # Address
        <5>1. e = Quiet(c)
          BY <2>8, <3>1, <3>2, <4>2
        <5>2. e.mode = "idle" /\ ~e.low /\ SameStore(c, e)
          BY <2>7, <5>1, QuietDevice
        <5>3. QED
          BY <4>1, <4>2, <5>2 DEF Took, SameStore
      <4>3. CASE ~(w.dev.mode = "address" /\ value \div 2 # Address)
        <5>1. /\ e.mode = c.mode /\ e.slot = "ack" /\ e.low /\ e.value = value
              /\ c.mode = "address" => SameStore(c, e)
              /\ c.mode = "pointer" => e.mem = c.mem /\ e.reg = value % Registers
              /\ c.mode = "write" => /\ e.mem = [c.mem EXCEPT ![c.reg] = value]
                                     /\ e.reg = Following(c.reg)
          BY <2>8, <3>1, <3>2, <4>3
        <5>2. QED
          BY <2>8, <4>1, <4>3, <5>1 DEF Took, SameStore
      <4>4. QED
        BY <4>2, <4>3
    <3>4. y \in Wire /\ (~Live(y) => y.dev.mem = w.dev.mem)
      BY <2>2, <2>6 DEF Sound, SameStore
    <3>5. ~(i < Bits)
      BY <2>1, <2>11
    <3>6. QED
      BY <1>1, <2>6, <2>11, <3>3, <3>4, <3>5 DEF Sent, e
  <2>12. QED
    BY <2>1, <2>10, <2>11
<1>4. QED
  BY <1>2, <1>3

WriteBits(w, value) == Rounds(Bits, w, LAMBDA x, i : Then(x, LAMBDA y : WriteBit(y, BitOf(value, i))))

LEMMA AllBits ==
  ASSUME NEW w, Listening(w), NEW value \in Byte
  PROVE  WriteBits(w, value) \in Sent(w, value, Bits)
<1> DEFINE Round(x, i) == Then(x, LAMBDA y : WriteBit(y, BitOf(value, i)))
           R == [p \in Wire \X (1..Bits) |-> Round(p[1], p[2])]
           Inv == [i \in 0..Bits |-> Sent(w, value, i)]
<1>1. Bits \in Nat /\ 0 < Bits
  BY Sizes
<1>2. w \in Sent(w, value, 0)
  <2>1. w \in Wire /\ 0 # Bits /\ Prefix(value, 0) = 0
    BY <1>1, Prefixes DEF Listening, Sound
  <2>2. QED
    BY <2>1 DEF Sent, Listening, SameStore
<1>3. \A i \in 1..Bits : \A x \in Sent(w, value, i - 1) : Round(x, i) \in Sent(w, value, i)
  BY OneBit
<1>4. \A x \in Wire, i \in 1..Bits : R[<<x, i>>] = Round(x, i)
  <2> HIDE DEF Round
  <2>1. QED
    OBVIOUS
<1>5. \A i \in 0..Bits : Sent(w, value, i) \subseteq Wire /\ Inv[i] = Sent(w, value, i)
  BY DEF Sent
<1> HIDE DEF Inv, R, Round
<1>6. PICK g : Runs(g, Bits, w, R) /\ \A i \in 0..Bits : g[i] \in Inv[i]
  <2>1. \A i \in 1..Bits : i \in 0..Bits /\ i - 1 \in 0..Bits
    BY <1>1
  <2>2. Along(Bits, Inv, w, R)
    <3>1. w \in Inv[0]
      BY <1>1, <1>2, <1>5
    <3>2. ASSUME NEW i \in 1..Bits, NEW x \in Inv[i - 1] PROVE R[<<x, i>>] \in Inv[i]
      <4>1. x \in Sent(w, value, i - 1) /\ x \in Wire
        BY <2>1, <1>5
      <4>2. Round(x, i) \in Inv[i]
        BY <4>1, <2>1, <1>3, <1>5
      <4>3. QED
        BY <4>1, <4>2, <1>4
    <3>3. QED
      BY <3>1, <3>2 DEF Along
  <2>3. \A i \in 0..Bits : Inv[i] \subseteq Wire
    BY <1>5
  <2>4. QED
    BY <1>1, <2>2, <2>3, LoopHistory
<1>7. g = [i \in 0..Bits |-> IF i = 0 THEN w ELSE Round(g[i - 1], i)]
  <2>1. ASSUME NEW i \in 0..Bits PROVE g[i] = IF i = 0 THEN w ELSE Round(g[i - 1], i)
    <3>1. g[i] = IF i = 0 THEN w ELSE R[<<g[i - 1], i>>]
      BY <1>6 DEF Runs
    <3>2. CASE i # 0
      <4>1. i \in 1..Bits /\ i - 1 \in 0..Bits
        BY <3>2, <1>1
      <4>2. g[i - 1] \in Wire
        BY <4>1, <1>5, <1>6
      <4>3. QED
        BY <3>1, <3>2, <4>1, <4>2, <1>4
    <3>3. QED
      BY <3>1, <3>2
  <2>2. QED
    BY <1>6, <2>1 DEF Runs
<1>8. \E h : h = [i \in 0..Bits |-> IF i = 0 THEN w ELSE Round(h[i - 1], i)] /\ WriteBits(w, value) = h[Bits]
  BY <1>7, Zenon DEF WriteBits, Rounds, Round
<1>9. PICK h : h = [i \in 0..Bits |-> IF i = 0 THEN w ELSE Round(h[i - 1], i)] /\ WriteBits(w, value) = h[Bits]
  BY <1>8
<1>10. \A i \in 0..Bits : i \in {j \in 0..Bits : h[j] \in Sent(w, value, j)}
  <2> DEFINE S == {j \in 0..Bits : h[j] \in Sent(w, value, j)}
  <2>1. 0 \in S
    BY <1>1, <1>2, <1>9
  <2>2. ASSUME NEW i \in 1..Bits, i - 1 \in S PROVE i \in S
    <3>1. i \in 0..Bits /\ i # 0 /\ h[i - 1] \in Sent(w, value, i - 1)
      BY <1>1, <2>2
    <3>2. h[i] = Round(h[i - 1], i)
      BY <3>1, <1>9
    <3>3. QED
      BY <3>1, <3>2, <1>3
  <2> HIDE DEF S
  <2>3. \A i \in 0..Bits : i \in S
    BY <1>1, <2>1, <2>2, Upto
  <2>4. QED
    BY <2>3 DEF S
<1>11. QED
  <2>1. Bits \in 0..Bits
    BY <1>1
  <2>2. QED
    BY <1>9, <1>10, <2>1

\* The device after the acknowledge of a byte.
AfterByte(d, value, e) ==
    /\ d.mode = "address" => value \div 2 = Address
    /\ d.mode = "address" /\ value % 2 = 1 =>
          /\ e.mode = "read" /\ e.mem = d.mem /\ e.value = d.mem[d.reg] /\ e.reg = Following(d.reg)
          /\ e.low <=> BitOf(d.mem[d.reg], 1) = 0
    /\ d.mode = "address" /\ value % 2 # 1 => e.mode = "pointer" /\ e.value = 0 /\ SameStore(d, e)
    /\ d.mode = "pointer" =>
          e.mode = "write" /\ e.value = 0 /\ e.mem = d.mem /\ e.reg = value % Registers
    /\ d.mode = "write" =>
          /\ e.mode = "write" /\ e.value = 0
          /\ e.mem = [d.mem EXCEPT ![d.reg] = value] /\ e.reg = Following(d.reg)

\* A byte acknowledged was taken whole; one that was not changed nothing, or
\* was taken before the acknowledge was lost.
WroteByte(w, value, v) ==
    /\ Sound(v) /\ v.fault = w.fault /\ v.got = w.got
    /\ Live(v) => v.scl /\ v.dev.slot = "data" /\ v.dev.bits = 0 /\ AfterByte(w.dev, value, v.dev)
    /\ ~Live(v) => \/ v.dev.mem = w.dev.mem
                   \/ w.dev.mode = "write" /\ v.dev.mem = [w.dev.mem EXCEPT ![w.dev.reg] = value]
    /\ w.fault.kind = "none" /\ (w.dev.mode = "address" => value \div 2 = Address) => Live(v)

LEMMA WriteByteFacts ==
  ASSUME NEW w, Listening(w), NEW value \in Byte, NEW v, v = WriteByte(w, value)
  PROVE  WroteByte(w, value, v)
<1> DEFINE x == WriteBits(w, value)
           s == SetSda(x, FALSE)
           r == RaiseScl(s)
           l == LowerScl(r)
           f == Fails(l, "NACK")
<1>0. /\ x = WriteBits(w, value) /\ s = SetSda(x, FALSE) /\ r = RaiseScl(s) /\ l = LowerScl(r)
      /\ f = Fails(l, "NACK") /\ FALSE \in BOOLEAN
      /\ "NACK" \in {"OK", "TIMEOUT", "NACK", "BUS_LOCKED"}
  OBVIOUS
<1>1. v = IF Ok(x) /\ ~x.cut
          THEN IF Ok(r) /\ ~r.cut THEN IF Sda(r) = 0 THEN l ELSE f ELSE r
          ELSE x
  BY Zenon DEF WriteByte, WriteBits, Then, ReleaseSda
<1> HIDE DEF x, s, r, l, f
<1>2. /\ x \in Wire /\ Sound(x) /\ x.fault = w.fault /\ x.got = w.got
      /\ w.fault.kind = "none" => Live(x)
      /\ ~Live(x) => x.dev.mem = w.dev.mem
      /\ Live(x) => x.scl
      /\ Live(x) => Took(w.dev, value, x.dev)
  BY <1>0, AllBits, Sizes DEF Sent
<1>3. CASE ~Live(x)
  <2>1. v = x
    BY <1>1, <1>2, <1>3, WireFacts
  <2>2. QED
    BY <1>2, <1>3, <2>1 DEF WroteByte
<1>4. CASE Live(x)
  <2>1. ~High(x) /\ ~x.cut /\ Ok(x) /\ x.dev \in Device /\ Took(w.dev, value, x.dev)
        /\ w.dev \in Device /\ w.fault.kind # "sda" /\ Receives(w.dev)
    BY <1>2, <1>4, WireFacts DEF High, Live, Ok, Listening, Sound
  <2>2. Sound(s) /\ Same(x, s) /\ SameEnd(x, s) /\ s.dev = x.dev /\ ~s.sda /\ (s.scl <=> x.scl)
    BY <1>0, <1>2, <2>1, SetSdaFacts
  <2>3. ~High(s) /\ Live(s) /\ s \in Wire /\ s.fault = w.fault /\ s.got = w.got
    BY <1>2, <1>4, <2>2 DEF High, Live, SameEnd, Same, Sound
  <2>4. /\ Sound(r) /\ Same(s, r) /\ SameStore(s.dev, r.dev) /\ ~r.sda
        /\ Live(r) => High(r) /\ r.dev = ClockRises(s.dev, Sda(s))
        /\ s.fault.kind = "none" => Live(r)
    BY <1>0, <2>2, <2>3, RaiseSclFacts
  <2>5. /\ Sound(l) /\ Same(r, l) /\ SameEnd(r, l)
        /\ ~r.cut => l.scl
        /\ l.dev = IF ~r.cut /\ High(r) THEN ClockFalls(r.dev) ELSE r.dev
    <3>1. Sound(r) /\ l = LowerScl(r)
      BY <1>0, <2>4
    <3>2. QED
      BY <3>1, LowerSclFacts
  <2>6. Sound(f) /\ Same(l, f) /\ f.dev = l.dev /\ (~l.cut => f.status = "NACK")
    <3>1. Sound(l) /\ f = Fails(l, "NACK") /\ "NACK" \in {"OK", "TIMEOUT", "NACK", "BUS_LOCKED"}
      BY <1>0, <2>5
    <3>2. QED
      BY <3>1, FailsFacts
  <2>7. /\ r.fault = w.fault /\ l.fault = w.fault /\ f.fault = w.fault /\ r \in Wire
        /\ r.got = w.got /\ l.got = w.got /\ f.got = w.got
    BY <2>3, <2>4, <2>5, <2>6 DEF Same, Sound
  <2>8. \/ x.dev.mem = w.dev.mem
        \/ w.dev.mode = "write" /\ x.dev.mem = [w.dev.mem EXCEPT ![w.dev.reg] = value]
    BY <2>1 DEF Took, SameStore, Receives
  <2>9. CASE ~Live(r)
    <3>1. v = r
      BY <1>1, <2>1, <2>7, <2>9, WireFacts
    <3>2. r.dev.mem = x.dev.mem
      BY <2>2, <2>4 DEF SameStore
    <3>3. QED
      BY <2>3, <2>4, <2>7, <2>8, <2>9, <3>1, <3>2 DEF WroteByte
  <2>10. CASE Live(r) /\ w.dev.mode = "address" /\ value \div 2 # Address
    <3>1. x.dev.mode = "idle" /\ ~x.dev.low /\ SameStore(w.dev, x.dev)
      BY <2>1, <2>10 DEF Took
    <3>2. r.dev = x.dev
      BY <2>1, <2>2, <2>3, <2>4, <2>10, <3>1, RisingFields, WireFacts
    <3>3. Sda(r) = 1 /\ Ok(r) /\ ~r.cut
      BY <2>1, <2>4, <2>7, <2>10, <3>1, <3>2, WireFacts
    <3>4. v = f
      BY <1>1, <2>1, <3>3
    <3>5. ~Live(f) /\ f.dev = x.dev
      BY <2>4, <2>5, <2>6, <2>10, <3>1, <3>2, <3>3 DEF SameEnd, Live, ClockFalls
    <3>6. QED
      BY <2>6, <2>7, <2>8, <2>10, <3>4, <3>5 DEF WroteByte
  <2>11. CASE Live(r) /\ ~(w.dev.mode = "address" /\ value \div 2 # Address)
    <3>1. /\ x.dev.mode = w.dev.mode /\ x.dev.slot = "ack" /\ x.dev.low /\ x.dev.value = value
          /\ w.dev.mode = "address" => SameStore(w.dev, x.dev)
          /\ w.dev.mode = "pointer" => x.dev.mem = w.dev.mem /\ x.dev.reg = value % Registers
          /\ w.dev.mode = "write" => /\ x.dev.mem = [w.dev.mem EXCEPT ![w.dev.reg] = value]
                                     /\ x.dev.reg = Following(w.dev.reg)
      BY <2>1, <2>11 DEF Took
    <3>2. Receives(x.dev) /\ x.dev.mode # "idle" /\ x.dev.mode # "read"
      BY <2>1, <3>1 DEF Receives
    <3>3. r.dev = x.dev
      BY <2>1, <2>2, <2>3, <2>4, <2>11, <3>1, <3>2, RisingFields, WireFacts
    <3>4. Sda(r) = 0 /\ Ok(r) /\ ~r.cut
      BY <2>7, <2>11, <3>1, <3>3, WireFacts
    <3>5. v = l /\ Live(l) /\ l.scl
      BY <1>1, <2>1, <2>5, <2>11, <3>4 DEF SameEnd, Live
    <3> DEFINE e == Acknowledged(x.dev)
    <3>6. l.dev = e
      BY <2>4, <2>5, <2>11, <3>1, <3>2, <3>3, <3>4 DEF ClockFalls
    <3>7. /\ e.mem = x.dev.mem /\ e.slot = "data" /\ e.bits = 0
          /\ x.dev.mode = "read" \/ (x.dev.mode = "address" /\ x.dev.value % 2 = 1) =>
                /\ e.mode = "read" /\ e.value = x.dev.mem[x.dev.reg] /\ e.reg = Following(x.dev.reg)
                /\ e.low <=> BitOf(x.dev.mem[x.dev.reg], 1) = 0
          /\ ~(x.dev.mode = "read" \/ (x.dev.mode = "address" /\ x.dev.value % 2 = 1)) =>
                /\ e.mode = IF x.dev.mode = "address" THEN "pointer" ELSE "write"
                /\ e.value = 0 /\ e.reg = x.dev.reg /\ ~e.low
      <4>1. TRUE \in BOOLEAN
        OBVIOUS
      <4>2. QED
        BY <2>1, <3>2, <4>1, AcknowledgedDevice
    <3> HIDE DEF e
    <3>8. AfterByte(w.dev, value, e)
      <4>1. CASE w.dev.mode = "address"
        <5>1. value \div 2 = Address /\ x.dev.mode = "address" /\ x.dev.value = value
              /\ x.dev.mem = w.dev.mem /\ x.dev.reg = w.dev.reg
          BY <2>11, <3>1, <4>1 DEF SameStore
        <5>2. CASE value % 2 = 1
          <6>1. /\ e.mode = "read" /\ e.value = x.dev.mem[x.dev.reg] /\ e.reg = Following(x.dev.reg)
                /\ (e.low <=> BitOf(x.dev.mem[x.dev.reg], 1) = 0) /\ e.mem = x.dev.mem
            BY <3>7, <5>1, <5>2
          <6>2. QED
            BY <4>1, <5>1, <5>2, <6>1 DEF AfterByte
        <5>3. CASE value % 2 # 1
          <6>1. e.mode = "pointer" /\ e.value = 0 /\ e.reg = x.dev.reg /\ e.mem = x.dev.mem
            BY <3>7, <5>1, <5>3
          <6>2. QED
            BY <4>1, <5>1, <5>3, <6>1 DEF AfterByte, SameStore
        <5>4. QED
          BY <5>2, <5>3
      <4>2. CASE w.dev.mode # "address"
        <5>1. e.mode = "write" /\ e.value = 0 /\ e.reg = x.dev.reg /\ e.mem = x.dev.mem
          BY <3>1, <3>2, <3>7, <4>2
        <5>2. QED
          BY <3>1, <4>2, <5>1 DEF AfterByte
      <4>3. QED
        BY <4>1, <4>2
    <3>9. QED
      BY <2>5, <2>7, <3>5, <3>6, <3>7, <3>8 DEF WroteByte
  <2>12. QED
    BY <2>9, <2>10, <2>11
<1>5. QED
  BY <1>3, <1>4

-----------------------------------------------------------------------------
(* Several bytes: the registers they belong to. *)

LEMMA Remainder ==
  ASSUME NEW n \in Nat, n > 0, NEW q \in Nat, NEW t \in Nat, t < n
  PROVE  (n * q + t) % n = t
<1> DEFINE a == n * q + t
<1>1. a \in Nat
  OBVIOUS
<1>2. a \div n = q
  OBVIOUS
<1>3. a = n * (a \div n) + (a % n)
  <2> HIDE DEF a
  <2>1. QED
    BY <1>1
<1>4. a % n \in Nat
  BY <1>1
<1> DEFINE p == n * q
           m == a % n
<1>5. p \in Nat /\ m \in Nat /\ p + t = p + m
  BY <1>2, <1>3, <1>4
<1> HIDE DEF p, m
<1>6. m = t
  BY <1>5
<1>7. QED
  BY <1>6 DEF m

LEMMA WrappedAdd ==
  ASSUME NEW n \in Nat, n > 0, NEW a \in Nat, NEW d \in 0..(n - 1)
  PROVE  /\ (a + d) % n = IF (a % n) + d < n THEN (a % n) + d ELSE (a % n) + d - n
         /\ a % n \in 0..(n - 1) /\ (a + d) % n \in 0..(n - 1)
<1> DEFINE q == a \div n
           m == a % n
<1>1. q \in Nat /\ m \in 0..(n - 1) /\ a = n * q + m
  OBVIOUS
<1>2. (a + d) % n \in 0..(n - 1)
  OBVIOUS
<1> HIDE DEF q, m
<1>3. CASE m + d < n
  <2>1. a + d = n * q + (m + d) /\ m + d \in Nat
    <3> DEFINE p == n * q
    <3>1. p \in Nat
      BY <1>1
    <3> HIDE DEF p
    <3>2. a = p + m
      BY <1>1 DEF p
    <3>3. a + d = p + (m + d) /\ m + d \in Nat
      BY <1>1, <3>1, <3>2
    <3>4. QED
      BY <3>3 DEF p
  <2>2. (n * q + (m + d)) % n = m + d
    BY <1>1, <1>3, <2>1, Remainder
  <2>3. (a + d) % n = m + d
    BY <2>1, <2>2
  <2>4. QED
    BY <1>1, <1>2, <1>3, <2>3 DEF m
<1>4. CASE ~(m + d < n)
  <2>1. a + d = n * (q + 1) + (m + d - n) /\ m + d - n \in Nat /\ m + d - n < n /\ q + 1 \in Nat
    <3> DEFINE p == n * q
    <3>1. p \in Nat /\ n * (q + 1) = p + n
      BY <1>1
    <3> HIDE DEF p
    <3>2. a = p + m
      BY <1>1 DEF p
    <3>3. a + d = (p + n) + (m + d - n) /\ m + d - n \in Nat /\ m + d - n < n
      BY <1>1, <1>4, <3>1, <3>2
    <3>4. QED
      BY <1>1, <3>1, <3>3
  <2>2. (n * (q + 1) + (m + d - n)) % n = m + d - n
    BY <2>1, Remainder
  <2>3. (a + d) % n = m + d - n
    BY <2>1, <2>2
  <2>4. QED
    BY <1>1, <1>2, <1>4, <2>3 DEF m
<1>5. QED
  BY <1>3, <1>4

LEMMA AtFacts ==
  ASSUME NEW reg \in 0..(Registers - 1), NEW j \in Nat, j > 0
  PROVE  /\ At(reg, j) \in 0..(Registers - 1)
         /\ Following(At(reg, j)) = At(reg, j + 1)
         /\ At(reg, 1) = reg
         /\ \A k \in Nat : j < k /\ k < j + Registers => At(reg, j) # At(reg, k)
<1> DEFINE n == Registers
           a == reg + j - 1
<1>1. n \in Nat /\ n > 0 /\ a \in Nat /\ At(reg, j) = a % n
  BY Sizes DEF At
<1>2. At(reg, 1) = reg
  BY Sizes DEF At
<1>3. a % n \in 0..(n - 1)
  BY <1>1
<1>5. Following(At(reg, j)) = At(reg, j + 1)
  <2>1. At(reg, j + 1) = (a + 1) % n /\ Following(At(reg, j)) = ((a % n) + 1) % n
    BY <1>1 DEF At, Following
  <2> DEFINE m == a % n
  <2>2. m \in 0..(n - 1)
    BY <1>3
  <2>3. CASE n = 1
    <3>1. m = 0 /\ (m + 1) % n = 0 /\ (a + 1) % n = 0
      BY <1>1, <2>2, <2>3
    <3>2. QED
      BY <2>1, <3>1
  <2>4. CASE n # 1
    <3>0. 1 \in 0..(n - 1)
      BY <1>1, <2>4
    <3>1. (a + 1) % n = IF m + 1 < n THEN m + 1 ELSE m + 1 - n
      <4> HIDE DEF n, a
      <4>1. QED
        BY ONLY <1>1, <3>0, WrappedAdd DEF m
    <3> HIDE DEF m, n, a
    <3>2. (m + 1) % n = IF m + 1 < n THEN m + 1 ELSE m + 1 - n
      BY <1>1, <2>2
    <3>3. QED
      BY <2>1, <3>1, <3>2 DEF m
  <2>5. QED
    BY <2>3, <2>4
<1>6. ASSUME NEW k \in Nat, j < k, k < j + Registers PROVE At(reg, j) # At(reg, k)
  <2> DEFINE d == k - j
  <2>1. d \in 1..(n - 1) /\ At(reg, k) = (a + d) % n
    <3>1. d \in 1..(n - 1) /\ reg + k - 1 = a + d
      BY <1>1, <1>6
    <3>2. QED
      BY <3>1 DEF At
  <2> HIDE DEF d, n, a
  <2>2. (a + d) % n = IF (a % n) + d < n THEN (a % n) + d ELSE (a % n) + d - n
    <3>1. d \in 0..(n - 1)
      BY <2>1
    <3>2. QED
      BY ONLY <1>1, <3>1, WrappedAdd
  <2>3. (a + d) % n # a % n
    <3> DEFINE m == a % n
    <3>1. m \in 0..(n - 1)
      BY <1>3
    <3>2. (a + d) % n = IF m + d < n THEN m + d ELSE m + d - n
      BY <2>2
    <3> HIDE DEF m
    <3>3. (a + d) % n # m
      BY <1>1, <2>1, <3>1, <3>2
    <3>4. QED
      BY <3>3 DEF m
  <2>4. QED
    BY <1>1, <2>1, <2>3
<1>7. QED
  BY <1>1, <1>2, <1>3, <1>5, <1>6

-----------------------------------------------------------------------------
(* A message written. *)

\* An address and a direction; for a write a register, and the values.
Message(s) ==
    /\ s \in Seq(Byte) /\ Len(s) >= 1 /\ (s[1] % 2 = 1 => Len(s) = 1)
    /\ Len(s) >= 2 => s[2] \in 0..(Registers - 1)
    /\ \A i \in 3..Len(s) : s[i] \in Bytes

\* Registers keep what they had, or have a value written as a whole.
Wholly(w, x) ==
    \A r \in 0..(Registers - 1) : x.dev.mem[r] = w.dev.mem[r] \/ x.dev.mem[r] \in Bytes

Filled(w, s, i, e) ==
    /\ e.mode = "write" /\ e.value = 0 /\ e.reg = At(s[2], i - 1)
    /\ i = 2 => e.mem = w.dev.mem
    /\ \A j \in 1..(i - 2) : i - 2 < j + Registers => e.mem[At(s[2], j)] = s[j + 2]

Answered(w, s, i, e) ==
    /\ s[1] \div 2 = Address /\ e.slot = "data" /\ e.bits = 0
    /\ s[1] % 2 = 1 =>
          /\ e.mode = "read" /\ e.mem = w.dev.mem /\ e.value = w.dev.mem[w.dev.reg]
          /\ e.reg = Following(w.dev.reg)
          /\ e.low <=> BitOf(w.dev.mem[w.dev.reg], 1) = 0
    /\ s[1] % 2 # 1 /\ i = 1 => e.mode = "pointer" /\ e.value = 0 /\ e.mem = w.dev.mem
    /\ i >= 2 => Filled(w, s, i, e)

Told(w, s, i) ==
    {x \in Wire : /\ Sound(x) /\ x.fault = w.fault /\ x.got = w.got /\ Wholly(w, x)
                  /\ ~Live(w) \/ i = 0 => x = w
                  /\ w.fault.kind = "none" /\ Live(w) /\ s[1] \div 2 = Address => Live(x)
                  /\ Live(x) /\ i > 0 => x.scl /\ Answered(w, s, i, x.dev)}

LEMMA OneByte ==
  ASSUME NEW w, Sound(w), Live(w) => Addressed(w), NEW s, Message(s),
         NEW i \in 1..Len(s), NEW x \in Told(w, s, i - 1), NEW y,
         y = Then(x, LAMBDA z : WriteByte(z, s[i]))
  PROVE  y \in Told(w, s, i)
<1>0. s \in Seq(Byte) /\ Len(s) \in Nat /\ i \in Nat /\ i >= 1 /\ i <= Len(s) /\ s[i] \in Byte
      /\ i > 0 /\ i # 0 /\ (Live(w) => Listening(w)) /\ w \in Wire
  BY DEF Message, Addressed, Listening, Receives, Sound
<1>1. /\ x \in Wire /\ Sound(x) /\ x.fault = w.fault /\ x.got = w.got /\ Wholly(w, x)
      /\ ~Live(w) \/ i - 1 = 0 => x = w
      /\ w.fault.kind = "none" /\ Live(w) /\ s[1] \div 2 = Address => Live(x)
      /\ Live(x) /\ i - 1 > 0 => x.scl /\ Answered(w, s, i - 1, x.dev)
  BY DEF Told
<1>2. CASE ~Live(x)
  <2>1. y = x
    BY <1>1, <1>2, WireFacts DEF Then
  <2>2. QED
    BY <1>0, <1>1, <1>2, <2>1 DEF Told
<1>3. CASE Live(x)
  <2>1. y = WriteByte(x, s[i]) /\ Live(w)
    BY <1>1, <1>3, WireFacts DEF Then
  <2>2. Listening(x)
    <3>1. CASE i = 1
      BY <1>0, <1>1, <2>1, <3>1
    <3>2. CASE i # 1
      <4>1. i - 1 > 0 /\ i >= 2 /\ s[1] % 2 # 1
        BY <1>0, <3>2 DEF Message
      <4>2. x.scl /\ Answered(w, s, i - 1, x.dev)
        BY <1>1, <1>3, <4>1
      <4>3. /\ x.dev.slot = "data" /\ x.dev.bits = 0
            /\ i - 1 = 1 => x.dev.mode = "pointer" /\ x.dev.value = 0
            /\ i - 1 >= 2 => x.dev.mode = "write" /\ x.dev.value = 0
        BY <4>1, <4>2 DEF Answered, Filled
      <4>4. Receives(x.dev) /\ x.dev.value = 0
        BY <1>0, <4>1, <4>3 DEF Receives
      <4>5. QED
        BY <1>0, <1>1, <1>3, <2>1, <4>2, <4>3, <4>4 DEF Listening
    <3>3. QED
      BY <3>1, <3>2
  <2>3. WroteByte(x, s[i], y)
    BY <1>0, <2>1, <2>2, WriteByteFacts
  <2>4. /\ Sound(y) /\ y \in Wire /\ y.fault = w.fault /\ y.got = w.got /\ i # 0
    BY <1>0, <1>1, <2>3 DEF WroteByte, Sound
  <2>5. i = 1 => x = w /\ x.dev.mode = "address"
    BY <1>0, <1>1, <2>1 DEF Addressed
  <2>6. i # 1 => /\ i >= 2 /\ i - 1 > 0 /\ s[1] % 2 # 1 /\ x.dev.mode # "address"
                 /\ Answered(w, s, i - 1, x.dev) /\ s[2] \in 0..(Registers - 1)
    <3>1. SUFFICES ASSUME i # 1
                   PROVE  /\ i >= 2 /\ i - 1 > 0 /\ s[1] % 2 # 1 /\ x.dev.mode # "address"
                          /\ Answered(w, s, i - 1, x.dev) /\ s[2] \in 0..(Registers - 1)
      OBVIOUS
    <3>2. i - 1 > 0 /\ i >= 2 /\ s[1] % 2 # 1 /\ s[2] \in 0..(Registers - 1)
          /\ (i - 1 = 1 \/ i - 1 >= 2)
      BY <1>0, <3>1 DEF Message
    <3>3. Answered(w, s, i - 1, x.dev)
      BY <1>1, <1>3, <3>2
    <3>4. QED
      BY <3>2, <3>3 DEF Answered, Filled
  <2>7. w.fault.kind = "none" /\ s[1] \div 2 = Address => Live(y)
    BY <1>1, <2>3, <2>5, <2>6 DEF WroteByte
  <2>8. i # 1 /\ i # 2 =>
           /\ x.dev.mode = "write" /\ s[i] \in Bytes /\ x.dev.reg = At(s[2], i - 2)
           /\ \A j \in 1..(i - 3) : i - 3 < j + Registers => x.dev.mem[At(s[2], j)] = s[j + 2]
    <3>1. SUFFICES ASSUME i # 1, i # 2
                   PROVE  /\ x.dev.mode = "write" /\ s[i] \in Bytes /\ x.dev.reg = At(s[2], i - 2)
                          /\ \A j \in 1..(i - 3) : i - 3 < j + Registers =>
                                x.dev.mem[At(s[2], j)] = s[j + 2]
      OBVIOUS
    <3>2. i \in 3..Len(s) /\ i - 1 >= 2 /\ (i - 1) - 1 = i - 2 /\ (i - 1) - 2 = i - 3
      BY <1>0, <3>1
    <3>3. Filled(w, s, i - 1, x.dev)
      BY <2>6, <3>1, <3>2 DEF Answered
    <3>4. QED
      BY <3>2, <3>3 DEF Filled, Message
  <2>9. Wholly(w, y)
    <3>1. CASE y.dev.mem = x.dev.mem
      BY <1>1, <3>1 DEF Wholly
    <3>2. CASE x.dev.mode = "write" /\ y.dev.mem = [x.dev.mem EXCEPT ![x.dev.reg] = s[i]]
      <4>1. i # 1 /\ i # 2
        <5>1. i # 1
          BY <2>5, <3>2
        <5>2. i # 2
          <6>1. SUFFICES ASSUME i = 2 PROVE FALSE
            OBVIOUS
          <6>2. x.dev.mode = "pointer"
            BY <2>6, <6>1 DEF Answered
          <6>3. QED
            BY <3>2, <6>2
        <5>3. QED
          BY <5>1, <5>2
      <4>2. s[i] \in Bytes /\ x.dev.mem \in [0..(Registers - 1) -> Byte]
        BY <1>1, <2>8, <4>1 DEF Wire, Device
      <4>3. QED
        BY <1>1, <3>2, <4>2 DEF Wholly
    <3>3. Live(y) => \/ y.dev.mem = x.dev.mem
                     \/ x.dev.mode = "write" /\ y.dev.mem = [x.dev.mem EXCEPT ![x.dev.reg] = s[i]]
      BY <2>2, <2>3 DEF WroteByte, AfterByte, Listening, Receives, SameStore
    <3>4. QED
      BY <2>3, <3>1, <3>2, <3>3 DEF WroteByte
  <2>10. ASSUME Live(y) PROVE y.scl /\ Answered(w, s, i, y.dev)
    <3>1. y.scl /\ y.dev.slot = "data" /\ y.dev.bits = 0 /\ AfterByte(x.dev, s[i], y.dev)
      BY <2>3, <2>10 DEF WroteByte
    <3>2. CASE i = 1
      <4>1. ~(i >= 2) /\ x = w /\ w.dev.mode = "address"
        BY <2>5, <3>2
      <4>2. QED
        BY <3>1, <3>2, <4>1 DEF AfterByte, Answered, SameStore
    <3>3. CASE i = 2
      <4>1. x.dev.mode = "pointer" /\ x.dev.mem = w.dev.mem /\ s[1] \div 2 = Address /\ s[1] % 2 # 1
            /\ s[2] \in 0..(Registers - 1)
        BY <2>6, <3>3 DEF Answered
      <4>2. y.dev.mode = "write" /\ y.dev.value = 0 /\ y.dev.mem = x.dev.mem
            /\ y.dev.reg = s[2] % Registers
        BY <3>1, <3>3, <4>1 DEF AfterByte
      <4>3. s[2] % Registers = s[2] /\ At(s[2], 1) = s[2] /\ i - 1 = 1 /\ 1..(i - 2) = {}
        <5>1. s[2] % Registers = s[2]
          <6>1. Registers \in Nat /\ Registers > 0 /\ 0 \in 0..(Registers - 1)
            BY Sizes
          <6>2. s[2] + 0 = s[2] /\ s[2] \in Nat
            BY <4>1, <6>1
          <6>3. At(s[2], 1) = s[2] % Registers
            BY <6>2 DEF At
          <6>4. QED
            BY <4>1, <6>3, AtFacts
        <5>2. At(s[2], 1) = s[2]
          BY <4>1, AtFacts
        <5>3. QED
          BY <3>3, <5>1, <5>2
      <4>4. Filled(w, s, i, y.dev)
        BY <4>1, <4>2, <4>3 DEF Filled
      <4>5. QED
        BY <3>1, <3>3, <4>1, <4>4 DEF Answered
    <3>4. CASE i # 1 /\ i # 2
      <4>1. /\ x.dev.mode = "write" /\ s[i] \in Bytes /\ x.dev.reg = At(s[2], i - 2)
            /\ \A j \in 1..(i - 3) : i - 3 < j + Registers => x.dev.mem[At(s[2], j)] = s[j + 2]
            /\ i - 2 \in Nat /\ i - 2 > 0 /\ (i - 2) + 1 = i - 1
            /\ s[1] \div 2 = Address /\ s[1] % 2 # 1 /\ s[2] \in 0..(Registers - 1)
        BY <1>0, <2>6, <2>8, <3>4 DEF Answered
      <4>2. y.dev.mode = "write" /\ y.dev.value = 0 /\ y.dev.reg = Following(x.dev.reg)
            /\ y.dev.mem = [x.dev.mem EXCEPT ![x.dev.reg] = s[i]]
        BY <3>1, <4>1 DEF AfterByte
      <4>3. Following(x.dev.reg) = At(s[2], i - 1)
        BY <4>1, AtFacts
      <4>4. x.dev.mem \in [0..(Registers - 1) -> Byte] /\ x.dev.reg \in 0..(Registers - 1)
        BY <1>1 DEF Wire, Device
      <4>5. ASSUME NEW j \in 1..(i - 2), i - 2 < j + Registers
            PROVE  y.dev.mem[At(s[2], j)] = s[j + 2]
        <5>1. CASE j = i - 2
          <6>1. At(s[2], j) = x.dev.reg /\ j + 2 = i
            BY <1>0, <4>1, <5>1
          <6>2. QED
            BY <4>2, <4>4, <6>1
        <5>2. CASE j # i - 2
          <6>1. j \in 1..(i - 3) /\ i - 3 < j + Registers /\ j \in Nat /\ j > 0 /\ j < i - 2
            <7>1. i \in Nat /\ Registers \in Nat /\ i - 2 < j + Registers
              BY <1>0, <4>5, Sizes
            <7>2. QED
              BY ONLY <7>1, j \in 1..(i - 2), <5>2
          <6>2. At(s[2], j) \in 0..(Registers - 1) /\ At(s[2], j) # At(s[2], i - 2)
            BY <4>1, <4>5, <6>1, AtFacts
          <6>3. x.dev.mem[At(s[2], j)] = s[j + 2]
            BY <4>1, <6>1
          <6>4. QED
            BY <4>1, <4>2, <4>4, <6>2, <6>3
        <5>3. QED
          BY <5>1, <5>2
      <4>6. Filled(w, s, i, y.dev)
        BY <3>4, <4>2, <4>3, <4>5 DEF Filled
      <4>7. QED
        BY <3>1, <3>4, <4>1, <4>6 DEF Answered
    <3>5. QED
      BY <3>2, <3>3, <3>4
  <2>11. QED
    BY <2>1, <2>4, <2>7, <2>9, <2>10 DEF Told
<1>4. QED
  BY <1>2, <1>3

LEMMA AllBytes ==
  ASSUME NEW w, Sound(w), Live(w) => Addressed(w), NEW s, Message(s)
  PROVE  WriteBytes(w, s) \in Told(w, s, Len(s))
<1> DEFINE n == Len(s)
           Round(x, i) == Then(x, LAMBDA y : WriteByte(y, s[i]))
           R == [p \in Wire \X (1..n) |-> Round(p[1], p[2])]
           Inv == [i \in 0..n |-> Told(w, s, i)]
<1>1. n \in Nat /\ 0 < n
  BY DEF Message
<1>2. w \in Told(w, s, 0)
  <2>1. w \in Wire /\ ~(0 > 0)
    BY DEF Sound
  <2>2. QED
    BY <2>1 DEF Told, Wholly
<1>3. \A i \in 1..n : \A x \in Told(w, s, i - 1) : Round(x, i) \in Told(w, s, i)
  BY OneByte
<1> HIDE DEF n
<1>4. \A x \in Wire, i \in 1..n : R[<<x, i>>] = Round(x, i)
  <2> HIDE DEF Round
  <2>1. QED
    OBVIOUS
<1>5. \A i \in 0..n : Told(w, s, i) \subseteq Wire /\ Inv[i] = Told(w, s, i)
  BY DEF Told
<1> HIDE DEF Inv, R, Round
<1>6. PICK g : Runs(g, n, w, R) /\ \A i \in 0..n : g[i] \in Inv[i]
  <2>1. \A i \in 1..n : i \in 0..n /\ i - 1 \in 0..n
    BY <1>1
  <2>2. Along(n, Inv, w, R)
    <3>1. w \in Inv[0]
      BY <1>1, <1>2, <1>5
    <3>2. ASSUME NEW i \in 1..n, NEW x \in Inv[i - 1] PROVE R[<<x, i>>] \in Inv[i]
      <4>1. x \in Told(w, s, i - 1) /\ x \in Wire
        BY <2>1, <1>5
      <4>2. Round(x, i) \in Inv[i]
        BY <4>1, <2>1, <1>3, <1>5
      <4>3. QED
        BY <4>1, <4>2, <1>4
    <3>3. QED
      BY <3>1, <3>2 DEF Along
  <2>3. \A i \in 0..n : Inv[i] \subseteq Wire
    BY <1>5
  <2>4. QED
    BY <1>1, <2>2, <2>3, LoopHistory
<1>7. g = [i \in 0..n |-> IF i = 0 THEN w ELSE Round(g[i - 1], i)]
  <2>1. ASSUME NEW i \in 0..n PROVE g[i] = IF i = 0 THEN w ELSE Round(g[i - 1], i)
    <3>1. g[i] = IF i = 0 THEN w ELSE R[<<g[i - 1], i>>]
      BY <1>6 DEF Runs
    <3>2. CASE i # 0
      <4>1. i \in 1..n /\ i - 1 \in 0..n
        BY <3>2, <1>1
      <4>2. g[i - 1] \in Wire
        BY <4>1, <1>5, <1>6
      <4>3. QED
        BY <3>1, <3>2, <4>1, <4>2, <1>4
    <3>3. QED
      BY <3>1, <3>2
  <2>2. QED
    BY <1>6, <2>1 DEF Runs
<1>8. \E h : h = [i \in 0..n |-> IF i = 0 THEN w ELSE Round(h[i - 1], i)] /\ WriteBytes(w, s) = h[n]
  BY <1>7, Zenon DEF WriteBytes, Rounds, n, Round
<1>9. PICK h : h = [i \in 0..n |-> IF i = 0 THEN w ELSE Round(h[i - 1], i)] /\ WriteBytes(w, s) = h[n]
  BY <1>8
<1>10. \A i \in 0..n : i \in {j \in 0..n : h[j] \in Told(w, s, j)}
  <2> DEFINE S == {j \in 0..n : h[j] \in Told(w, s, j)}
  <2>1. 0 \in S
    BY <1>1, <1>2, <1>9
  <2>2. ASSUME NEW i \in 1..n, i - 1 \in S PROVE i \in S
    <3>1. i \in 0..n /\ i # 0 /\ h[i - 1] \in Told(w, s, i - 1)
      BY <1>1, <2>2
    <3>2. h[i] = Round(h[i - 1], i)
      BY <3>1, <1>9
    <3>3. QED
      BY <3>1, <3>2, <1>3
  <2> HIDE DEF S
  <2>3. \A i \in 0..n : i \in S
    BY <1>1, <2>1, <2>2, Upto
  <2>4. QED
    BY <2>3 DEF S
<1>11. QED
  <2>1. n \in 0..n
    BY <1>1
  <2>2. QED
    BY <1>9, <1>10, <2>1 DEF n

-----------------------------------------------------------------------------
(* Bytes read. *)

LEMMA LastOne ==
  ASSUME NEW s \in Seq(Nat), NEW a \in Nat, NEW b \in Nat
  PROVE  /\ Append(s, a) \in Seq(Nat) /\ Append(s, a)[Len(Append(s, a))] = a
         /\ [Append(s, a) EXCEPT ![Len(Append(s, a))] = b] = Append(s, b)
<1>1. Len(Append(s, a)) = Len(s) + 1 /\ Append(s, a) \in Seq(Nat) /\ Append(s, a)[Len(s) + 1] = a
      /\ Append(s, b) \in Seq(Nat) /\ Len(Append(s, b)) = Len(s) + 1 /\ Append(s, b)[Len(s) + 1] = b
      /\ \A i \in 1..Len(s) : Append(s, a)[i] = s[i] /\ Append(s, b)[i] = s[i]
  OBVIOUS
<1> DEFINE p == Append(s, a)
           q == Append(s, b)
           n == Len(s) + 1
<1>2. p \in [1..n -> Nat] /\ q \in [1..n -> Nat] /\ n \in Nat
  <2>1. \A t \in Seq(Nat) : t \in [1..Len(t) -> Nat]
    OBVIOUS
  <2>2. p \in Seq(Nat) /\ Len(p) = n /\ q \in Seq(Nat) /\ Len(q) = n /\ n \in Nat
    BY <1>1
  <2> HIDE DEF p, q, n
  <2>3. QED
    BY <2>1, <2>2
<1>3. \A i \in 1..n : i \in 1..Len(s) \/ i = n
  OBVIOUS
<1> HIDE DEF p, q, n
<1>4. [p EXCEPT ![n] = b] = q
  <2>1. \A i \in 1..n : (IF i = n THEN b ELSE p[i]) = q[i]
    BY <1>1, <1>3 DEF p, q, n
  <2>2. [p EXCEPT ![n] = b] = [i \in 1..n |-> IF i = n THEN b ELSE p[i]]
    BY <1>2
  <2>3. QED
    BY <1>2, <2>1, <2>2
<1>5. QED
  BY <1>1, <1>4 DEF p, q, n

\* The device sends a byte, and SCL is low.
Talking(w) ==
    /\ Sound(w) /\ Live(w) /\ w.scl /\ w.fault.kind # "sda"
    /\ w.dev.mode = "read" /\ w.dev.slot = "data" /\ w.dev.bits = 0
    /\ w.dev.low <=> BitOf(w.dev.value, 1) = 0

Heard(w, i) ==
    {x \in Wire : /\ Sound(x) /\ x.fault = w.fault /\ SameStore(w.dev, x.dev)
                  /\ w.fault.kind = "none" => Live(x)
                  /\ Live(x) => /\ x.scl /\ ~x.sda /\ x.got = Append(w.got, Prefix(w.dev.value, i))
                                /\ x.dev.mode = "read" /\ x.dev.value = w.dev.value
                  /\ Live(x) /\ i < Bits =>
                        /\ x.dev.slot = "data" /\ x.dev.bits = i
                        /\ x.dev.low <=> BitOf(w.dev.value, i + 1) = 0
                  /\ Live(x) /\ i = Bits => x.dev.slot = "ack"}

LEMMA OneBitHeard ==
  ASSUME NEW w, Talking(w), NEW i \in 1..Bits, NEW x \in Heard(w, i - 1), NEW y, y = Then(x, ReadBit)
  PROVE  y \in Heard(w, i)
<1>1. /\ x \in Wire /\ Sound(x) /\ x.fault = w.fault /\ SameStore(w.dev, x.dev)
      /\ w.fault.kind = "none" => Live(x)
      /\ Live(x) => /\ x.scl /\ ~x.sda /\ x.got = Append(w.got, Prefix(w.dev.value, i - 1))
                    /\ x.dev.mode = "read" /\ x.dev.value = w.dev.value
  BY DEF Heard
<1>2. CASE ~Live(x)
  <2>1. y = x
    BY <1>1, <1>2, WireFacts DEF Then
  <2>2. QED
    BY <1>1, <1>2, <2>1 DEF Heard
<1>3. CASE Live(x)
  <2> DEFINE value == w.dev.value
             bit == BitOf(value, i)
             r == RaiseScl(x)
             a == [r EXCEPT !.got = [r.got EXCEPT ![Len(r.got)] = 2 * @ + Sda(r)]]
             l == LowerScl(a)
  <2>0. r = RaiseScl(x) /\ l = LowerScl(a)
    OBVIOUS
  <2>1. y = IF Ok(r) /\ ~r.cut THEN l ELSE r
    BY <1>1, <1>3, WireFacts DEF Then, ReadBit
  <2>2. /\ i - 1 < Bits /\ Bits \in Nat /\ i \in Nat /\ (i < Bits \/ i = Bits) /\ (i - 1) + 1 = i
        /\ ~(i < Bits /\ i = Bits)
    BY Sizes
  <2>3. value \in Byte /\ w.got \in Seq(Nat) /\ x.dev \in Device
    BY <1>1 DEF Talking, Sound, Wire, Device
  <2>4. bit \in {0, 1} /\ Prefix(value, i) = 2 * Prefix(value, i - 1) + bit
        /\ Prefix(value, i - 1) \in Nat /\ Prefix(value, i) \in Nat
    <3>1. bit \in {0, 1} /\ Prefix(value, i) = 2 * Prefix(value, i - 1) + bit
          /\ Prefix(value, i - 1) \in Nat
      BY <2>3, Prefixes
    <3>2. QED
      BY <3>1
  <2>5. x.scl /\ ~High(x) /\ ~x.sda /\ x.fault.kind # "sda" /\ Phase(x.dev, FALSE)
        /\ x.dev.slot = "data" /\ x.dev.bits = i - 1 /\ (x.dev.low <=> bit = 0)
        /\ x.dev.mode = "read" /\ x.dev.value = value
    <3>1. /\ x.dev.slot = "data" /\ x.dev.bits = i - 1
          /\ x.dev.low <=> BitOf(value, (i - 1) + 1) = 0
      BY <1>3, <2>2 DEF Heard
    <3>2. QED
      BY <1>1, <1>3, <2>2, <3>1 DEF Talking, Sound, High
  <2> HIDE DEF bit, value, r
  <2>6. /\ Sound(r) /\ Same(x, r) /\ SameStore(x.dev, r.dev) /\ (r.sda <=> x.sda)
        /\ Live(r) => High(r) /\ r.dev = ClockRises(x.dev, Sda(x))
        /\ x.fault.kind = "none" => Live(r)
    BY <1>1, <1>3, <2>0, <2>5, RaiseSclFacts
  <2>7. r \in Wire /\ r.fault = w.fault /\ SameStore(w.dev, r.dev) /\ (Ok(r) /\ ~r.cut <=> Live(r))
        /\ r.got = Append(w.got, Prefix(value, i - 1)) /\ ~r.sda
    BY <1>1, <1>3, <2>5, <2>6, WireFacts DEF Same, SameStore, Sound, value
  <2>8. CASE ~Live(r)
    BY <1>1, <2>1, <2>6, <2>7, <2>8 DEF Heard
  <2>9. CASE Live(r)
    <3>1. /\ r.dev.mode = "read" /\ r.dev.slot = "data" /\ r.dev.bits = i /\ r.dev.value = value
          /\ (r.dev.low <=> bit = 0) /\ r.dev \in Device
      <4>1. Sda(x) \in {0, 1} /\ r.dev \in Device
        BY <1>1, <2>7, WireFacts
      <4>2. /\ r.dev.mode = "read" /\ r.dev.slot = "data" /\ r.dev.bits = x.dev.bits + 1
            /\ r.dev.value = x.dev.value /\ (r.dev.low <=> x.dev.low)
        BY <2>3, <2>5, <2>6, <2>9, <4>1, RisingFields
      <4>3. QED
        BY <2>2, <2>5, <4>1, <4>2
    <3>2. Sda(r) = bit
      BY <2>4, <2>5, <2>7, <1>1, <3>1, WireFacts
    <3> DEFINE g == Append(w.got, Prefix(value, i))
    <3>3. a = [r EXCEPT !.got = g] /\ g \in Seq(Nat)
      <4>1. /\ r.got[Len(r.got)] = Prefix(value, i - 1) /\ g \in Seq(Nat)
            /\ [r.got EXCEPT ![Len(r.got)] = Prefix(value, i)] = g
        <5> DEFINE s == w.got
                   lo == Prefix(value, i - 1)
                   hi == Prefix(value, i)
        <5>1. s \in Seq(Nat) /\ lo \in Nat /\ hi \in Nat
          BY <2>3, <2>4
        <5> HIDE DEF s, lo, hi
        <5>2. /\ Append(s, hi) \in Seq(Nat) /\ Append(s, lo)[Len(Append(s, lo))] = lo
              /\ [Append(s, lo) EXCEPT ![Len(Append(s, lo))] = hi] = Append(s, hi)
          <6>1. Append(s, hi) \in Seq(Nat)
            BY <5>1
          <6>2. QED
            BY <5>1, <6>1, LastOne
        <5>3. r.got = Append(s, lo) /\ g = Append(s, hi)
          BY <2>7 DEF s, lo, hi
        <5>4. QED
          BY <5>2, <5>3 DEF lo, hi
      <4>2. r.got \in Seq(Nat) /\ Len(r.got) \in DOMAIN r.got
        <5>1. Len(w.got) \in Nat /\ Len(r.got) = Len(w.got) + 1 /\ r.got \in Seq(Nat)
          BY <2>3, <2>4, <2>7
        <5>2. QED
          BY <5>1
      <4>3. [r.got EXCEPT ![Len(r.got)] = 2 * @ + Sda(r)]
              = [r.got EXCEPT ![Len(r.got)] = 2 * r.got[Len(r.got)] + Sda(r)]
        BY <4>2
      <4>4. 2 * r.got[Len(r.got)] + Sda(r) = Prefix(value, i)
        BY <2>4, <3>2, <4>1
      <4>5. QED
        BY <4>1, <4>3, <4>4
    <3> HIDE DEF g, a
    <3>4. /\ a \in Wire /\ a.dev = r.dev /\ a.fault = r.fault /\ a.got = g /\ SameLines(r, a) /\ SameEnd(r, a)
      BY <2>7, <3>3 DEF Wire, SameLines, SameEnd
    <3>5. Sound(a) /\ High(a) /\ Live(a) /\ ~a.cut
      BY <2>6, <2>9, <3>4 DEF Sound, High, SameLines, SameEnd, Live, Phase
    <3> HIDE DEF l
    <3>6. /\ Sound(l) /\ Same(a, l) /\ SameEnd(a, l) /\ (l.sda <=> a.sda) /\ l.scl
          /\ l.dev = ClockFalls(r.dev)
      BY <2>0, <3>4, <3>5, LowerSclFacts
    <3>7. y = l /\ Live(l) /\ l.fault = w.fault /\ ~l.sda /\ l \in Wire
          /\ l.got = Append(w.got, Prefix(w.dev.value, i))
      BY <2>1, <2>7, <2>9, <3>4, <3>5, <3>6 DEF Same, SameEnd, SameLines, Live, Sound, g, value
    <3>8. /\ l.dev.mode = "read" /\ l.dev.value = value /\ SameStore(r.dev, l.dev)
          /\ i < Bits => l.dev.slot = "data" /\ l.dev.bits = i /\ (l.dev.low <=> BitOf(value, i + 1) = 0)
          /\ i = Bits => l.dev.slot = "ack"
      <4>1. CASE i = Bits
        <5>1. l.dev = [r.dev EXCEPT !.slot = "ack", !.low = FALSE]
          BY <3>1, <3>6, <4>1 DEF ClockFalls
        <5>2. QED
          BY <2>2, <3>1, <4>1, <5>1 DEF Device, SameStore
      <4>2. CASE i < Bits
        <5> DEFINE b == BitOf(value, i + 1) = 0
        <5>1. l.dev = [r.dev EXCEPT !.low = b] /\ b \in BOOLEAN
          <6>1. r.dev.bits # Bits
            BY <2>2, <3>1, <4>2
          <6>2. QED
            BY <3>1, <3>6, <6>1 DEF ClockFalls
        <5> HIDE DEF b
        <5>2. /\ l.dev.mode = "read" /\ l.dev.value = value /\ SameStore(r.dev, l.dev)
              /\ l.dev.slot = "data" /\ l.dev.bits = i /\ (l.dev.low <=> b)
          BY <3>1, <5>1 DEF Device, SameStore
        <5>3. QED
          BY <2>2, <4>2, <5>2 DEF b
      <4>3. QED
        BY <2>2, <4>1, <4>2
    <3>9. SameStore(w.dev, l.dev)
      BY <2>7, <3>8 DEF SameStore
    <3>10. QED
      BY <3>6, <3>7, <3>8, <3>9 DEF Heard, value
  <2>10. QED
    BY <2>8, <2>9
<1>4. QED
  BY <1>2, <1>3

ReadBits(w) == Rounds(Bits, [ReleaseSda(w) EXCEPT !.got = Append(@, 0)], LAMBDA x, i : Then(x, ReadBit))

LEMMA AllBitsHeard ==
  ASSUME NEW w, Talking(w)
  PROVE  ReadBits(w) \in Heard(w, Bits)
<1> DEFINE first == [SetSda(w, FALSE) EXCEPT !.got = Append(@, 0)]
           Round(x, i) == Then(x, ReadBit)
           R == [p \in Wire \X (1..Bits) |-> Round(p[1], p[2])]
           Inv == [i \in 0..Bits |-> Heard(w, i)]
<1>1. Bits \in Nat /\ 0 < Bits
  BY Sizes
<1>2. first \in Heard(w, 0)
  <2> DEFINE s == SetSda(w, FALSE)
             g == Append(s.got, 0)
  <2>1. w \in Wire /\ ~High(w) /\ ~w.cut /\ w.dev.value \in Byte /\ FALSE \in BOOLEAN /\ Sound(w)
        /\ s = SetSda(w, FALSE)
    BY DEF Talking, Sound, High, Live, Wire, Device
  <2>0. first = [s EXCEPT !.got = g]
    OBVIOUS
  <2> HIDE DEF s, first
  <2>2. /\ Sound(s) /\ Same(w, s) /\ SameEnd(w, s) /\ s.dev = w.dev /\ ~s.sda /\ (s.scl <=> w.scl)
        /\ (s.held <=> w.held)
    BY <2>1, SetSdaFacts
  <2>3. first = [s EXCEPT !.got = g] /\ g \in Seq(Nat) /\ s \in Wire /\ g = Append(w.got, 0)
    <3>1. s \in Wire /\ s.got = w.got
      BY <2>2 DEF Sound, Same
    <3>2. s.got \in Seq(Nat)
      BY <3>1 DEF Wire
    <3>3. QED
      BY <2>0, <3>1, <3>2
  <2> HIDE DEF g
  <2>4. first \in Wire /\ first.dev = s.dev /\ first.fault = s.fault /\ first.got = g
        /\ SameLines(s, first) /\ SameEnd(s, first)
    BY <2>3 DEF Wire, SameLines, SameEnd
  <2>5. Sound(first) /\ Live(first) /\ first.scl /\ ~first.sda
    BY <2>2, <2>4 DEF Sound, Live, High, SameLines, SameEnd, Talking
  <2>6. Prefix(w.dev.value, 0) = 0 /\ 0 # Bits /\ 0 + 1 = 1
    BY <2>1, Prefixes, Sizes
  <2>7. QED
    BY <2>2, <2>3, <2>4, <2>5, <2>6 DEF Heard, Same, SameStore, Talking
<1> HIDE DEF first
<1>3. \A i \in 1..Bits : \A x \in Heard(w, i - 1) : Round(x, i) \in Heard(w, i)
  BY OneBitHeard
<1>4. \A x \in Wire, i \in 1..Bits : R[<<x, i>>] = Round(x, i)
  <2> HIDE DEF Round
  <2>1. QED
    OBVIOUS
<1>5. \A i \in 0..Bits : Heard(w, i) \subseteq Wire /\ Inv[i] = Heard(w, i)
  BY DEF Heard
<1> HIDE DEF Inv, R, Round
<1>6. PICK g : Runs(g, Bits, first, R) /\ \A i \in 0..Bits : g[i] \in Inv[i]
  <2>1. \A i \in 1..Bits : i \in 0..Bits /\ i - 1 \in 0..Bits
    BY <1>1
  <2>2. Along(Bits, Inv, first, R)
    <3>1. first \in Inv[0]
      BY <1>1, <1>2, <1>5
    <3>2. ASSUME NEW i \in 1..Bits, NEW x \in Inv[i - 1] PROVE R[<<x, i>>] \in Inv[i]
      <4>1. x \in Heard(w, i - 1) /\ x \in Wire
        BY <2>1, <1>5
      <4>2. Round(x, i) \in Inv[i]
        BY <4>1, <2>1, <1>3, <1>5
      <4>3. QED
        BY <4>1, <4>2, <1>4
    <3>3. QED
      BY <3>1, <3>2 DEF Along
  <2>3. \A i \in 0..Bits : Inv[i] \subseteq Wire
    BY <1>5
  <2>4. QED
    BY <1>1, <2>2, <2>3, LoopHistory
<1>7. g = [i \in 0..Bits |-> IF i = 0 THEN first ELSE Round(g[i - 1], i)]
  <2>1. ASSUME NEW i \in 0..Bits PROVE g[i] = IF i = 0 THEN first ELSE Round(g[i - 1], i)
    <3>1. g[i] = IF i = 0 THEN first ELSE R[<<g[i - 1], i>>]
      BY <1>6 DEF Runs
    <3>2. CASE i # 0
      <4>1. i \in 1..Bits /\ i - 1 \in 0..Bits
        BY <3>2, <1>1
      <4>2. g[i - 1] \in Wire
        BY <4>1, <1>5, <1>6
      <4>3. QED
        BY <3>1, <3>2, <4>1, <4>2, <1>4
    <3>3. QED
      BY <3>1, <3>2
  <2>2. QED
    BY <1>6, <2>1 DEF Runs
<1>8. \E h : h = [i \in 0..Bits |-> IF i = 0 THEN first ELSE Round(h[i - 1], i)] /\ ReadBits(w) = h[Bits]
  BY <1>7, Zenon DEF ReadBits, ReleaseSda, Rounds, Round, first
<1>9. PICK h : h = [i \in 0..Bits |-> IF i = 0 THEN first ELSE Round(h[i - 1], i)] /\ ReadBits(w) = h[Bits]
  BY <1>8
<1>10. \A i \in 0..Bits : i \in {j \in 0..Bits : h[j] \in Heard(w, j)}
  <2> DEFINE S == {j \in 0..Bits : h[j] \in Heard(w, j)}
  <2>1. 0 \in S
    BY <1>1, <1>2, <1>9
  <2>2. ASSUME NEW i \in 1..Bits, i - 1 \in S PROVE i \in S
    <3>1. i \in 0..Bits /\ i # 0 /\ h[i - 1] \in Heard(w, i - 1)
      BY <1>1, <2>2
    <3>2. h[i] = Round(h[i - 1], i)
      BY <3>1, <1>9
    <3>3. QED
      BY <3>1, <3>2, <1>3
  <2> HIDE DEF S
  <2>3. \A i \in 0..Bits : i \in S
    BY <1>1, <2>1, <2>2, Upto
  <2>4. QED
    BY <2>3 DEF S
<1>11. QED
  <2>1. Bits \in 0..Bits
    BY <1>1
  <2>2. QED
    BY <1>9, <1>10, <2>1
\* The byte read, and what the device does next.
ReadOne(w, ack, v) ==
    /\ Sound(v) /\ v.fault = w.fault /\ v.dev.mem = w.dev.mem
    /\ w.fault.kind = "none" => Live(v)
    /\ Live(v) => v.scl /\ ~v.sda /\ v.got = Append(w.got, w.dev.value)
    /\ Live(v) /\ ack =>
          /\ v.dev.mode = "read" /\ v.dev.slot = "data" /\ v.dev.bits = 0
          /\ v.dev.value = w.dev.mem[w.dev.reg] /\ v.dev.reg = Following(w.dev.reg)
          /\ v.dev.low <=> BitOf(w.dev.mem[w.dev.reg], 1) = 0
    /\ Live(v) /\ ~ack => v.dev.mode = "idle"

LEMMA ReadByteFacts ==
  ASSUME NEW w, Talking(w), NEW ack \in BOOLEAN, NEW v, v = ReadByte(w, ack)
  PROVE  ReadOne(w, ack, v)
<1> DEFINE x == ReadBits(w)
           s == SetSda(x, ack)
           r == RaiseScl(s)
           l == LowerScl(r)
           u == SetSda(l, FALSE)
           t == SetSda(r, FALSE)
<1>0. /\ x = ReadBits(w) /\ s = SetSda(x, ack) /\ r = RaiseScl(s) /\ l = LowerScl(r)
      /\ u = SetSda(l, FALSE) /\ t = SetSda(r, FALSE) /\ FALSE \in BOOLEAN
  OBVIOUS
<1>1. v = IF Ok(x) /\ ~x.cut THEN IF Ok(r) THEN u ELSE t ELSE x
  BY Zenon DEF ReadByte, ReadBits, Then, ReleaseSda
<1> HIDE DEF x, s, r, l, u, t
<1>2. /\ x \in Wire /\ Sound(x) /\ x.fault = w.fault /\ SameStore(w.dev, x.dev)
      /\ w.fault.kind = "none" => Live(x)
      /\ Live(x) => /\ x.scl /\ ~x.sda /\ x.got = Append(w.got, w.dev.value)
                    /\ x.dev.mode = "read" /\ x.dev.slot = "ack"
  <2>1. w.dev.value \in Byte
    BY DEF Talking, Sound, Wire, Device
  <2>2. Prefix(w.dev.value, Bits) = w.dev.value
    BY <2>1, Prefixes
  <2>3. x \in Heard(w, Bits)
    BY <1>0, AllBitsHeard
  <2>4. QED
    BY <2>2, <2>3 DEF Heard
<1>3. CASE ~Live(x)
  <2>1. v = x
    BY <1>1, <1>2, <1>3, WireFacts
  <2>2. QED
    BY <1>2, <1>3, <2>1 DEF ReadOne, SameStore
<1>4. CASE Live(x)
  <2>1. ~High(x) /\ ~x.cut /\ Ok(x) /\ x.dev \in Device /\ w.fault.kind # "sda" /\ ~x.dev.low
        /\ w \in Wire /\ Phase(x.dev, FALSE)
    BY <1>2, <1>4, WireFacts DEF High, Live, Ok, Talking, Sound, Phase
  <2>2. Sound(s) /\ Same(x, s) /\ SameEnd(x, s) /\ s.dev = x.dev /\ (s.sda <=> ack) /\ (s.scl <=> x.scl)
    BY <1>0, <1>2, <2>1, SetSdaFacts
  <2>3. ~High(s) /\ Live(s) /\ s \in Wire /\ s.fault = w.fault /\ s.got = x.got
        /\ Sda(s) = IF ack THEN 0 ELSE 1
    <3>1. ~High(s) /\ Live(s) /\ s \in Wire /\ s.fault = w.fault /\ s.got = x.got
      BY <1>2, <1>4, <2>2 DEF High, Live, SameEnd, Same, Sound
    <3>2. QED
      BY <2>1, <2>2, <3>1, WireFacts
  <2>4. /\ Sound(r) /\ Same(s, r) /\ SameStore(s.dev, r.dev)
        /\ Live(r) => High(r) /\ r.dev = ClockRises(s.dev, Sda(s))
        /\ s.fault.kind = "none" => Live(r)
    BY <1>0, <2>2, <2>3, RaiseSclFacts
  <2>5. /\ Sound(l) /\ Same(r, l) /\ SameEnd(r, l)
        /\ ~r.cut => l.scl
        /\ l.dev = IF ~r.cut /\ High(r) THEN ClockFalls(r.dev) ELSE r.dev
    <3>1. Sound(r) /\ l = LowerScl(r)
      BY <1>0, <2>4
    <3>2. QED
      BY <3>1, LowerSclFacts
  <2>6. /\ Sound(u) /\ Same(l, u) /\ SameEnd(l, u) /\ SameStore(l.dev, u.dev)
        /\ (u.scl <=> l.scl) /\ (~l.cut => ~u.sda)
        /\ l.cut \/ ~High(l) => u.dev = l.dev
    <3>1. Sound(l) /\ u = SetSda(l, FALSE) /\ FALSE \in BOOLEAN
      BY <1>0, <2>5
    <3>2. QED
      BY <3>1, SetSdaFacts
  <2>7. Sound(t) /\ Same(r, t) /\ SameEnd(r, t) /\ SameStore(r.dev, t.dev)
    <3>1. Sound(r) /\ t = SetSda(r, FALSE) /\ FALSE \in BOOLEAN
      BY <1>0, <2>4
    <3>2. QED
      BY <3>1, SetSdaFacts
  <2>8. /\ r.fault = w.fault /\ l.fault = w.fault /\ u.fault = w.fault /\ t.fault = w.fault
        /\ r \in Wire /\ r.got = x.got /\ u.got = x.got
        /\ r.dev.mem = w.dev.mem /\ r.dev.reg = w.dev.reg
    BY <1>2, <2>2, <2>3, <2>4, <2>5, <2>6, <2>7 DEF Same, Sound, SameStore
  <2>9. CASE ~Live(r)
    <3>1. (v = u /\ r.cut) \/ (v = t /\ r.status # "OK")
      BY <1>1, <2>1, <2>9 DEF Ok, Live
    <3>2. ~Live(v) /\ v.dev.mem = w.dev.mem
      BY <2>5, <2>6, <2>7, <2>8, <3>1 DEF SameEnd, Live, SameStore
    <3>3. QED
      BY <2>3, <2>4, <2>6, <2>7, <2>8, <2>9, <3>1, <3>2 DEF ReadOne
  <2>10. CASE Live(r)
    <3>1. Ok(r) /\ ~r.cut /\ High(r) /\ r.dev = ClockRises(x.dev, IF ack THEN 0 ELSE 1)
      BY <2>2, <2>3, <2>4, <2>8, <2>10, WireFacts
    <3>2. v = u /\ l.dev = ClockFalls(r.dev) /\ l.scl /\ Live(l)
      BY <1>1, <2>1, <2>5, <2>10, <3>1 DEF SameEnd, Live
    <3>3. u.dev = l.dev /\ u.scl /\ ~u.sda /\ Live(u)
      BY <2>6, <3>2 DEF High, SameEnd, Live
    <3>4. r.dev = IF ack THEN x.dev ELSE Quiet(x.dev)
      <4>1. (IF ack THEN 0 ELSE 1) \in {0, 1}
        OBVIOUS
      <4>2. QED
        BY <1>2, <1>4, <2>1, <3>1, <4>1, RisingFields
    <3>5. CASE ack
      <4> DEFINE e == Acknowledged(x.dev)
      <4>1. l.dev = e
        BY <1>2, <1>4, <3>2, <3>4, <3>5 DEF ClockFalls
      <4>2. x.dev.mode # "idle" /\ TRUE \in BOOLEAN /\ x.dev.mode = "read"
        BY <1>2, <1>4
      <4>3. /\ e.mem = x.dev.mem /\ e.slot = "data" /\ e.bits = 0
            /\ e.mode = "read" /\ e.value = x.dev.mem[x.dev.reg] /\ e.reg = Following(x.dev.reg)
            /\ (e.low <=> BitOf(x.dev.mem[x.dev.reg], 1) = 0)
        BY <2>1, <4>2, AcknowledgedDevice
      <4> HIDE DEF e
      <4>4. x.dev.mem = w.dev.mem /\ x.dev.reg = w.dev.reg
        BY <1>2 DEF SameStore
      <4>5. QED
        BY <1>2, <1>4, <2>6, <2>8, <3>2, <3>3, <3>5, <4>1, <4>3, <4>4 DEF ReadOne
    <3>6. CASE ~ack
      <4>1. r.dev = Quiet(x.dev) /\ r.dev.mode = "idle"
        BY <2>1, <3>4, <3>6, QuietDevice
      <4>2. l.dev = r.dev
        BY <3>2, <4>1 DEF ClockFalls
      <4>3. QED
        BY <1>2, <1>4, <2>6, <2>8, <3>2, <3>3, <3>6, <4>1, <4>2 DEF ReadOne
    <3>7. QED
      BY <3>5, <3>6
  <2>11. QED
    BY <2>9, <2>10
<1>5. QED
  BY <1>3, <1>4

\* The device sends the first of the bytes asked for.
Turned(w, reg) ==
    /\ Talking(w) /\ w.got = <<>>
    /\ w.dev.value = w.dev.mem[At(reg, 1)] /\ w.dev.reg = At(reg, 2)

Fetched(w, reg, length, i) ==
    {x \in Wire : /\ Sound(x) /\ x.fault = w.fault /\ x.dev.mem = w.dev.mem
                  /\ ~Live(w) => x = w
                  /\ w.fault.kind = "none" /\ Live(w) => Live(x)
                  /\ Live(x) => x.scl /\ x.got = [j \in 1..i |-> w.dev.mem[At(reg, j)]]
                  /\ Live(x) /\ i < length =>
                        /\ x.dev.mode = "read" /\ x.dev.slot = "data" /\ x.dev.bits = 0
                        /\ x.dev.value = w.dev.mem[At(reg, i + 1)] /\ x.dev.reg = At(reg, i + 2)
                        /\ x.dev.low <=> BitOf(x.dev.value, 1) = 0
                  /\ Live(x) /\ i = length => x.dev.mode = "idle"}

LEMMA OneMore ==
  ASSUME NEW n \in Nat, n > 0, NEW f, NEW s, s = [j \in 1..(n - 1) |-> f[j]]
  PROVE  Append(s, f[n]) = [j \in 1..n |-> f[j]]
<1>1. Len(s) = n - 1 /\ DOMAIN s = 1..(n - 1)
  OBVIOUS
<1>2. Append(s, f[n]) = [j \in 1..n |-> IF j = n THEN f[n] ELSE s[j]]
  BY <1>1 
<1>3. \A j \in 1..n : j = n \/ j \in 1..(n - 1)
  OBVIOUS
<1>4. QED
  BY <1>2, <1>3

LEMMA OneByteRead ==
  ASSUME NEW w, Sound(w), NEW reg \in 0..(Registers - 1), Live(w) => Turned(w, reg),
         NEW length \in Nat, length > 0, NEW i \in 1..length, NEW x \in Fetched(w, reg, length, i - 1),
         NEW y, y = Then(x, LAMBDA z : ReadByte(z, AckAfter(i, length)))
  PROVE  y \in Fetched(w, reg, length, i)
<1> DEFINE mem == w.dev.mem
<1>1. /\ x \in Wire /\ Sound(x) /\ x.fault = w.fault /\ x.dev.mem = mem
      /\ ~Live(w) => x = w
      /\ w.fault.kind = "none" /\ Live(w) => Live(x)
      /\ Live(x) => x.scl /\ x.got = [j \in 1..(i - 1) |-> mem[At(reg, j)]]
  BY DEF Fetched
<1>2. CASE ~Live(x)
  <2>1. y = x
    BY <1>1, <1>2, WireFacts DEF Then
  <2>2. QED
    BY <1>1, <1>2, <2>1 DEF Fetched
<1>3. CASE Live(x)
  <2> DEFINE ack == i < length
  <2>1. y = ReadByte(x, ack) /\ Live(w) /\ Turned(w, reg) /\ ack \in BOOLEAN
    BY <1>1, <1>3, WireFacts DEF Then, AckAfter
  <2>2. /\ i - 1 < length /\ (i - 1) + 1 = i /\ (i - 1) + 2 = i + 1 /\ i \in Nat /\ i > 0
        /\ (ack \/ i = length) /\ ~(ack /\ i = length) /\ i + 1 \in Nat /\ i + 1 > 0 /\ (i + 1) + 1 = i + 2
    OBVIOUS
  <2> HIDE DEF ack
  <2>3. /\ x.dev.mode = "read" /\ x.dev.slot = "data" /\ x.dev.bits = 0
        /\ x.dev.value = mem[At(reg, i)] /\ x.dev.reg = At(reg, i + 1)
        /\ x.dev.low <=> BitOf(x.dev.value, 1) = 0
    <3>1. /\ x.dev.mode = "read" /\ x.dev.slot = "data" /\ x.dev.bits = 0
          /\ x.dev.value = mem[At(reg, (i - 1) + 1)] /\ x.dev.reg = At(reg, (i - 1) + 2)
          /\ x.dev.low <=> BitOf(x.dev.value, 1) = 0
      BY <1>3, <2>2 DEF Fetched
    <3>2. QED
      BY <2>2, <3>1
  <2>4. Talking(x)
    BY <1>1, <1>3, <2>1, <2>3 DEF Talking, Turned
  <2>5. ReadOne(x, ack, y)
    BY <2>1, <2>4, ReadByteFacts
  <2>6. /\ Sound(y) /\ y \in Wire /\ y.fault = w.fault /\ y.dev.mem = mem
        /\ w.fault.kind = "none" => Live(y)
    BY <1>1, <2>5 DEF ReadOne, Sound
  <2>7. ASSUME Live(y) PROVE y.scl /\ y.got = [j \in 1..i |-> mem[At(reg, j)]]
    <3> DEFINE f == [j \in 1..i |-> mem[At(reg, j)]]
    <3>1. y.scl /\ y.got = Append(x.got, x.dev.value)
      BY <2>5, <2>7 DEF ReadOne
    <3>2. x.dev.value = f[i] /\ x.got = [j \in 1..(i - 1) |-> f[j]] /\ f = [j \in 1..i |-> f[j]]
      <4>1. \A j \in 1..(i - 1) : j \in 1..i
        BY <2>2
      <4>2. i \in 1..i
        BY <2>2
      <4>3. QED
        BY <1>1, <1>3, <2>3, <4>1, <4>2
    <3> HIDE DEF f
    <3>3. Append(x.got, f[i]) = [j \in 1..i |-> f[j]]
      BY <2>2, <3>2, OneMore
    <3>4. QED
      BY <3>1, <3>2, <3>3 DEF f
  <2>8. ASSUME Live(y), i < length
        PROVE  /\ y.dev.mode = "read" /\ y.dev.slot = "data" /\ y.dev.bits = 0
               /\ y.dev.value = mem[At(reg, i + 1)] /\ y.dev.reg = At(reg, i + 2)
               /\ y.dev.low <=> BitOf(y.dev.value, 1) = 0
    <3>1. ack
      BY <2>8 DEF ack
    <3>2. /\ y.dev.mode = "read" /\ y.dev.slot = "data" /\ y.dev.bits = 0
          /\ y.dev.value = x.dev.mem[x.dev.reg] /\ y.dev.reg = Following(x.dev.reg)
          /\ y.dev.low <=> BitOf(x.dev.mem[x.dev.reg], 1) = 0
      BY <2>5, <2>8, <3>1 DEF ReadOne
    <3>3. Following(At(reg, i + 1)) = At(reg, (i + 1) + 1)
      BY <2>2, AtFacts
    <3>4. QED
      BY <1>1, <2>2, <2>3, <3>2, <3>3
  <2>9. ASSUME Live(y), i = length PROVE y.dev.mode = "idle"
    BY <2>2, <2>5, <2>9 DEF ReadOne
  <2>10. QED
    BY <2>1, <2>6, <2>7, <2>8, <2>9 DEF Fetched
<1>4. QED
  BY <1>2, <1>3

LEMMA AllBytesRead ==
  ASSUME NEW w, Sound(w), NEW reg \in 0..(Registers - 1), Live(w) => Turned(w, reg),
         NEW length \in Nat, length > 0
  PROVE  ReadBytes(w, length) \in Fetched(w, reg, length, length)
<1> DEFINE Round(x, i) == Then(x, LAMBDA y : ReadByte(y, AckAfter(i, length)))
           R == [p \in Wire \X (1..length) |-> Round(p[1], p[2])]
           Inv == [i \in 0..length |-> Fetched(w, reg, length, i)]
<1>1. length \in Nat /\ 0 < length
  OBVIOUS
<1>2. w \in Fetched(w, reg, length, 0)
  <2>1. w \in Wire /\ 0 # length /\ 0 + 1 = 1 /\ 0 + 2 = 2 /\ 1..0 = {}
    BY <1>1 DEF Sound
  <2>2. Live(w) => w.got = [j \in 1..0 |-> w.dev.mem[At(reg, j)]]
    BY <2>1 DEF Turned
  <2>3. QED
    BY <2>1, <2>2 DEF Fetched, Turned, Talking
<1>3. \A i \in 1..length : \A x \in Fetched(w, reg, length, i - 1) : Round(x, i) \in Fetched(w, reg, length, i)
  BY OneByteRead
<1>4. \A x \in Wire, i \in 1..length : R[<<x, i>>] = Round(x, i)
  <2> HIDE DEF Round
  <2>1. QED
    OBVIOUS
<1>5. \A i \in 0..length : Fetched(w, reg, length, i) \subseteq Wire /\ Inv[i] = Fetched(w, reg, length, i)
  BY DEF Fetched
<1> HIDE DEF Inv, R, Round
<1>6. PICK g : Runs(g, length, w, R) /\ \A i \in 0..length : g[i] \in Inv[i]
  <2>1. \A i \in 1..length : i \in 0..length /\ i - 1 \in 0..length
    BY <1>1
  <2>2. Along(length, Inv, w, R)
    <3>1. w \in Inv[0]
      BY <1>1, <1>2, <1>5
    <3>2. ASSUME NEW i \in 1..length, NEW x \in Inv[i - 1] PROVE R[<<x, i>>] \in Inv[i]
      <4>1. x \in Fetched(w, reg, length, i - 1) /\ x \in Wire
        BY <2>1, <1>5
      <4>2. Round(x, i) \in Inv[i]
        BY <4>1, <2>1, <1>3, <1>5
      <4>3. QED
        BY <4>1, <4>2, <1>4
    <3>3. QED
      BY <3>1, <3>2 DEF Along
  <2>3. \A i \in 0..length : Inv[i] \subseteq Wire
    BY <1>5
  <2>4. QED
    BY <1>1, <2>2, <2>3, LoopHistory
<1>7. g = [i \in 0..length |-> IF i = 0 THEN w ELSE Round(g[i - 1], i)]
  <2>1. ASSUME NEW i \in 0..length PROVE g[i] = IF i = 0 THEN w ELSE Round(g[i - 1], i)
    <3>1. g[i] = IF i = 0 THEN w ELSE R[<<g[i - 1], i>>]
      BY <1>6 DEF Runs
    <3>2. CASE i # 0
      <4>1. i \in 1..length /\ i - 1 \in 0..length
        BY <3>2, <1>1
      <4>2. g[i - 1] \in Wire
        BY <4>1, <1>5, <1>6
      <4>3. QED
        BY <3>1, <3>2, <4>1, <4>2, <1>4
    <3>3. QED
      BY <3>1, <3>2
  <2>2. QED
    BY <1>6, <2>1 DEF Runs
<1>8. \E h : h = [i \in 0..length |-> IF i = 0 THEN w ELSE Round(h[i - 1], i)] /\ ReadBytes(w, length) = h[length]
  BY <1>7, Zenon DEF ReadBytes, Rounds, Round
<1>9. PICK h : h = [i \in 0..length |-> IF i = 0 THEN w ELSE Round(h[i - 1], i)] /\ ReadBytes(w, length) = h[length]
  BY <1>8
<1>10. \A i \in 0..length : i \in {j \in 0..length : h[j] \in Fetched(w, reg, length, j)}
  <2> DEFINE S == {j \in 0..length : h[j] \in Fetched(w, reg, length, j)}
  <2>1. 0 \in S
    BY <1>1, <1>2, <1>9
  <2>2. ASSUME NEW i \in 1..length, i - 1 \in S PROVE i \in S
    <3>1. i \in 0..length /\ i # 0 /\ h[i - 1] \in Fetched(w, reg, length, i - 1)
      BY <1>1, <2>2
    <3>2. h[i] = Round(h[i - 1], i)
      BY <3>1, <1>9
    <3>3. QED
      BY <3>1, <3>2, <1>3
  <2> HIDE DEF S
  <2>3. \A i \in 0..length : i \in S
    BY <1>1, <2>1, <2>2, Upto
  <2>4. QED
    BY <2>3 DEF S
<1>11. QED
  <2>1. length \in 0..length
    BY <1>1
  <2>2. QED
    BY <1>9, <1>10, <2>1

-----------------------------------------------------------------------------
(* The end of a transaction. *)

\* What the end of a transaction leaves alone.
Ended(w, v) ==
    /\ Sound(v) /\ v.fault = w.fault /\ v.got = w.got /\ SameStore(w.dev, v.dev)
    /\ Live(v) => Live(w)

\* A device that does not drive SDA once SCL has risen.
Quits(w) == w.scl /\ ~w.dev.low /\ w.dev.mode # "read"

LEMMA StopConditionFacts ==
  ASSUME NEW w, Sound(w), NEW v, v = StopCondition(w)
  PROVE  Ended(w, v) /\ (w.cut => v.cut)
         /\ (w.fault.kind = "none" /\ Live(w) /\ Quits(w) => Live(v))
<1> DEFINE d == SetSda(w, TRUE)
           r == RaiseScl(d)
           s == SetSda(r, FALSE)
           f == Fails(s, "BUS_LOCKED")
<1>0. /\ d = SetSda(w, TRUE) /\ r = RaiseScl(d) /\ s = SetSda(r, FALSE) /\ f = Fails(s, "BUS_LOCKED")
      /\ TRUE \in BOOLEAN /\ FALSE \in BOOLEAN
  OBVIOUS
<1>1. v = IF ~Ok(r) \/ r.cut THEN s ELSE IF Sda(s) = 1 THEN s ELSE f
  BY DEF StopCondition, DriveSda, ReleaseSda
<1> HIDE DEF d, r, s, f
<1>2. /\ Sound(d) /\ Same(w, d) /\ SameEnd(w, d) /\ SameStore(w.dev, d.dev)
      /\ (d.scl <=> w.scl) /\ (d.held <=> w.held)
      /\ ~w.cut => d.sda
      /\ w.cut \/ ~High(w) => d.dev = w.dev
  BY <1>0, SetSdaFacts
<1>3. /\ Sound(r) /\ Same(d, r) /\ SameStore(d.dev, r.dev) /\ (r.sda <=> d.sda) /\ (d.cut => r.cut)
      /\ Live(r) => /\ Live(d) /\ High(r)
                    /\ r.dev = IF High(d) THEN d.dev ELSE ClockRises(d.dev, Sda(d))
      /\ d.fault.kind = "none" /\ Live(d) => Live(r)
  BY <1>0, <1>2, RaiseSclFacts
<1>4. /\ Sound(s) /\ Same(r, s) /\ SameEnd(r, s) /\ SameStore(r.dev, s.dev)
      /\ (s.scl <=> r.scl) /\ (s.held <=> r.held)
      /\ ~r.cut => ~s.sda
      /\ ~r.cut /\ High(r) /\ ~r.dev.low /\ r.fault.kind # "sda" /\ r.sda => s.dev = Quiet(r.dev)
  <2>1. Sound(r) /\ s = SetSda(r, FALSE) /\ FALSE \in BOOLEAN
    BY <1>0, <1>3
  <2>2. QED
    BY <2>1, SetSdaFacts
<1>5. Sound(f) /\ Same(s, f) /\ f.dev = s.dev /\ (f.cut <=> s.cut) /\ (~s.cut => f.status = "BUS_LOCKED")
  <2>1. Sound(s) /\ f = Fails(s, "BUS_LOCKED") /\ "BUS_LOCKED" \in {"OK", "TIMEOUT", "NACK", "BUS_LOCKED"}
    BY <1>0, <1>4
  <2>2. QED
    BY <2>1, FailsFacts
<1>6. v \in {s, f}
  BY <1>1
<1>7. /\ s.fault = w.fault /\ f.fault = w.fault /\ s.got = w.got /\ f.got = w.got
      /\ SameStore(w.dev, s.dev) /\ SameStore(w.dev, f.dev) /\ r.fault = w.fault /\ d.fault = w.fault
  BY <1>2, <1>3, <1>4, <1>5 DEF Same, SameStore
<1>8. w.cut => v.cut
  BY <1>2, <1>3, <1>4, <1>5, <1>6 DEF SameEnd
<1>9. ASSUME Live(v) PROVE Live(w)
  <2>1. CASE ~Ok(r) \/ r.cut
    BY <1>1, <1>4, <1>9, <2>1 DEF Ok, Live, SameEnd
  <2>2. CASE ~(~Ok(r) \/ r.cut)
    BY <1>2, <1>3, <2>2 DEF Ok, Live, SameEnd
  <2>3. QED
    BY <2>1, <2>2
<1>10. ASSUME w.fault.kind = "none", Live(w), Quits(w) PROVE Live(v)
  <2>1. ~High(w) /\ ~w.cut /\ ~High(d) /\ d.dev = w.dev /\ Live(d) /\ d.sda
    BY <1>2, <1>10 DEF Quits, High, Live, SameEnd
  <2>2. Live(r) /\ High(r) /\ r.dev = ClockRises(w.dev, Sda(d)) /\ r.sda /\ ~r.cut /\ Ok(r)
    BY <1>3, <1>7, <1>10, <2>1 DEF Live, Ok
  <2>3. w.dev \in Device /\ Sda(d) \in {0, 1} /\ r.dev \in Device /\ s \in Wire
    BY <1>2, <1>3, <1>4, WireFacts DEF Sound
  <2>4. ~r.dev.low
    <3>1. Receives(w.dev) \/ w.dev.mode = "idle"
      BY <1>10, <2>3 DEF Quits, Device, Receives
    <3>2. (r.dev.low <=> w.dev.low) \/ r.dev = w.dev
      BY <2>2, <2>3, <3>1, RisingFields DEF Device
    <3>3. QED
      BY <1>10, <3>2 DEF Quits
  <2>5. s.dev = Quiet(r.dev) /\ ~s.sda /\ ~s.dev.low
    <3>1. s.dev = Quiet(r.dev) /\ ~s.sda
      BY <1>4, <1>7, <1>10, <2>2, <2>4
    <3>2. QED
      BY <2>3, <3>1, QuietDevice
  <2>6. Sda(s) = 1
    BY <1>7, <1>10, <2>3, <2>5, WireFacts
  <2>7. QED
    BY <1>1, <1>4, <2>2, <2>6 DEF SameEnd, Live
<1>11. QED
  BY <1>4, <1>5, <1>6, <1>7, <1>8, <1>9, <1>10 DEF Ended

LEMMA FinishFacts ==
  ASSUME NEW w, Sound(w), NEW started \in BOOLEAN, NEW v, v = Finish(w, started)
  PROVE  Ended(w, v) /\ (w.fault.kind = "none" /\ Live(w) /\ (started => Quits(w)) => Live(v))
<1> DEFINE c == [w EXCEPT !.status = "OK"]
           p == IF started THEN StopCondition(c) ELSE w
           status == IF Ok(w) THEN p.status ELSE w.status
           f == Fails(p, status)
<1>0. f = Fails(p, status) /\ status = IF Ok(w) THEN p.status ELSE w.status
  OBVIOUS
<1>1. v = ReleaseLines(f)
  BY DEF Finish
<1>2. w \in Wire /\ w.status \in {"OK", "TIMEOUT", "NACK", "BUS_LOCKED"} /\ (Ok(w) /\ ~w.cut <=> Live(w))
  BY WireFacts DEF Sound, Wire
<1>3. /\ c \in Wire /\ c.dev = w.dev /\ c.fault = w.fault /\ c.got = w.got /\ SameLines(w, c)
      /\ (c.cut <=> w.cut) /\ c.status = "OK"
  BY <1>2 DEF Wire, SameLines
<1> HIDE DEF c
<1>4. Sound(c) /\ (Quits(c) <=> Quits(w)) /\ (Live(c) <=> ~w.cut)
  BY <1>3 DEF Sound, SameLines, High, Quits, Live
<1>5. /\ Sound(p) /\ p.fault = w.fault /\ p.got = w.got /\ SameStore(w.dev, p.dev) /\ (w.cut => p.cut)
      /\ w.fault.kind = "none" /\ Live(w) /\ (started => Quits(w)) => Live(p)
  <2>1. CASE started
    <3>1. p = StopCondition(c)
      BY <2>1
    <3> HIDE DEF p
    <3>2. /\ Sound(p) /\ p.fault = c.fault /\ p.got = c.got /\ SameStore(c.dev, p.dev)
          /\ (c.cut => p.cut) /\ (c.fault.kind = "none" /\ Live(c) /\ Quits(c) => Live(p))
      BY <1>4, <3>1, StopConditionFacts DEF Ended
    <3>3. QED
      BY <1>2, <1>3, <1>4, <2>1, <3>2
  <2>2. CASE ~started
    BY <2>2 DEF SameStore
  <2>3. QED
    BY <2>1, <2>2
<1> HIDE DEF p, status, f
<1>6. status \in {"OK", "TIMEOUT", "NACK", "BUS_LOCKED"}
  BY <1>0, <1>2, <1>5 DEF Sound, Wire
<1>7. /\ Sound(f) /\ Same(p, f) /\ f.dev = p.dev /\ (f.cut <=> p.cut)
      /\ ~p.cut => f.status = status
  BY <1>0, <1>5, <1>6, FailsFacts
<1>8. /\ Sound(v) /\ Same(f, v) /\ SameEnd(f, v) /\ SameStore(f.dev, v.dev)
  BY <1>1, <1>7, ReleaseLinesFacts
<1>9. v.fault = w.fault /\ v.got = w.got /\ SameStore(w.dev, v.dev)
  BY <1>5, <1>7, <1>8 DEF Same, SameStore
<1>10. Live(v) => Live(w)
  <2>1. SUFFICES ASSUME Live(v) PROVE Live(w)
    OBVIOUS
  <2>2. ~f.cut /\ f.status = "OK"
    BY <1>8, <2>1 DEF Live, SameEnd
  <2>3. ~p.cut /\ status = "OK" /\ ~w.cut
    BY <1>2, <1>5, <1>7, <2>2 DEF Wire
  <2>4. w.status = "OK"
    BY <1>0, <2>3 DEF Ok
  <2>5. QED
    BY <2>3, <2>4 DEF Live
<1>11. w.fault.kind = "none" /\ Live(w) /\ (started => Quits(w)) => Live(v)
  BY <1>0, <1>2, <1>5, <1>7, <1>8 DEF Live, SameEnd
<1>12. QED
  BY <1>8, <1>9, <1>10, <1>11 DEF Ended

\* The device at rest, the clock high.
Resting(dev) == dev \in Device /\ Phase(dev, TRUE)

LEMMA EndingsFacts ==
  ASSUME NEW w, Sound(w), NEW d \in Endings(w)
  PROVE  Resting(d) /\ SameStore(w.dev, d) /\ (~w.cut /\ High(w) => d = w.dev)
<1> DEFINE free == [w.fault EXCEPT !.kind = "none"]
           f == [w EXCEPT !.cut = FALSE, !.fault = free]
           s == SetSda(f, FALSE)
           r == SclRises(f)
           sr == SclRises(s)
           rs == SetSda(r, FALSE)
<1>0. /\ s = SetSda(f, FALSE) /\ r = SclRises(f) /\ sr = SclRises(s) /\ rs = SetSda(r, FALSE)
      /\ FALSE \in BOOLEAN
  OBVIOUS
<1>1. d \in IF w.cut THEN {sr.dev, rs.dev} ELSE {r.dev}
  <2>1. w \in Wire
    BY DEF Sound
  <2>2. [w EXCEPT !.cut = FALSE, !.fault.kind = "none"] = f
    BY <2>1 DEF Wire
  <2>3. QED
    BY <2>2, Zenon DEF Endings
<1>2. /\ f \in Wire /\ f.dev = w.dev /\ SameLines(w, f)
  BY DEF Sound, Wire, SameLines
<1> HIDE DEF free, f, s, r, sr, rs
<1>3. Sound(f) /\ (High(f) <=> High(w))
  BY <1>2 DEF Sound, SameLines, High
<1>4. Sound(s) /\ SameStore(f.dev, s.dev)
  BY <1>0, <1>3, SetSdaFacts
<1>5. Sound(r) /\ SameStore(f.dev, r.dev) /\ High(r)
      /\ r.dev = IF High(f) THEN f.dev ELSE ClockRises(f.dev, Sda(f))
  BY <1>0, <1>3, SclRisesFacts
<1>6. Sound(sr) /\ SameStore(s.dev, sr.dev) /\ High(sr)
  <2>1. sr = SclRises(s) /\ Sound(s)
    BY <1>0, <1>4
  <2>2. QED
    BY <2>1, SclRisesFacts
<1>7. Sound(rs) /\ SameStore(r.dev, rs.dev) /\ High(rs)
  <2>1. rs = SetSda(r, FALSE) /\ Sound(r) /\ FALSE \in BOOLEAN
    BY <1>0, <1>5
  <2>2. Sound(rs) /\ SameStore(r.dev, rs.dev) /\ (rs.scl <=> r.scl) /\ (rs.held <=> r.held)
    BY <2>1, SetSdaFacts
  <2>3. QED
    BY <1>5, <2>2 DEF High
<1>8. Resting(r.dev) /\ Resting(sr.dev) /\ Resting(rs.dev)
  BY <1>5, <1>6, <1>7 DEF Resting, Sound, Wire, Phase
<1>9. SameStore(w.dev, r.dev) /\ SameStore(w.dev, sr.dev) /\ SameStore(w.dev, rs.dev)
  BY <1>2, <1>4, <1>5, <1>6, <1>7 DEF SameStore
<1>10. QED
  BY <1>1, <1>2, <1>3, <1>5, <1>8, <1>9

-----------------------------------------------------------------------------
(* The transactions. *)

LEMMA WiresFacts ==
  ASSUME NEW dev, Resting(dev), NEW fault \in Faults, NEW w, w = Wires(dev, fault)
  PROVE  Sound(w) /\ Live(w) /\ High(w) /\ w.dev = dev /\ w.fault = fault /\ w.got = <<>>
<1>1. fault \in [kind : {"none", "late", "cut", "stretch", "sda"}, at : Nat, to : Nat]
  <2>1. MaxRaise \in Nat
    BY I2cAssumption
  <2>2. QED
    BY <2>1 DEF Faults
<1>2. w \in Wire
  BY <1>1 DEF Wires, Wire, Resting
<1>3. QED
  BY <1>2 DEF Wires, Sound, Resting, High, Live

LEMMA BegunFacts ==
  ASSUME NEW w, Sound(w), NEW v, v = Begun(w)
  PROVE  Keeps(w, v) /\ (Live(v) => Addressed(v))
<1> DEFINE p == PrepareBus(w)
<1>1. v = StartCondition(p)
  BY DEF Begun
<1>2. Keeps(w, p)
  BY PrepareBusFacts
<1> HIDE DEF p
<1>3. Keeps(p, v) /\ (Live(v) => Addressed(v))
  BY <1>1, <1>2, StartConditionFacts DEF Keeps
<1>4. QED
  BY <1>2, <1>3 DEF Keeps

\* A first byte is the address and a direction.
LEMMA FirstByte ==
  ASSUME NEW address \in Addresses
  PROVE  /\ 2 * address \in Byte /\ 2 * address + 1 \in Byte /\ address \in Nat
         /\ (2 * address) % 2 # 1 /\ (2 * address + 1) % 2 = 1
         /\ (2 * address) \div 2 = address /\ (2 * address + 1) \div 2 = address
<1>1. Bits \in 1..Bits /\ Bits - 1 \in 0..Bits
  BY Sizes
<1>2. Weight[Bits] = 2 * Weight[Bits - 1] /\ Weight[Bits - 1] \in Nat /\ address \in 0..(Weight[Bits - 1] - 1)
  BY <1>1, WeightIs, Sizes, I2cAssumption
<1>3. address \in Nat /\ 2 * address + 1 < Weight[Bits] /\ Weight[Bits] \in Nat
  BY <1>2
<1>4. (2 * address) % 2 # 1 /\ (2 * address + 1) % 2 = 1
      /\ (2 * address) \div 2 = address /\ (2 * address + 1) \div 2 = address
  BY <1>3
<1>5. QED
  BY <1>3, <1>4 DEF Byte

\* Once the device takes a message, it waits for the next bit.
LEMMA AnsweredQuits ==
  ASSUME NEW w, NEW x, Sound(x), x.scl, NEW s, s[1] % 2 # 1, NEW i \in Nat, i >= 1, Answered(w, s, i, x.dev)
  PROVE  Quits(x) /\ Receives(x.dev) /\ x.dev.slot = "data"
<1>1. x.dev.slot = "data" /\ x.dev.mode \in {"pointer", "write"}
  BY DEF Answered, Filled
<1>2. QED
  BY <1>1 DEF Quits, Receives, Sound, Phase

LEMMA WrittenFacts ==
  ASSUME NEW dev, Resting(dev), NEW fault \in Faults, NEW address \in Addresses,
         NEW s, Message(s), s[1] = 2 * address, NEW b, b = Begun(Wires(dev, fault)),
         NEW v, v = Finish(WriteBytes(b, s), Ok(b))
  PROVE  /\ Sound(v) /\ v.fault = fault
         /\ fault.kind # "sda" => \A r \in 0..(Registers - 1) : v.dev.mem[r] = dev.mem[r] \/ v.dev.mem[r] \in Bytes
         /\ fault.kind = "none" /\ address = Address => Live(v)
         /\ Live(v) => /\ address = Address
                       /\ \A j \in 1..(Len(s) - 2) : Len(s) - 2 < j + Registers => v.dev.mem[At(s[2], j)] = s[j + 2]
<1> DEFINE w == Wires(dev, fault)
           x == WriteBytes(b, s)
<1>0. w = Wires(dev, fault) /\ b = Begun(w) /\ x = WriteBytes(b, s)
  OBVIOUS
<1>1. v = Finish(x, Ok(b))
  OBVIOUS
<1> HIDE DEF w, x
<1>2. Sound(w) /\ Live(w) /\ High(w) /\ w.dev = dev /\ w.fault = fault /\ w.got = <<>>
  BY <1>0, WiresFacts
<1>3. Keeps(w, b) /\ (Live(b) => Addressed(b)) /\ Sound(b) /\ b.fault = fault
  BY <1>0, <1>2, BegunFacts DEF Keeps
<1>4. x \in Told(b, s, Len(s)) /\ Len(s) \in Nat /\ Len(s) >= 1 /\ Len(s) > 0
  <2>1. Len(s) \in Nat /\ Len(s) >= 1 /\ Len(s) > 0
    <3>1. s \in Seq(Byte) /\ Len(s) >= 1
      BY Zenon DEF Message
    <3> HIDE DEF w
    <3>2. QED
      BY ONLY <3>1
  <2>2. WriteBytes(b, s) \in Told(b, s, Len(s))
    BY ONLY <1>3, Message(s), AllBytes
  <2>3. QED
    BY <1>0, <2>1, <2>2, Zenon
<1>5. /\ Sound(x) /\ x.fault = fault /\ Wholly(b, x) /\ (~Live(b) => x = b)
      /\ fault.kind = "none" /\ Live(b) /\ s[1] \div 2 = Address => Live(x)
      /\ Live(x) => x.scl /\ Answered(b, s, Len(s), x.dev)
  BY <1>3, <1>4 DEF Told
<1>6. s[1] % 2 # 1 /\ s[1] \div 2 = address
  BY FirstByte
<1>7. /\ Ended(x, v) /\ (x.fault.kind = "none" /\ Live(x) /\ (Ok(b) => Quits(x)) => Live(v))
  <2>1. Ok(b) \in BOOLEAN
    BY DEF Ok
  <2> DEFINE started == Ok(b)
  <2>2. started \in BOOLEAN /\ v = Finish(x, started) /\ (started <=> Ok(b))
    BY <1>1, <2>1
  <2> HIDE DEF started
  <2>3. QED
    BY <1>5, <2>2, FinishFacts
<1>8. Live(v) => Live(x)
  BY <1>7 DEF Ended
<1>9. Live(x) => Quits(x)
  BY <1>4, <1>5, <1>6, AnsweredQuits
<1>10. fault.kind = "none" /\ address = Address => Live(v)
  BY <1>2, <1>3, <1>5, <1>6, <1>7, <1>9 DEF Keeps
<1>11. Sound(v) /\ v.fault = fault /\ v.dev.mem = x.dev.mem
  BY <1>5, <1>7 DEF Ended, SameStore
<1>12. ASSUME fault.kind # "sda", NEW r \in 0..(Registers - 1)
       PROVE  v.dev.mem[r] = dev.mem[r] \/ v.dev.mem[r] \in Bytes
  <2>1. b.dev.mem = dev.mem
    BY <1>2, <1>3, <1>12 DEF Keeps
  <2>2. QED
    BY <1>5, <1>11, <2>1 DEF Wholly
<1>13. ASSUME Live(v)
       PROVE  /\ address = Address
              /\ \A j \in 1..(Len(s) - 2) : Len(s) - 2 < j + Registers => v.dev.mem[At(s[2], j)] = s[j + 2]
  <2>1. Answered(b, s, Len(s), x.dev)
    BY <1>5, <1>8, <1>13
  <2>2. address = Address
    BY <1>6, <2>1 DEF Answered
  <2>3. CASE Len(s) >= 2
    BY <1>11, <2>1, <2>2, <2>3 DEF Answered, Filled
  <2>4. CASE ~(Len(s) >= 2)
    <3>1. 1..(Len(s) - 2) = {}
      BY <1>4, <2>4
    <3>2. QED
      BY <2>2, <3>1
  <2>5. QED
    BY <2>3, <2>4
<1>14. QED
  BY <1>10, <1>11, <1>12, <1>13

\* A repeated START finds the bus free: the device waits for the next bit.
LEMMA RepeatedStart ==
  ASSUME NEW w, Sound(w), w.scl, Receives(w.dev), w.dev.slot = "data", NEW v, v = StartCondition(w), Live(v)
  PROVE  SameStore(w.dev, v.dev)
<1> DEFINE f == SetSda(w, FALSE)
           x == WaitSclHigh(f)
           p == PrepareBus(w)
           s == SetSda(p, TRUE)
           l == LowerScl(s)
<1>0. /\ f = SetSda(w, FALSE) /\ x = WaitSclHigh(f) /\ p = PrepareBus(w) /\ p = FreeBus(x)
      /\ s = SetSda(p, TRUE) /\ l = LowerScl(s) /\ TRUE \in BOOLEAN /\ FALSE \in BOOLEAN
  BY DEF PrepareBus, ReleaseSda
<1>1. w \in Wire /\ (Ok(w) /\ ~w.cut <=> Live(w)) /\ ~High(w) /\ ~w.dev.low /\ w.dev \in Device
  BY WireFacts DEF Sound, High, Phase
<1>2. Live(w) /\ v = IF Ok(p) /\ ~p.cut THEN l ELSE p
  <2>1. v = IF Live(w) THEN IF Ok(p) /\ ~p.cut THEN l ELSE p ELSE w
    BY <1>1 DEF StartCondition, Then, PrepareBus, DriveSda
  <2>2. QED
    BY <2>1
<1> HIDE DEF f, x, p, s, l
<1>3. Keeps(w, p) /\ (Live(p) => Free(p) /\ w.fault.kind # "sda")
  BY <1>0, PrepareBusFacts
<1>4. Live(p) /\ v = l
  <2>1. Ok(p) /\ ~p.cut <=> Live(p)
    BY <1>3, WireFacts DEF Keeps, Sound
  <2>2. QED
    BY <1>2, <2>1
<1>5. Sound(f) /\ Same(w, f) /\ SameEnd(w, f) /\ f.dev = w.dev /\ ~f.sda /\ (f.scl <=> w.scl)
  <2>1. ~w.cut
    BY <1>2 DEF Live
  <2>2. QED
    BY <1>0, <1>1, <2>1, SetSdaFacts
<1>6. /\ Sound(x) /\ Same(f, x) /\ SameStore(f.dev, x.dev) /\ (x.sda <=> f.sda)
      /\ Live(x) => x.dev = IF High(f) THEN f.dev ELSE ClockRises(f.dev, Sda(f))
  BY <1>0, <1>5, WaitSclHighFacts
<1>7. x \in Wire /\ f \in Wire /\ (Ok(x) /\ ~x.cut <=> Live(x)) /\ ~High(f) /\ Sda(f) \in {0, 1}
  BY <1>5, <1>6, WireFacts DEF Sound, High
<1>8. Live(x)
  <2>1. SUFFICES ASSUME ~Live(x) PROVE FALSE
    OBVIOUS
  <2>2. p = x
    BY <1>0, <1>7, <2>1 DEF FreeBus, Then
  <2>3. QED
    BY <1>4, <2>1, <2>2
<1>9. ~x.dev.low
  BY <1>1, <1>5, <1>6, <1>7, <1>8, RisingFields
<1>10. x.fault.kind # "sda" /\ ~x.sda
  BY <1>3, <1>4, <1>5, <1>6 DEF Same
<1>11. Sda(x) = 1
  BY <1>7, <1>9, <1>10, WireFacts
<1>12. p = x
  BY <1>0, <1>7, <1>8, <1>11 DEF FreeBus, Then
<1>13. Sound(s) /\ SameStore(p.dev, s.dev) /\ ~s.cut
       /\ (High(p) /\ ~p.dev.low /\ p.fault.kind # "sda" /\ ~p.sda => s.dev = Started(p.dev))
  <2>1. Sound(p) /\ ~p.cut
    BY <1>4, <1>6, <1>12 DEF Live
  <2>2. QED
    BY <1>0, <2>1, SetSdaFacts DEF SameEnd
<1>14. s.dev = Started(p.dev)
  BY <1>3, <1>4, <1>9, <1>10, <1>12, <1>13 DEF Free
<1>15. l.dev = s.dev
  <2>1. p.dev \in Device /\ TRUE \in BOOLEAN
    BY <1>7, <1>12, WireFacts
  <2>2. s.dev.mode = "address" /\ s.dev.slot = "data" /\ s.dev.bits = 0
    <3>1. Started(p.dev).mode = "address" /\ Started(p.dev).slot = "data" /\ Started(p.dev).bits = 0
      BY ONLY <2>1, QuietDevice
    <3>2. QED
      BY <1>14, <3>1
  <2>3. ClockFalls(s.dev) = s.dev
    BY <2>2, Sizes DEF ClockFalls
  <2>4. QED
    BY <1>0, <1>13, <2>3, LowerSclFacts
<1>16. QED
  BY <1>4, <1>5, <1>6, <1>12, <1>13, <1>15 DEF SameStore

\* What the transactions send.
LEMMA MessageFacts ==
  ASSUME NEW address \in Addresses, NEW reg \in 0..(Registers - 1)
  PROVE  /\ Message(<<2 * address>>) /\ Message(<<2 * address, reg>>) /\ Message(<<2 * address + 1>>)
         /\ reg \in Byte /\ Bytes \subseteq Byte
<1> DEFINE a == 2 * address
           o == 2 * address + 1
<1>1. a \in Byte /\ o \in Byte /\ a % 2 # 1 /\ o % 2 = 1
  BY FirstByte
<1>2. reg \in Byte /\ Bytes \subseteq Byte
  <2>1. Registers \in 1..Weight[Bits] /\ Weight[Bits] \in Nat /\ Bytes \subseteq Byte
    BY I2cAssumption, Sizes, WeightIs
  <2>2. QED
    BY <2>1 DEF Byte
<1> HIDE DEF a, o
<1>3. Message(<<a>>)
  <2>1. <<a>> \in Seq(Byte) /\ Len(<<a>>) = 1 /\ <<a>>[1] = a
    BY <1>1
  <2>2. QED
    BY <1>1, <2>1 DEF Message
<1>4. Message(<<a, reg>>)
  <2>1. <<a, reg>> \in Seq(Byte) /\ Len(<<a, reg>>) = 2 /\ <<a, reg>>[1] = a /\ <<a, reg>>[2] = reg
    BY <1>1, <1>2
  <2>2. QED
    BY <1>1, <2>1 DEF Message
<1>5. Message(<<o>>)
  <2>1. <<o>> \in Seq(Byte) /\ Len(<<o>>) = 1 /\ <<o>>[1] = o
    BY <1>1
  <2>2. QED
    BY <2>1 DEF Message
<1>6. QED
  BY <1>2, <1>3, <1>4, <1>5 DEF a, o

\* The sequence with one more element in front.
Before(e, t) == <<e>> \o t
Text == Seq(Byte)

LEMMA Prefixed ==
  ASSUME NEW e \in Byte, NEW t \in Text, NEW s, s = Before(e, t)
  PROVE  s \in Text /\ Len(s) = Len(t) + 1 /\ s[1] = e /\ \A j \in 1..Len(t) : s[j + 1] = t[j]
<1> DEFINE h == <<e>>
<1>1. h \in Seq(Byte) /\ Len(h) = 1 /\ h[1] = e /\ s = h \o t
  BY DEF Before
<1>t. t \in Seq(Byte)
  BY DEF Text
<1> HIDE DEF h
<1>2. /\ h \o t \in Seq(Byte) /\ Len(h \o t) = Len(h) + Len(t)
      /\ \A j \in 1..(Len(h) + Len(t)) : (h \o t)[j] = IF j <= Len(h) THEN h[j] ELSE t[j - Len(h)]
  BY ONLY <1>1, <1>t, ConcatProperties
<1>3. Len(t) \in Nat /\ Len(s) = Len(t) + 1 /\ s \in Seq(Byte) /\ s \in Text
      /\ \A j \in 1..(Len(t) + 1) : s[j] = IF j <= 1 THEN h[j] ELSE t[j - 1]
  BY <1>1, <1>t, <1>2 DEF Text
<1>4. QED
  BY ONLY <1>1, <1>3

\* What a write sends: the register, and the values.
LEMMA RegisterAndValues ==
  ASSUME NEW reg \in Byte, NEW values \in Values, NEW t, t = Before(reg, values)
  PROVE  /\ t \in Text /\ Len(t) = Len(values) + 1 /\ Len(values) \in Nat /\ t[1] = reg
         /\ DOMAIN values = 1..Len(values)
         /\ \A j \in 1..Len(values) : t[j + 1] = values[j] /\ values[j] \in Bytes
<1>1. reg \in Byte /\ Bytes \subseteq Byte
  BY I2cAssumption
<1> PICK n \in 1..MaxWrite : values \in [1..n -> Bytes]
  BY DEF Values
<1>2. n \in Nat
  BY I2cAssumption
<1>3. values \in Text /\ Len(values) = n /\ DOMAIN values = 1..n /\ \A j \in 1..n : values[j] \in Bytes
  <2>1. DOMAIN values = 1..n /\ \A j \in 1..n : values[j] \in Bytes
    BY ONLY values \in [1..n -> Bytes]
  <2>2. values \in [1..n -> Byte]
    BY ONLY <1>1, values \in [1..n -> Bytes]
  <2>3. values \in Seq(Byte) /\ Len(values) = n
    BY ONLY <1>2, <2>2, SMTT(20)
  <2>4. QED
    BY <2>1, <2>3 DEF Text
<1>4. t \in Text /\ Len(t) = Len(values) + 1 /\ t[1] = reg /\ \A j \in 1..Len(values) : t[j + 1] = values[j]
  <2>1. values \in Text
    BY <1>3
  <2>2. QED
    BY ONLY reg \in Byte, <2>1, t = Before(reg, values), Prefixed
<1>5. QED
  BY <1>2, <1>3, <1>4

\* It is a message, with the address in front.
LEMMA WriteMessage ==
  ASSUME NEW a \in Byte, a % 2 # 1, NEW t \in Text, Len(t) >= 1, t[1] \in 0..(Registers - 1),
         \A j \in 2..Len(t) : t[j] \in Bytes, NEW s, s = Before(a, t)
  PROVE  Message(s) /\ Len(s) = Len(t) + 1 /\ s[1] = a /\ \A j \in 1..Len(t) : s[j + 1] = t[j]
<1>1. s \in Text /\ Len(s) = Len(t) + 1 /\ s[1] = a /\ \A j \in 1..Len(t) : s[j + 1] = t[j]
  BY Prefixed
<1>2. Len(t) \in Nat /\ Len(t) >= 1
  BY DEF Text
<1>3. Len(s) >= 1 /\ s[1] % 2 # 1 /\ s[2] \in 0..(Registers - 1)
  <2>1. 1 \in 1..Len(t) /\ 1 + 1 = 2
    BY <1>2
  <2>2. s[2] = t[1]
    BY ONLY <1>1, <2>1
  <2>3. QED
    BY <1>1, <1>2, <2>2
<1>4. \A i \in 3..Len(s) : s[i] \in Bytes
  <2>1. SUFFICES ASSUME NEW i \in 3..Len(s) PROVE s[i] \in Bytes
    OBVIOUS
  <2>2. i - 1 \in 1..Len(t) /\ i - 1 \in 2..Len(t) /\ (i - 1) + 1 = i
    BY ONLY <1>1, <1>2, i \in 3..Len(s)
  <2>3. s[i] = t[i - 1]
    BY ONLY <1>1, <2>2
  <2>4. QED
    BY <2>2, <2>3
<1>5. QED
  BY ONLY <1>1, <1>3, <1>4 DEF Message, Text

LEMMA ReadFacts ==
  ASSUME NEW dev, Resting(dev), NEW fault \in Faults, NEW address \in Addresses,
         NEW reg \in 0..(Registers - 1), NEW length \in Nat, length > 0,
         NEW v, v = Read(Wires(dev, fault), address, reg, length)
  PROVE  /\ Sound(v) /\ v.fault = fault
         /\ fault.kind # "sda" => \A r \in 0..(Registers - 1) : v.dev.mem[r] = dev.mem[r] \/ v.dev.mem[r] \in Bytes
         /\ fault.kind = "none" /\ address = Address => Live(v)
         /\ Live(v) => v.got = [i \in 1..length |-> dev.mem[At(reg, i)]]
<1> DEFINE w == Wires(dev, fault)
           b == Begun(w)
           s == <<2 * address, reg>>
           m == WriteBytes(b, s)
           t == StartCondition(m)
           q == <<2 * address + 1>>
           k == WriteBytes(t, q)
           x == ReadBytes(k, length)
           c == Ok(b)
<1>0. /\ w = Wires(dev, fault) /\ b = Begun(w) /\ m = WriteBytes(b, s) /\ t = StartCondition(m)
      /\ k = WriteBytes(t, q) /\ x = ReadBytes(k, length) /\ c \in BOOLEAN /\ (c <=> Ok(b))
  BY DEF Ok
<1>1. v = Finish(x, c)
  BY DEF Read
<1>2. Message(s) /\ Message(q)
  BY ONLY address \in Addresses, reg \in 0..(Registers - 1), MessageFacts
<1>3. /\ Len(s) = 2 /\ s[1] = 2 * address /\ s[2] = reg /\ s[1] % 2 # 1 /\ s[1] \div 2 = address
      /\ Len(q) = 1 /\ q[1] = 2 * address + 1 /\ q[1] % 2 = 1 /\ q[1] \div 2 = address
  BY FirstByte
<1> HIDE DEF w, b, s, m, t, q, k, x, c
<1>4. Sound(w) /\ Live(w) /\ High(w) /\ w.dev = dev /\ w.fault = fault /\ w.got = <<>>
  BY <1>0, WiresFacts
<1>5. Keeps(w, b) /\ (Live(b) => Addressed(b)) /\ Sound(b) /\ b.fault = fault /\ b.got = <<>>
  BY <1>0, <1>4, BegunFacts DEF Keeps
<1>6. m \in Told(b, s, 2)
  <2>1. WriteBytes(b, s) \in Told(b, s, Len(s))
    BY ONLY <1>2, <1>5, AllBytes
  <2>2. QED
    BY <1>0, <1>3, <2>1
<1>7. /\ Sound(m) /\ m.fault = fault /\ m.got = <<>> /\ Wholly(b, m) /\ (~Live(b) => m = b)
      /\ fault.kind = "none" /\ Live(b) /\ address = Address => Live(m)
      /\ Live(m) => m.scl /\ Answered(b, s, 2, m.dev)
  BY <1>3, <1>5, <1>6 DEF Told
<1>8. Keeps(m, t) /\ (Live(t) => Addressed(t)) /\ Sound(t) /\ t.fault = fault /\ t.got = <<>>
  BY <1>0, <1>7, StartConditionFacts DEF Keeps
<1>9. k \in Told(t, q, 1)
  <2>1. WriteBytes(t, q) \in Told(t, q, Len(q))
    BY ONLY <1>2, <1>8, AllBytes
  <2>2. QED
    BY <1>0, <1>3, <2>1
<1>10. /\ Sound(k) /\ k.fault = fault /\ k.got = <<>> /\ Wholly(t, k) /\ (~Live(t) => k = t)
       /\ fault.kind = "none" /\ Live(t) /\ address = Address => Live(k)
       /\ Live(k) => k.scl /\ Answered(t, q, 1, k.dev)
  BY <1>3, <1>8, <1>9 DEF Told
<1>11. ASSUME Live(k)
       PROVE  Turned(k, reg) /\ k.dev.mem = dev.mem
  <2>1. Live(t) /\ Live(m) /\ Live(b) /\ fault.kind # "sda" /\ m.scl
    BY <1>5, <1>7, <1>8, <1>10, <1>11 DEF Keeps, Addressed
  <2>2. Answered(b, s, 2, m.dev) /\ m.dev.mem = b.dev.mem /\ m.dev.reg = At(reg, 1)
    BY <1>3, <1>7, <2>1 DEF Answered, Filled
  <2>3. Receives(m.dev) /\ m.dev.slot = "data"
    <3>1. Answered(b, s, 2, m.dev) /\ 2 >= 1 /\ 2 \in Nat
      BY <2>2
    <3>2. QED
      BY ONLY <1>3, <1>7, <2>1, <3>1, AnsweredQuits
  <2>4. SameStore(m.dev, t.dev)
    BY <1>0, <1>7, <2>1, <2>3, RepeatedStart
  <2>5. t.dev.mem = dev.mem /\ t.dev.reg = At(reg, 1)
    BY <1>4, <1>5, <2>1, <2>2, <2>4 DEF Keeps, SameStore
  <2>6. /\ k.dev.slot = "data" /\ k.dev.bits = 0 /\ k.dev.mode = "read" /\ k.dev.mem = t.dev.mem
        /\ k.dev.value = t.dev.mem[t.dev.reg] /\ k.dev.reg = Following(t.dev.reg)
        /\ k.dev.low <=> BitOf(t.dev.mem[t.dev.reg], 1) = 0
    BY <1>3, <1>10, <1>11 DEF Answered
  <2>7. Following(At(reg, 1)) = At(reg, 2)
    BY AtFacts
  <2>8. k.dev.mem = dev.mem /\ k.dev.value = k.dev.mem[At(reg, 1)] /\ k.dev.reg = At(reg, 2)
        /\ (k.dev.low <=> BitOf(k.dev.value, 1) = 0)
    BY <2>5, <2>6, <2>7
  <2>9. QED
    BY <1>10, <1>11, <2>1, <2>6, <2>8 DEF Turned, Talking
<1>12. x \in Fetched(k, reg, length, length)
  BY <1>0, <1>10, <1>11, AllBytesRead
<1>13. /\ Sound(x) /\ x.fault = fault /\ x.dev.mem = k.dev.mem /\ (~Live(k) => x = k)
       /\ fault.kind = "none" /\ Live(k) => Live(x)
       /\ Live(x) => /\ x.scl /\ x.got = [j \in 1..length |-> k.dev.mem[At(reg, j)]]
                     /\ x.dev.mode = "idle"
  BY <1>10, <1>12 DEF Fetched
<1>14. Live(x) => Quits(x)
  BY <1>13 DEF Quits, Sound, Phase
<1>15. Ended(x, v) /\ (fault.kind = "none" /\ Live(x) => Live(v))
  BY <1>1, <1>0, <1>13, <1>14, FinishFacts
<1>16. Sound(v) /\ v.fault = fault /\ v.dev.mem = x.dev.mem /\ v.got = x.got /\ (Live(v) => Live(x))
  BY <1>13, <1>15 DEF Ended, SameStore
<1>17. ASSUME fault.kind # "sda", NEW r \in 0..(Registers - 1)
       PROVE  v.dev.mem[r] = dev.mem[r] \/ v.dev.mem[r] \in Bytes
  <2>1. b.dev.mem = dev.mem /\ t.dev.mem = m.dev.mem
    BY <1>4, <1>5, <1>7, <1>8, <1>17 DEF Keeps
  <2>2. (m.dev.mem[r] = dev.mem[r] \/ m.dev.mem[r] \in Bytes) /\ (k.dev.mem[r] = m.dev.mem[r] \/ k.dev.mem[r] \in Bytes)
    BY <1>7, <1>10, <2>1 DEF Wholly
  <2>3. QED
    BY <1>13, <1>16, <2>2
<1>18. fault.kind = "none" /\ address = Address => Live(v)
  BY <1>4, <1>5, <1>7, <1>8, <1>10, <1>13, <1>15 DEF Keeps
<1>19. ASSUME Live(v) PROVE v.got = [i \in 1..length |-> dev.mem[At(reg, i)]]
  <2>1. Live(x) /\ Live(k)
    BY <1>13, <1>16, <1>19
  <2>2. k.dev.mem = dev.mem
    BY <1>11, <2>1
  <2>3. QED
    BY <1>13, <1>16, <2>1, <2>2
<1>20. QED
  BY <1>16, <1>17, <1>18, <1>19

-----------------------------------------------------------------------------
(* The specification. *)

\* What holds between transactions: besides its type, the device agrees with
\* a clock that is high.
BusInv == BusTypeOK /\ Phase(device, TRUE) /\ CleanSucceeds /\ OkIsTrue

LEMMA BusInvInit == BusInit => BusInv
<1> SUFFICES ASSUME NEW mem \in Mem, device = Asleep(mem), last = None
             PROVE  BusInv
  BY DEF BusInit
<1>1. mem \in [0..(Registers - 1) -> Byte]
  BY I2cAssumption DEF Mem
<1>2. 0 \in 0..Bits /\ 0 \in Byte /\ 0 \in 0..(Registers - 1)
  BY Sizes, WeightIs, I2cAssumption DEF Byte
<1>3. BusTypeOK
  BY <1>1, <1>2 DEF BusTypeOK, Asleep, None
<1>4. Phase(device, TRUE)
  BY DEF Phase, Asleep, Receives
<1>5. QED
  BY <1>3, <1>4 DEF BusInv, CleanSucceeds, OkIsTrue, None

\* The record of how a transaction ended.
LEMMA LastIs ==
  ASSUME NEW clean \in BOOLEAN, NEW held \in BOOLEAN, NEW ok \in BOOLEAN, NEW true \in BOOLEAN,
         last' = [clean |-> clean, held |-> held, ok |-> ok, true |-> true]
  PROVE  /\ last' \in [clean : BOOLEAN, held : BOOLEAN, ok : BOOLEAN, true : BOOLEAN]
         /\ (last'.clean <=> clean) /\ (last'.held <=> held) /\ (last'.ok <=> ok) /\ (last'.true <=> true)
OBVIOUS

\* What makes the end of a transaction good.
LEMMA Outcome ==
  ASSUME BusInv, NEW w, Sound(w), device' \in Endings(w),
         last' \in [clean : BOOLEAN, held : BOOLEAN, ok : BOOLEAN, true : BOOLEAN],
         last'.clean => last'.ok, last'.true,
         ~last'.held => \A r \in 0..(Registers - 1) : w.dev.mem[r] = device.mem[r] \/ w.dev.mem[r] \in Bytes
  PROVE  BusInv' /\ Whole
<1>1. Resting(device') /\ SameStore(w.dev, device')
  BY EndingsFacts
<1>2. BusTypeOK'
  BY <1>1 DEF BusTypeOK, Resting, Device
<1>3. BusInv'
  BY <1>1, <1>2 DEF BusInv, CleanSucceeds, OkIsTrue, Resting
<1>4. Whole
  <2>1. DOMAIN device.mem = 0..(Registers - 1)
    BY DEF BusInv, BusTypeOK
  <2>2. device'.mem = w.dev.mem
    BY <1>1 DEF SameStore
  <2>3. ASSUME NEW i \in DOMAIN device.mem, device'.mem[i] # device.mem[i]
        PROVE  device'.mem[i] \in Bytes \/ last'.held
    BY <2>1, <2>2, <2>3
  <2>4. QED
    BY <2>3 DEF Whole
<1>5. QED
  BY <1>3, <1>4

LEMMA Rests == BusInv => Resting(device)
BY DEF BusInv, BusTypeOK, Resting, Device

\* One lemma for each action.
LEMMA WriteRegsStep ==
  ASSUME BusInv, NEW fault \in Faults, NEW address \in Addresses, NEW reg \in 0..(Registers - 1),
         NEW values \in Values, WriteRegs(address, reg, values, fault)
  PROVE  BusInv' /\ Whole
<1>0. Resting(device)
  BY Rests
<1> DEFINE rest == <<reg>> \o values
           s == <<2 * address>> \o rest
           b == Begun(Wires(device, fault))
           w == Finish(WriteBytes(b, s), Ok(b))
           told == /\ address = Address
                   /\ \A i \in DOMAIN values : i + Registers > Len(values) => device'.mem[At(reg, i)] = values[i]
<1> DEFINE clean == fault.kind = "none" /\ address = Address
           held == fault.kind = "sda"
           ok == Ok(w) /\ ~w.cut
           true == ok => told
<1>1. device' \in Endings(w) /\ last' = [clean |-> clean, held |-> held, ok |-> ok, true |-> true]
  BY Zenon DEF WriteRegs, Ends, Written
<1>2. /\ last' \in [clean : BOOLEAN, held : BOOLEAN, ok : BOOLEAN, true : BOOLEAN]
      /\ (last'.clean <=> clean) /\ (last'.held <=> held) /\ (last'.ok <=> ok) /\ (last'.true <=> true)
  <2>1. clean \in BOOLEAN /\ held \in BOOLEAN /\ ok \in BOOLEAN /\ true \in BOOLEAN
    OBVIOUS
  <2> HIDE DEF clean, held, ok, true
  <2>2. QED
    BY ONLY <1>1, <2>1, LastIs
<1>3. /\ rest \in Text /\ Len(rest) = Len(values) + 1 /\ Len(values) \in Nat /\ rest[1] = reg
      /\ DOMAIN values = 1..Len(values)
      /\ \A j \in 1..Len(values) : rest[j + 1] = values[j] /\ values[j] \in Bytes
  <2>1. rest = Before(reg, values)
    BY DEF Before
  <2> HIDE DEF rest
  <2>2. reg \in Byte
    BY ONLY address \in Addresses, reg \in 0..(Registers - 1), MessageFacts
  <2>3. QED
    BY ONLY <2>1, <2>2, values \in Values, RegisterAndValues
<1>4. Message(s) /\ Len(s) = Len(rest) + 1 /\ s[1] = 2 * address /\ \A j \in 1..Len(rest) : s[j + 1] = rest[j]
  <2> DEFINE a == 2 * address
  <2>1. s = Before(a, rest) /\ a = 2 * address /\ a \in Byte /\ a % 2 # 1
    BY FirstByte DEF Before
  <2> HIDE DEF a, s, rest, b, w, clean, held, ok, true, told
  <2>2. Len(rest) >= 1 /\ rest[1] \in 0..(Registers - 1)
    BY <1>3
  <2>3. ASSUME NEW j \in 2..Len(rest) PROVE rest[j] \in Bytes
    <3>1. j - 1 \in 1..Len(values) /\ (j - 1) + 1 = j
      BY ONLY <1>3, j \in 2..Len(rest)
    <3>2. QED
      BY ONLY <1>3, <3>1
  <2>4. Message(s) /\ Len(s) = Len(rest) + 1 /\ s[1] = a /\ \A j \in 1..Len(rest) : s[j + 1] = rest[j]
    BY ONLY <1>3, <2>1, <2>2, <2>3, WriteMessage
  <2>5. QED
    BY <2>1, <2>4
<1>5. /\ Sound(w)
      /\ fault.kind # "sda" => \A r \in 0..(Registers - 1) : w.dev.mem[r] = device.mem[r] \/ w.dev.mem[r] \in Bytes
      /\ fault.kind = "none" /\ address = Address => Live(w)
      /\ Live(w) => /\ address = Address
                    /\ \A j \in 1..(Len(s) - 2) : Len(s) - 2 < j + Registers => w.dev.mem[At(s[2], j)] = s[j + 2]
  <2>1. b = Begun(Wires(device, fault)) /\ w = Finish(WriteBytes(b, s), Ok(b))
    OBVIOUS
  <2> HIDE DEF rest, s, b, w, told
  <2>2. QED
    BY ONLY <1>0, <1>4, <2>1, fault \in Faults, address \in Addresses, WrittenFacts
<1> HIDE DEF rest, s, b, w
<1>6. device'.mem = w.dev.mem
  BY <1>1, <1>5, EndingsFacts DEF SameStore
<1>7. Live(w) => told
  <2>1. SUFFICES ASSUME Live(w), NEW i \in DOMAIN values, i + Registers > Len(values)
                 PROVE  address = Address /\ device'.mem[At(reg, i)] = values[i]
    <3>1. Live(w) => address = Address
      BY <1>5
    <3>2. QED
      BY <3>1
  <2>2. i \in 1..Len(values) /\ i \in 1..(Len(s) - 2) /\ Len(s) - 2 < i + Registers /\ i + 1 \in 1..Len(rest)
        /\ 1 \in 1..Len(rest) /\ (i + 1) + 1 = i + 2 /\ 1 + 1 = 2
    BY ONLY <1>3, <1>4, <2>1, Sizes
  <2>3. s[2] = reg /\ s[i + 2] = values[i]
    BY ONLY <1>3, <1>4, <2>2
  <2>4. w.dev.mem[At(s[2], i)] = s[i + 2] /\ address = Address
    BY <1>5, <2>1, <2>2
  <2>5. QED
    BY <1>6, <2>3, <2>4
<1>8. told \in BOOLEAN
  OBVIOUS
<1> HIDE DEF told
<1>9. Live(w) <=> ok
  BY <1>5, WireFacts DEF Sound
<1>10. (clean => ok) /\ true /\ (~held => \A r \in 0..(Registers - 1) : w.dev.mem[r] = device.mem[r] \/ w.dev.mem[r] \in Bytes)
  BY <1>5, <1>7, <1>9
<1> HIDE DEF clean, held, ok, true
<1>11. QED
  BY ONLY BusInv, <1>1, <1>5, <1>2, <1>10, Outcome

LEMMA WriteStreamStep ==
  ASSUME BusInv, NEW fault \in Faults, NEW address \in Addresses, WriteStream(address, fault)
  PROVE  BusInv' /\ Whole
<1> DEFINE rest == <<>>
           s == <<2 * address>> \o rest
           b == Begun(Wires(device, fault))
           w == Finish(WriteBytes(b, s), Ok(b))
           told == address = Address
<1>0. Resting(device)
  BY Rests
<1> DEFINE clean == fault.kind = "none" /\ address = Address
           held == fault.kind = "sda"
           ok == Ok(w) /\ ~w.cut
           true == ok => told
<1>1. device' \in Endings(w) /\ last' = [clean |-> clean, held |-> held, ok |-> ok, true |-> true]
  BY Zenon DEF WriteStream, Ends, Written
<1>2. /\ last' \in [clean : BOOLEAN, held : BOOLEAN, ok : BOOLEAN, true : BOOLEAN]
      /\ (last'.clean <=> clean) /\ (last'.held <=> held) /\ (last'.ok <=> ok) /\ (last'.true <=> true)
  <2>1. clean \in BOOLEAN /\ held \in BOOLEAN /\ ok \in BOOLEAN /\ true \in BOOLEAN
    OBVIOUS
  <2> HIDE DEF clean, held, ok, true
  <2>2. QED
    BY ONLY <1>1, <2>1, LastIs
<1>3. Message(s) /\ s[1] = 2 * address
  <2>1. <<2 * address>> \o <<>> = <<2 * address>>
    OBVIOUS
  <2>2. 0 \in 0..(Registers - 1)
    BY Sizes
  <2>3. Message(<<2 * address>>)
    BY ONLY address \in Addresses, <2>2, MessageFacts
  <2>4. QED
    BY <2>1, <2>3
<1>4. /\ Sound(w)
      /\ fault.kind # "sda" => \A r \in 0..(Registers - 1) : w.dev.mem[r] = device.mem[r] \/ w.dev.mem[r] \in Bytes
      /\ fault.kind = "none" /\ address = Address => Live(w)
      /\ Live(w) => address = Address
  <2>1. b = Begun(Wires(device, fault)) /\ w = Finish(WriteBytes(b, s), Ok(b))
    OBVIOUS
  <2> HIDE DEF rest, s, b, w, told
  <2>2. QED
    BY ONLY <1>0, <1>3, <2>1, fault \in Faults, address \in Addresses, WrittenFacts
<1>5. told \in BOOLEAN /\ (Live(w) => told)
  BY <1>4
<1> HIDE DEF rest, s, b, w, told
<1>6. Live(w) <=> ok
  BY <1>4, WireFacts DEF Sound
<1>7. (clean => ok) /\ true /\ (~held => \A r \in 0..(Registers - 1) : w.dev.mem[r] = device.mem[r] \/ w.dev.mem[r] \in Bytes)
  BY <1>4, <1>5, <1>6
<1> HIDE DEF clean, held, ok, true
<1>8. QED
  BY ONLY BusInv, <1>1, <1>4, <1>2, <1>7, Outcome

LEMMA ReadRegsStep ==
  ASSUME BusInv, NEW fault \in Faults, NEW address \in Addresses, NEW reg \in 0..(Registers - 1),
         NEW length \in 1..MaxRead, ReadRegs(address, reg, length, fault)
  PROVE  BusInv' /\ Whole
<1> DEFINE w == Read(Wires(device, fault), address, reg, length)
           told == w.got = [i \in 1..length |-> device.mem[At(reg, i)]]
<1>0. length \in Nat /\ length > 0 /\ Resting(device)
  BY Rests, I2cAssumption
<1> DEFINE clean == fault.kind = "none" /\ address = Address
           held == fault.kind = "sda"
           ok == Ok(w) /\ ~w.cut
           true == ok => told
<1>1. device' \in Endings(w) /\ last' = [clean |-> clean, held |-> held, ok |-> ok, true |-> true]
  BY Zenon DEF ReadRegs, Ends
<1>2. /\ last' \in [clean : BOOLEAN, held : BOOLEAN, ok : BOOLEAN, true : BOOLEAN]
      /\ (last'.clean <=> clean) /\ (last'.held <=> held) /\ (last'.ok <=> ok) /\ (last'.true <=> true)
  <2>1. clean \in BOOLEAN /\ held \in BOOLEAN /\ ok \in BOOLEAN /\ true \in BOOLEAN
    OBVIOUS
  <2> HIDE DEF clean, held, ok, true
  <2>2. QED
    BY ONLY <1>1, <2>1, LastIs
<1>3. told \in BOOLEAN /\ w = Read(Wires(device, fault), address, reg, length)
      /\ (told <=> w.got = [i \in 1..length |-> device.mem[At(reg, i)]])
  OBVIOUS
<1> HIDE DEF w, told
<1>4. /\ Sound(w)
      /\ fault.kind # "sda" => \A r \in 0..(Registers - 1) : w.dev.mem[r] = device.mem[r] \/ w.dev.mem[r] \in Bytes
      /\ fault.kind = "none" /\ address = Address => Live(w)
      /\ Live(w) => w.got = [i \in 1..length |-> device.mem[At(reg, i)]]
  BY ONLY <1>0, <1>3, fault \in Faults, address \in Addresses, reg \in 0..(Registers - 1), ReadFacts
<1>5. Live(w) => told
  BY <1>3, <1>4
<1>6. Live(w) <=> ok
  BY <1>4, WireFacts DEF Sound
<1>7. (clean => ok) /\ true /\ (~held => \A r \in 0..(Registers - 1) : w.dev.mem[r] = device.mem[r] \/ w.dev.mem[r] \in Bytes)
  BY <1>4, <1>5, <1>6
<1> HIDE DEF clean, held, ok, true
<1>8. QED
  BY ONLY BusInv, <1>1, <1>4, <1>2, <1>7, Outcome

LEMMA PrepareForSleepStep ==
  ASSUME BusInv, NEW fault \in Faults, PrepareForSleep(fault)
  PROVE  BusInv' /\ Whole
<1> DEFINE z == Wires(device, fault)
           p == PrepareBus(z)
           w == ReleaseLines(p)
           f == Fails(w, "BUS_LOCKED")
           c == IF Ok(w) /\ ~w.cut THEN IF Sda(w) = 1 /\ Scl(w) = 1 THEN w ELSE f ELSE w
           told == ~device'.low
<1>0. Resting(device)
  BY Rests
<1> DEFINE clean == fault.kind = "none" /\ Address = Address
           held == fault.kind = "sda"
           ok == Ok(c) /\ ~c.cut
           true == ok => told
<1>1. device' \in Endings(c) /\ last' = [clean |-> clean, held |-> held, ok |-> ok, true |-> true]
  BY Zenon DEF PrepareForSleep, Ends, Then
<1>2. /\ last' \in [clean : BOOLEAN, held : BOOLEAN, ok : BOOLEAN, true : BOOLEAN]
      /\ (last'.clean <=> clean) /\ (last'.held <=> held) /\ (last'.ok <=> ok) /\ (last'.true <=> true)
  <2>1. clean \in BOOLEAN /\ held \in BOOLEAN /\ ok \in BOOLEAN /\ true \in BOOLEAN
    OBVIOUS
  <2> HIDE DEF clean, held, ok, true
  <2>2. QED
    BY ONLY <1>1, <2>1, LastIs
<1>3. z = Wires(device, fault) /\ p = PrepareBus(z) /\ w = ReleaseLines(p) /\ f = Fails(w, "BUS_LOCKED")
      /\ c = (IF Ok(w) /\ ~w.cut THEN IF Sda(w) = 1 /\ Scl(w) = 1 THEN w ELSE f ELSE w)
      /\ told \in BOOLEAN
  OBVIOUS
<1> HIDE DEF z, p, w, f, c
<1>4. Sound(z) /\ Live(z) /\ z.dev = device /\ z.fault = fault
  BY <1>0, <1>3, WiresFacts
<1>5. Keeps(z, p) /\ (Live(p) => Free(p) /\ z.fault.kind # "sda")
  BY <1>3, <1>4, PrepareBusFacts
<1>6. Sound(p) /\ p.fault = fault /\ p \in Wire /\ (Live(p) => High(p) /\ ~p.sda /\ ~p.dev.low /\ fault.kind # "sda")
  BY <1>4, <1>5, WireFacts DEF Keeps, Free, Sound
<1>7. /\ Sound(w) /\ Same(p, w) /\ SameEnd(p, w) /\ SameStore(p.dev, w.dev) /\ w \in Wire
      /\ ~p.cut => ~w.sda /\ ~w.scl
      /\ ~p.cut /\ High(p) /\ ~p.sda => High(w) /\ w.dev = p.dev
  BY <1>3, <1>6, ReleaseLinesFacts DEF Sound
<1>8. Sound(f) /\ f.dev = w.dev /\ (~w.cut => f.status = "BUS_LOCKED") /\ f.fault = w.fault
  <2>1. "BUS_LOCKED" \in {"OK", "TIMEOUT", "NACK", "BUS_LOCKED"}
    OBVIOUS
  <2>2. QED
    BY <1>3, <1>7, <2>1, FailsFacts DEF Same
<1>9. Live(p) => Live(w) /\ High(w) /\ ~w.dev.low /\ ~w.sda /\ w.fault.kind # "sda" /\ Sda(w) = 1 /\ Scl(w) = 1
  <2>1. SUFFICES ASSUME Live(p)
                 PROVE Live(w) /\ High(w) /\ ~w.dev.low /\ ~w.sda /\ w.fault.kind # "sda" /\ Sda(w) = 1 /\ Scl(w) = 1
    OBVIOUS
  <2>2. Live(w) /\ High(w) /\ ~w.dev.low /\ ~w.sda /\ w.fault.kind # "sda"
    BY <1>6, <1>7, <2>1 DEF Live, Same, SameEnd
  <2>3. QED
    BY <1>7, <2>2, WireFacts
<1>10. (Live(w) <=> Live(p)) /\ (Ok(w) /\ ~w.cut <=> Live(w))
  BY <1>7, WireFacts DEF Live, SameEnd
<1>11. c = w
  BY <1>3, <1>9, <1>10
<1>12. Live(w) => told
  <2>1. Live(w) => device' = w.dev
    BY <1>1, <1>7, <1>9, <1>10, <1>11, EndingsFacts DEF Live
  <2>2. QED
    BY <1>9, <1>10, <2>1
<1>13. fault.kind = "none" /\ Address = Address => Live(w)
  BY <1>4, <1>5, <1>10 DEF Keeps
<1>14. fault.kind # "sda" => \A r \in 0..(Registers - 1) : w.dev.mem[r] = device.mem[r] \/ w.dev.mem[r] \in Bytes
  BY <1>4, <1>5, <1>7 DEF Keeps, SameStore
<1> HIDE DEF told
<1>15. (clean => ok) /\ true /\ (~held => \A r \in 0..(Registers - 1) : w.dev.mem[r] = device.mem[r] \/ w.dev.mem[r] \in Bytes)
  BY <1>10, <1>11, <1>12, <1>13, <1>14
<1>16. Sound(w) /\ device' \in Endings(w)
  BY <1>1, <1>7, <1>11
<1> HIDE DEF clean, held, ok, true
<1>17. QED
  BY ONLY BusInv, <1>16, <1>2, <1>15, Outcome

LEMMA BusStep == BusInv /\ [BusNext]_busVars => BusInv' /\ [Whole]_busVars
<1> SUFFICES ASSUME BusInv, [BusNext]_busVars PROVE BusInv' /\ [Whole]_busVars
  OBVIOUS
<1>1. CASE BusNext
  <2>1. PICK fault \in Faults :
            \/ \E address \in Addresses, reg \in 0..(Registers - 1), values \in Values :
                  WriteRegs(address, reg, values, fault)
            \/ \E address \in Addresses : WriteStream(address, fault)
            \/ \E address \in Addresses, reg \in 0..(Registers - 1), n \in 1..MaxRead :
                  ReadRegs(address, reg, n, fault)
            \/ PrepareForSleep(fault)
    BY <1>1, Zenon DEF BusNext
  <2>2. BusInv' /\ Whole
    BY <2>1, WriteRegsStep, WriteStreamStep, ReadRegsStep, PrepareForSleepStep
  <2>3. QED
    BY <2>2
<1>2. CASE UNCHANGED busVars
  <2>1. BusInv'
    BY <1>2 DEF busVars, BusInv, BusTypeOK, CleanSucceeds, OkIsTrue
  <2>2. QED
    BY <1>2, <2>1
<1>3. QED
  BY <1>1, <1>2

\* The device and the record of the last transaction stay in their types,
\* wherever the adapter stops driving the lines.
THEOREM BusTypeAlways == BusSpec => []BusTypeOK
<1>1. BusInv => BusTypeOK
  BY DEF BusInv
<1>2. QED
  BY <1>1, BusInvInit, BusStep, PTL DEF BusSpec

\* From whatever place the bus was left in, the next transaction without a
\* fault succeeds: Pulses > Bits pulses and a STOP free any device.
THEOREM CleanSucceedsAlways == BusSpec => []CleanSucceeds
<1>1. BusInv => CleanSucceeds
  BY DEF BusInv
<1>2. QED
  BY <1>1, BusInvInit, BusStep, PTL DEF BusSpec

\* A transaction answers EV_I2C_OK only when what was written is in the
\* registers, what was read is what they had, or the lines are free.
THEOREM OkIsTrueAlways == BusSpec => []OkIsTrue
<1>1. BusInv => OkIsTrue
  BY DEF BusInv
<1>2. QED
  BY <1>1, BusInvInit, BusStep, PTL DEF BusSpec

\* No transaction and no recovery completes a byte that was broken off,
\* unless SDA is held low from outside.
THEOREM NoTornByteAlways == BusSpec => NoTornByte
BY BusInvInit, BusStep, PTL DEF BusSpec, NoTornByte
=============================================================================
