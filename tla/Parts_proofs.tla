----------------------------- MODULE Parts_proofs -----------------------------
(***************************************************************************)
(* Proofs about parts that share no variable: the round-robin of the       *)
(* pumps for any number of members, the telemetry interval, the two        *)
(* messages deep sleep takes, the watchdog, and the buttons.               *)
(***************************************************************************)
EXTENDS Commands, Telemetry, Watchdog, OvertakeBound, Buttons, TLAPS

-----------------------------------------------------------------------------
(* The pumps' round-robin.  The inductive invariant is HTypeOK /\ Order:    *)
(* Order says where in the scan the members that overtook a waiting one     *)
(* stand, which the bound itself does not.                                  *)

HVars == <<vars, passed>>

-----------------------------------------------------------------------------
\* The cursor and the distance stay within the members.
LEMMA FollowingType == ASSUME NEW m \in Members PROVE Following(m) \in Members
  BY FairTurnsAssumption DEF Following, Members

\* Two members are at different distances, all below N.
LEMMA DistanceFacts ==
  ASSUME NEW k \in Members, NEW m \in Members, NEW c \in Members
  PROVE  /\ Distance(m, c) \in Members
         /\ Distance(m, c) = Distance(k, c) => m = k
  BY FairTurnsAssumption DEF Distance, Members

\* Moving the cursor just behind s brings those farther than s nearer, keeps
\* their order, and sends s itself to the end of the scan.
LEMMA CursorMoves ==
  ASSUME NEW k \in Members, NEW m \in Members, NEW s \in Members, NEW c \in Members,
         Distance(s, c) < Distance(m, c)
  PROVE  /\ Distance(m, Following(s)) < Distance(m, c)
         /\ Distance(m, Following(s)) < Distance(s, Following(s))
         /\ Distance(m, c) < Distance(k, c)
              => Distance(m, Following(s)) < Distance(k, Following(s))
  BY FairTurnsAssumption DEF Distance, Following, Members

-----------------------------------------------------------------------------
LEMMA TypeStep == HTypeOK /\ [HNext]_HVars => HTypeOK'
<1> SUFFICES ASSUME HTypeOK, [HNext]_HVars PROVE HTypeOK'
  OBVIOUS
<1> USE DEF HTypeOK, TypeOK
<1>1. CASE HArrive
  BY <1>1 DEF HArrive, Arrive, StillWaiting
<1>2. ASSUME NEW k \in Members, HGrant(k) PROVE HTypeOK'
  BY <1>2 DEF HGrant, Grant, StillWaiting
<1>3. CASE HFinish
  <2>1. Following(serving) \in Members
    BY <1>3, FollowingType DEF HFinish, Finish
  <2>2. QED
    BY <1>3, <2>1 DEF HFinish, Finish, StillWaiting
<1>4. CASE UNCHANGED HVars
  BY <1>4 DEF HVars, vars
<1>5. QED
  BY <1>1, <1>2, <1>3, <1>4 DEF HNext

LEMMA OrderStep == HTypeOK /\ Order /\ [HNext]_HVars => Order'
<1> SUFFICES ASSUME HTypeOK, Order, [HNext]_HVars PROVE Order'
  OBVIOUS
<1>0. HTypeOK' /\ Nobody \notin Members
  BY TypeStep DEF Nobody, Members
<1>1. CASE HArrive
  <2>1. ASSUME NEW m \in Members, passed'[m] # {}
        PROVE  m \in waiting' /\ passed'[m] = passed[m]
    BY <1>1, <2>1 DEF HArrive, StillWaiting
  <2>2. UNCHANGED <<cursor, serving>>
    BY <1>1 DEF HArrive, Arrive
  <2>3. QED
    BY <2>1, <2>2 DEF Order, Behind
<1>2. ASSUME NEW s \in Members, HGrant(s) PROVE Order'
  <2>1. serving = Nobody /\ serving' = s /\ cursor' = cursor /\ waiting' = waiting
    BY <1>2 DEF HGrant, Grant
  <2>2. \A m \in Members :
           passed'[m] = IF m \in waiting /\ m # s THEN passed[m] \cup {s} ELSE {}
    BY <1>2, <2>1 DEF HGrant, StillWaiting
  <2>3. ASSUME NEW m \in Members, m \in waiting, m # s
        PROVE  Distance(s, cursor) < Distance(m, cursor)
    <3>1. Distance(s, cursor) <= Distance(m, cursor)
      BY <1>2, <2>3 DEF HGrant, Grant
    <3>2. Distance(s, cursor) # Distance(m, cursor)
      BY <2>3, DistanceFacts DEF HTypeOK, TypeOK
    <3>3. Distance(s, cursor) \in Int /\ Distance(m, cursor) \in Int
      BY DistanceFacts DEF HTypeOK, TypeOK, Members
    <3>4. QED
      BY <3>1, <3>2, <3>3
  <2>4. ASSUME NEW m \in Members PROVE Behind(m)'
    <3>1. passed'[m] \ {s} \subseteq passed[m] /\ passed[m] \ {Nobody} = passed[m]
      BY <1>0, <2>2 DEF HTypeOK
    <3>2. QED
      BY <2>1, <3>1 DEF Order, Behind
  <2>5. QED
    BY <2>1, <2>2, <2>3, <2>4 DEF Order
<1>3. CASE HFinish
  <2>1. /\ serving \in Members /\ serving' = Nobody /\ waiting' = waiting
        /\ cursor' = Following(serving)
    BY <1>3 DEF HFinish, Finish, HTypeOK, TypeOK
  <2>2. ASSUME NEW m \in Members, passed'[m] # {}
        PROVE  m \in waiting \ {serving} /\ passed'[m] = passed[m]
    BY <1>3, <2>1, <2>2 DEF HFinish, StillWaiting, Order
  <2>3. ASSUME NEW m \in Members, NEW k \in passed'[m]
        PROVE  Distance(m, cursor') < Distance(k, cursor')
    <3>1. k \in passed[m] /\ k \in Members /\ cursor \in Members
      BY <2>2, <2>3 DEF HTypeOK, TypeOK
    <3>2. Distance(serving, cursor) < Distance(m, cursor)
      BY <1>0, <2>1, <3>1 DEF Order
    <3>3. CASE k = serving
      BY <2>1, <3>1, <3>2, <3>3, CursorMoves
    <3>4. CASE k # serving
      <4>1. Distance(m, cursor) < Distance(k, cursor)
        BY <3>1, <3>4 DEF Order, Behind
      <4>2. QED
        BY <2>1, <3>1, <3>2, <4>1, CursorMoves
    <3>5. QED
      BY <3>3, <3>4
  <2>4. \A m \in Members : passed'[m] # {} => m \in waiting' \ {serving'}
    BY <1>0, <2>1, <2>2
  <2>5. QED
    BY <2>1, <2>3, <2>4 DEF Order, Behind
<1>4. CASE UNCHANGED HVars
  BY <1>4 DEF HVars, vars, Order, Behind
<1>5. QED
  BY <1>1, <1>2, <1>3, <1>4 DEF HNext

\* Every reachable state, of any number of members, has the order.
THEOREM OrderAlways == HSpec => [](HTypeOK /\ Order)
<1>1. HInit => HTypeOK /\ Order
  BY FairTurnsAssumption
     DEF HInit, Init, HTypeOK, TypeOK, Order, Behind, Members, Nobody
<1>2. HTypeOK /\ Order /\ [HNext]_HVars => (HTypeOK /\ Order)'
  BY TypeStep, OrderStep
<1>3. QED
  BY <1>1, <1>2, PTL DEF HSpec, HVars

\* The bound itself: a member that overtook a waiting one gets no second turn
\* before it.  It would have to be nearer than a member it stands behind.
THEOREM OvertakenOnce == HSpec => NoSecondTurn
<1> DEFINE Bound == \A k, m \in Members :
                       serving = Nobody /\ serving' = k /\ m \in waiting /\ m # k
                          => k \notin passed[m]
<1>1. HTypeOK /\ Order /\ [HNext]_HVars => [Bound]_HVars
  <2> SUFFICES ASSUME HTypeOK, Order, HNext,
                      NEW k \in Members, NEW m \in Members,
                      serving = Nobody, serving' = k, m \in waiting, m # k,
                      k \in passed[m]
               PROVE  FALSE
    BY DEF Bound
  <2>1. Nobody \notin Members
    BY DEF Nobody, Members
  <2>2. PICK s \in Members : HGrant(s)
    BY <2>1 DEF HNext, HArrive, Arrive, HFinish, Finish
  <2>3. Distance(k, cursor) <= Distance(m, cursor)
    BY <2>2 DEF HGrant, Grant
  <2>4. Distance(m, cursor) < Distance(k, cursor)
    BY <2>1 DEF Order, Behind
  <2>5. Distance(m, cursor) \in Int /\ Distance(k, cursor) \in Int
    BY DistanceFacts DEF HTypeOK, TypeOK, Members
  <2>6. QED
    BY <2>3, <2>4, <2>5
<1>2. QED
  BY OrderAlways, <1>1, PTL DEF HSpec, HVars, NoSecondTurn

\* No turn lets the cursor jump over a member that is still to be served.
THEOREM NearerAlways == HSpec => NearerEachTurn
<1> DEFINE Nearer == \A m \in Members :
                        serving' # serving /\ serving # Nobody
                           /\ Distance(serving, cursor) < Distance(m, cursor)
                        => Distance(m, cursor') < Distance(m, cursor)
<1>1. HTypeOK /\ [HNext]_HVars => [Nearer]_vars
  <2> SUFFICES ASSUME HTypeOK, [HNext]_HVars, NEW m \in Members,
                      serving' # serving, serving # Nobody,
                      Distance(serving, cursor) < Distance(m, cursor)
               PROVE  Distance(m, cursor') < Distance(m, cursor)
    BY DEF Nearer
  <2>1. HFinish
    BY DEF HNext, HArrive, Arrive, HGrant, Grant, HVars, vars
  <2>2. serving \in Members /\ cursor \in Members /\ cursor' = Following(serving)
    BY <2>1 DEF HFinish, Finish, HTypeOK, TypeOK
  <2>3. QED
    BY <2>2, CursorMoves
<1>2. QED
  BY OrderAlways, <1>1, PTL DEF HSpec, HVars, NearerEachTurn

-----------------------------------------------------------------------------
(* Counters that wrap. *)

\* The remainder of a sum and of a difference is one subtraction or addition.
LEMMA WrappedSum ==
  ASSUME NEW n \in Nat \ {0}, NEW x \in 0..(n - 1), NEW y \in 0..n
  PROVE  (x + y) % n = (IF x + y < n THEN x + y ELSE x + y - n) /\ (x + y) % n \in 0..(n - 1)
<1>1. CASE x + y < n
  BY <1>1
<1>2. CASE ~(x + y < n)
  <2>1. (x + y) % n = x + y - n
    BY <1>2
  <2>2. QED
    BY <1>2, <2>1
<1>3. QED
  BY <1>1, <1>2

LEMMA WrappedDifference ==
  ASSUME NEW n \in Nat \ {0}, NEW x \in 0..(n - 1), NEW y \in 0..(n - 1)
  PROVE  (x - y) % n = (IF x < y THEN x - y + n ELSE x - y) /\ (x - y) % n \in 0..(n - 1)
<1>1. CASE x < y
  <2>1. (x - y + n) % n = (x - y) % n
    OBVIOUS
  <2>2. (x - y + n) % n = x - y + n
    BY <1>1
  <2>3. QED
    BY <1>1, <2>1, <2>2
<1>2. CASE ~(x < y)
  BY <1>2
<1>3. QED
  BY <1>1, <1>2

-----------------------------------------------------------------------------
(* Telemetry.  The history counter is the wrapped difference the code looks *)
(* at, as long as it is below the interval.                                 *)

TelemetryTypeOK ==
    /\ ticks \in 0..(TickValues - 1) /\ lastSent \in [Classes -> 0..(TickValues - 1)]
    /\ sinceSent \in [Classes -> 0..TelemetryInterval]

SinceIsDifference ==
    \A c \in Classes : sinceSent[c] < TelemetryInterval =>
        lastSent[c] # TickNever /\ (ticks - lastSent[c]) % TickValues = sinceSent[c]

LEMMA TelemetrySizes ==
  /\ TickValues \in Nat \ {0} /\ TelemetryInterval \in Nat
  /\ 1 <= TelemetryInterval /\ TelemetryInterval < TickValues
  /\ TickNever \in 0..(TickValues - 1) /\ TickNever \in Int
BY TelemetryAssumption DEF TickNever

\* One tick later the difference is one more, if it was below the interval.
LEMMA OneTickLater ==
  ASSUME NEW t \in 0..(TickValues - 1), NEW last \in 0..(TickValues - 1),
         (t - last) % TickValues < TelemetryInterval
  PROVE  /\ (t + 1) % TickValues \in 0..(TickValues - 1)
         /\ (((t + 1) % TickValues) - last) % TickValues = ((t - last) % TickValues) + 1
<1> DEFINE n == TickValues
           u == (t + 1) % n
           d == (t - last) % n
<1>1. /\ n \in Nat \ {0} /\ TelemetryInterval \in Nat /\ TelemetryInterval < n
      /\ d < TelemetryInterval /\ t \in 0..(n - 1) /\ last \in 0..(n - 1) /\ 1 \in 0..n
  BY TelemetrySizes
<1> HIDE DEF n
<1>2. u = (IF t + 1 < n THEN t + 1 ELSE t + 1 - n) /\ u \in 0..(n - 1)
  BY <1>1, WrappedSum
<1>3. d = IF t < last THEN t - last + n ELSE t - last
  BY <1>1, WrappedDifference
<1> HIDE DEF u, d
<1>4. (u - last) % n = IF u < last THEN u - last + n ELSE u - last
  <2>1. n \in Nat \ {0} /\ u \in 0..(n - 1) /\ last \in 0..(n - 1)
    BY <1>1, <1>2
  <2>2. QED
    BY ONLY <2>1, WrappedDifference
<1>5. t \in Int /\ 0 <= t /\ t < n /\ last \in Int /\ 0 <= last /\ last < n
  BY <1>1
<1>6. (u - last) % n = d + 1
  BY <1>1, <1>2, <1>3, <1>4, <1>5
<1>7. QED
  BY <1>2, <1>6 DEF n, u, d

LEMMA TelemetryStep ==
  ASSUME TelemetryTypeOK, SinceIsDifference, [TelemetryNext]_telemetryVars
  PROVE  TelemetryTypeOK' /\ SinceIsDifference'
<1>1. CASE UNCHANGED <<ticks, lastSent, sinceSent>>
  BY <1>1 DEF TelemetryTypeOK, SinceIsDifference
<1>2. CASE TelemetryTick
  <2>1. /\ ticks' = (ticks + 1) % TickValues /\ lastSent' = lastSent
        /\ sinceSent' = [c \in Classes |-> IF sinceSent[c] < TelemetryInterval
                                           THEN sinceSent[c] + 1 ELSE sinceSent[c]]
    BY <1>2 DEF TelemetryTick
  <2>2. ticks' \in 0..(TickValues - 1)
    <3>1. ticks \in Nat /\ TickValues \in Nat \ {0}
      BY TelemetrySizes DEF TelemetryTypeOK
    <3>2. QED
      BY <2>1, <3>1
  <2>3. \A c \in Classes : sinceSent'[c] \in 0..TelemetryInterval
    <3>1. \A c \in Classes : sinceSent[c] \in 0..TelemetryInterval
      BY DEF TelemetryTypeOK
    <3>2. QED
      BY <2>1, <3>1, TelemetrySizes
  <2>4. TelemetryTypeOK'
    BY <2>1, <2>2, <2>3 DEF TelemetryTypeOK
  <2>5. ASSUME NEW c \in Classes, sinceSent'[c] < TelemetryInterval
        PROVE  lastSent'[c] # TickNever /\ (ticks' - lastSent'[c]) % TickValues = sinceSent'[c]
    <3>1. sinceSent[c] \in Int /\ TelemetryInterval \in Int
      BY TelemetrySizes DEF TelemetryTypeOK
    <3>2. sinceSent[c] < TelemetryInterval /\ sinceSent'[c] = sinceSent[c] + 1
      BY <2>1, <2>5, <3>1
    <3>3. lastSent[c] # TickNever /\ (ticks - lastSent[c]) % TickValues = sinceSent[c]
      BY <3>2 DEF SinceIsDifference
    <3>4. (ticks' - lastSent[c]) % TickValues = sinceSent[c] + 1
      BY <2>1, <3>2, <3>3, OneTickLater DEF TelemetryTypeOK
    <3>5. QED
      BY <2>1, <3>2, <3>3, <3>4
  <2>6. QED
    BY <2>4, <2>5 DEF SinceIsDifference
<1>3. ASSUME NEW class \in Classes, Reading(class)
      PROVE  TelemetryTypeOK' /\ SinceIsDifference'
  <2>1. CASE UNCHANGED <<lastSent, sinceSent>>
    BY <1>1, <1>3, <2>1 DEF Reading
  <2>2. CASE /\ lastSent' = [lastSent EXCEPT ![class] = ticks]
             /\ sinceSent' = [sinceSent EXCEPT ![class] =
                                 IF ticks = TickNever THEN TelemetryInterval ELSE 0]
    <3>1. ticks' = ticks
      BY <1>3 DEF Reading
    <3>2. (IF ticks = TickNever THEN TelemetryInterval ELSE 0) \in 0..TelemetryInterval
      BY TelemetrySizes
    <3>3. TelemetryTypeOK'
      BY <2>2, <3>1, <3>2 DEF TelemetryTypeOK
    <3>4. ASSUME NEW c \in Classes, sinceSent'[c] < TelemetryInterval
          PROVE  lastSent'[c] # TickNever /\ (ticks' - lastSent'[c]) % TickValues = sinceSent'[c]
      <4>1. CASE c # class
        BY <2>2, <3>1, <3>4, <4>1 DEF TelemetryTypeOK, SinceIsDifference
      <4>2. CASE c = class
        <5>1. lastSent'[c] = ticks /\ sinceSent'[c] = IF ticks = TickNever THEN TelemetryInterval ELSE 0
          BY <2>2, <4>2 DEF TelemetryTypeOK
        <5>2. ticks # TickNever /\ sinceSent'[c] = 0
          BY <3>4, <5>1, TelemetrySizes
        <5>3. (ticks - ticks) % TickValues = 0
          BY TelemetrySizes DEF TelemetryTypeOK
        <5>4. QED
          BY <3>1, <5>1, <5>2, <5>3
      <4>3. QED
        BY <4>1, <4>2
    <3>5. QED
      BY <3>3, <3>4 DEF SinceIsDifference
  <2>3. QED
    BY <1>3, <2>1, <2>2 DEF Reading
<1>4. QED
  BY <1>1, <1>2, <1>3
     DEF TelemetryNext, Session, Connection, Transmit, network, telemetryVars

(***************************************************************************)
(* Two readings of a class are at least the interval apart, for every      *)
(* width of the counter and every interval below it: the wrapped           *)
(* difference ev_network_telemetry_rate_limited() looks at never deceives it    *)
(* while it is asked at each reading, except about a reading sent at the   *)
(* tick whose number means never.                                          *)
(***************************************************************************)
THEOREM ReadingsPacedAlways == TelemetrySpec => ReadingsPaced
<1> DEFINE Paced == sent' \in Classes => sinceSent[sent'] >= TelemetryInterval
<1>1. TelemetryInit => TelemetryTypeOK /\ SinceIsDifference
  <2> SUFFICES ASSUME TelemetryInit PROVE TelemetryTypeOK /\ SinceIsDifference
    OBVIOUS
  <2>1. 0 \in 0..(TickValues - 1) /\ TelemetryInterval \in 0..TelemetryInterval
        /\ ~(TelemetryInterval < TelemetryInterval)
    BY TelemetrySizes
  <2>2. QED
    BY <2>1, TelemetrySizes DEF TelemetryInit, TelemetryReset, TelemetryTypeOK, SinceIsDifference
<1>2. TelemetryTypeOK /\ SinceIsDifference /\ [TelemetryNext]_telemetryVars
         => TelemetryTypeOK' /\ SinceIsDifference'
  BY TelemetryStep
<1>3. TelemetryTypeOK /\ SinceIsDifference /\ [TelemetryNext]_telemetryVars
         => [Paced]_telemetryVars
  <2> SUFFICES ASSUME TelemetryTypeOK, SinceIsDifference, TelemetryNext, sent' \in Classes
               PROVE  sinceSent[sent'] >= TelemetryInterval
    OBVIOUS
  <2>1. "none" \notin Classes /\ "command" \notin Classes
    BY DEF Classes
  <2>2. PICK class \in Classes : Reading(class)
    BY <2>1 DEF TelemetryNext, Session, Connection, TelemetryTick, Transmit
  <2>3. sent' = class /\ ~TooSoon(class)
    BY <2>1, <2>2 DEF Reading
  <2>4. sinceSent[class] \in Int /\ TelemetryInterval \in Int
    BY TelemetrySizes DEF TelemetryTypeOK
  <2>5. ~(sinceSent[class] < TelemetryInterval)
    BY <2>3 DEF SinceIsDifference, TooSoon
  <2>6. QED
    BY <2>3, <2>4, <2>5
<1>4. QED
  BY <1>1, <1>2, <1>3, PTL DEF TelemetrySpec, ReadingsPaced

-----------------------------------------------------------------------------
(* Remote commands.  An arm that is on is the newest one, unused, and its   *)
(* deadline is as far ahead as the window has left: it never outlives it.   *)

CommandTypeOK ==
    /\ tick \in 0..(TickWidth - 1)
    /\ sleepArm \in [on : BOOLEAN, nonce : Nonces \cup {NoNonce}, duration : Durations \cup {0},
                     expiry : 0..(TickWidth - 1)]
    /\ armed \in [nonce : Nonces \cup {NoNonce}, duration : Durations \cup {0},
                  age : 0..ConfirmWindow, used : BOOLEAN]

Left == ConfirmWindow - armed.age

ArmIsNewest ==
    sleepArm.on =>
      /\ ~armed.used /\ armed.age < ConfirmWindow
      /\ sleepArm.nonce = armed.nonce /\ sleepArm.duration = armed.duration
      /\ sleepArm.expiry = (tick + Left) % TickWidth

LEMMA CommandSizes ==
  /\ TickWidth \in Nat \ {0} /\ TickWidth > 2 /\ ConfirmWindow \in Nat
  /\ ConfirmWindow \in 0..TickWidth /\ 1 <= ConfirmWindow /\ 0 < (TickWidth - 1) \div 2
  /\ 0 \in 0..(TickWidth - 1) /\ 0 \in 0..ConfirmWindow
  /\ "cmd/sleep" \notin PlainTopics
<1>1. TickWidth \in Nat \ {0} /\ TickWidth > 2
  BY CommandsAssumption
<1>2. ConfirmWindow \in Nat /\ 1 <= ConfirmWindow /\ ConfirmWindow <= TickWidth
  BY CommandsAssumption
<1>3. 0 < (TickWidth - 1) \div 2
  BY <1>1
<1>4. "cmd/sleep" \notin PlainTopics
  BY CommandsAssumption
<1>5. QED
  BY <1>1, <1>2, <1>3, <1>4

\* A tick takes one from what is left of the window; the deadline stays.
LEMMA OneTickLeft ==
  ASSUME NEW t \in 0..(TickWidth - 1), NEW left \in 1..ConfirmWindow
  PROVE  /\ (t + 1) % TickWidth \in 0..(TickWidth - 1)
         /\ (((t + 1) % TickWidth) + (left - 1)) % TickWidth = (t + left) % TickWidth
<1> DEFINE n == TickWidth
           u == (t + 1) % n
<1>1. /\ n \in Nat \ {0} /\ t \in 0..(n - 1) /\ 1 \in 0..n /\ left \in 0..n
      /\ left - 1 \in 0..n
  BY CommandSizes
<1> HIDE DEF n
<1>2. u = (IF t + 1 < n THEN t + 1 ELSE t + 1 - n) /\ u \in 0..(n - 1)
  BY ONLY <1>1, WrappedSum
<1>3. (t + left) % n = IF t + left < n THEN t + left ELSE t + left - n
  BY ONLY <1>1, WrappedSum
<1> HIDE DEF u
<1>4. (u + (left - 1)) % n = IF u + (left - 1) < n THEN u + (left - 1) ELSE u + (left - 1) - n
  BY ONLY <1>1, <1>2, WrappedSum
<1>5. (u + (left - 1)) % n = (t + left) % n
  BY <1>1, <1>2, <1>3, <1>4
<1>6. QED
  BY <1>2, <1>5 DEF n, u

LEMMA CommandTickStep ==
  ASSUME CommandTypeOK, ArmIsNewest, CommandTick
  PROVE  CommandTypeOK' /\ ArmIsNewest'
<1> DEFINE now == (tick + 1) % TickWidth
           age == Capped(armed.age + 1, ConfirmWindow)
<1>1. /\ tick' = now /\ armed' = [armed EXCEPT !.age = age]
      /\ sleepArm' = IF sleepArm.on /\ Reached(now, sleepArm.expiry)
                     THEN [sleepArm EXCEPT !.on = FALSE] ELSE sleepArm
  BY DEF CommandTick
<1>2. /\ armed.age \in Int /\ 0 <= armed.age /\ armed.age <= ConfirmWindow
      /\ ConfirmWindow \in Int /\ TickWidth \in Int
  BY CommandSizes DEF CommandTypeOK
<1>3. now \in 0..(TickWidth - 1)
  <2>1. TickWidth \in Nat \ {0} /\ tick \in 0..(TickWidth - 1) /\ 1 \in 0..TickWidth
    BY CommandSizes DEF CommandTypeOK
  <2>2. QED
    BY <2>1, WrappedSum
<1>4. age \in 0..ConfirmWindow
  BY <1>2 DEF Capped
<1> HIDE DEF now, age
<1>5. CommandTypeOK'
  <2>1. tick' \in 0..(TickWidth - 1)
    BY <1>1, <1>3
  <2>2. armed' \in [nonce : Nonces \cup {NoNonce}, duration : Durations \cup {0},
                    age : 0..ConfirmWindow, used : BOOLEAN]
    BY <1>1, <1>4 DEF CommandTypeOK
  <2>3. sleepArm' \in [on : BOOLEAN, nonce : Nonces \cup {NoNonce},
                       duration : Durations \cup {0}, expiry : 0..(TickWidth - 1)]
    BY <1>1 DEF CommandTypeOK
  <2>4. QED
    BY <2>1, <2>2, <2>3 DEF CommandTypeOK
<1>6. ASSUME sleepArm'.on
      PROVE  /\ ~armed'.used /\ armed'.age < ConfirmWindow
             /\ sleepArm'.nonce = armed'.nonce /\ sleepArm'.duration = armed'.duration
             /\ sleepArm'.expiry = (tick' + Left') % TickWidth
  <2>1. sleepArm' = sleepArm /\ sleepArm.on /\ ~Reached(now, sleepArm.expiry)
    BY <1>1, <1>6 DEF CommandTypeOK
  <2>2. /\ ~armed.used /\ armed.age < ConfirmWindow
        /\ sleepArm.nonce = armed.nonce /\ sleepArm.duration = armed.duration
        /\ sleepArm.expiry = (tick + Left) % TickWidth
    BY <2>1 DEF ArmIsNewest
  <2>3. Left \in 1..ConfirmWindow
    BY <1>2, <2>2 DEF Left
  <2>4. sleepArm.expiry = (now + (Left - 1)) % TickWidth
    BY <2>2, <2>3, OneTickLeft DEF CommandTypeOK, now
  <2>5. Left # 1
    <3>1. ASSUME Left = 1 PROVE FALSE
      <4>1. sleepArm.expiry = now
        BY <2>2, <3>1 DEF now
      <4>2. (now - now) % TickWidth = 0
        BY <1>3, CommandSizes
      <4>3. QED
        BY <2>1, <4>1, <4>2, CommandSizes DEF Reached
    <3>2. QED
      BY <3>1
  <2>6. age = armed.age + 1 /\ age < ConfirmWindow
    BY <1>2, <2>2, <2>3, <2>5 DEF Left, Capped, age
  <2>7. armed'.age = age /\ armed'.used = armed.used /\ armed'.nonce = armed.nonce
        /\ armed'.duration = armed.duration
    BY <1>1 DEF CommandTypeOK
  <2>8. Left' = Left - 1
    BY <1>2, <2>6, <2>7 DEF Left
  <2>9. QED
    BY <1>1, <2>1, <2>2, <2>4, <2>6, <2>7, <2>8
<1>7. QED
  BY <1>5, <1>6 DEF ArmIsNewest

LEMMA CommandStep ==
  ASSUME CommandTypeOK, ArmIsNewest, [CommandNext]_commandVars
  PROVE  CommandTypeOK' /\ ArmIsNewest'
<1>1. CASE CommandTick
  BY <1>1, CommandTickStep
<1>2. CASE CommandRestart
  BY <1>2, CommandSizes
     DEF CommandRestart, CommandReset, CommandTypeOK, ArmIsNewest, NoArm, NeverArmed
<1>3. CASE UNCHANGED <<tick, sleepArm, armed>>
  BY <1>3 DEF CommandTypeOK, ArmIsNewest, Left
<1>4. ASSUME NEW m \in Messages, SleepArm(m)
      PROVE  CommandTypeOK' /\ ArmIsNewest'
  <2>1. /\ tick' = tick
        /\ sleepArm' = [on |-> TRUE, nonce |-> m.arm, duration |-> m.ms,
                        expiry |-> (tick + ConfirmWindow) % TickWidth]
        /\ armed' = [nonce |-> m.arm, duration |-> m.ms, age |-> 0, used |-> FALSE]
    BY <1>4 DEF SleepArm
  <2>2. m.arm \in Nonces \cup {NoNonce} /\ m.ms \in Durations
    BY DEF Messages
  <2>3. (tick + ConfirmWindow) % TickWidth \in 0..(TickWidth - 1)
    BY CommandSizes, WrappedSum DEF CommandTypeOK
  <2>4. CommandTypeOK'
    BY <2>1, <2>2, <2>3, CommandSizes DEF CommandTypeOK
  <2>5. Left' = ConfirmWindow /\ 0 < ConfirmWindow
    BY <2>1, CommandSizes DEF Left
  <2>6. ArmIsNewest'
    BY <2>1, <2>5 DEF ArmIsNewest
  <2>7. QED
    BY <2>4, <2>6
<1>5. ASSUME NEW m \in Messages, NEW accepted \in BOOLEAN, SleepConfirm(m, accepted)
      PROVE  CommandTypeOK' /\ ArmIsNewest'
  <2>1. /\ tick' = tick /\ sleepArm' = [sleepArm EXCEPT !.on = FALSE]
        /\ armed' = [armed EXCEPT !.used = TRUE]
    BY <1>5 DEF SleepConfirm, Disarmed
  <2>2. QED
    BY <2>1 DEF CommandTypeOK, ArmIsNewest
<1>6. ASSUME NEW m \in Messages, NEW accepted \in BOOLEAN, LedOrDisplay(m, accepted)
      PROVE  UNCHANGED <<tick, sleepArm, armed>>
  BY <1>6 DEF LedOrDisplay
<1>7. ASSUME NEW m \in Messages, CommandIgnored(m)
      PROVE  UNCHANGED <<tick, sleepArm, armed>>
  BY <1>7 DEF CommandIgnored, commandActor
<1>8. CASE UNCHANGED commandVars
  BY <1>3, <1>8 DEF commandVars, commandActor
<1>9. QED
  BY <1>1, <1>2, <1>3, <1>4, <1>5, <1>6, <1>7, <1>8 DEF CommandNext

(***************************************************************************)
(* Deep sleep takes an arm and a confirm: the nonce and the duration       *)
(* published are those of the newest arm, no confirm has used it before,   *)
(* and it is younger than the window - for every width of the counter and  *)
(* every window within half of it, over any restarts.                      *)
(***************************************************************************)
THEOREM SleepTakesTwoAlways == CommandSpec => SleepTakesTwo
<1> DEFINE Two == command'.topic = "cmd/sleep" =>
                     /\ ~armed.used /\ armed.age < ConfirmWindow
                     /\ command'.message = armed.nonce /\ command'.duration = armed.duration
<1>1. CommandInit => CommandTypeOK /\ ArmIsNewest
  BY CommandSizes DEF CommandInit, CommandTypeOK, ArmIsNewest, NoArm, NeverArmed
<1>2. CommandTypeOK /\ ArmIsNewest /\ [CommandNext]_commandVars => CommandTypeOK' /\ ArmIsNewest'
  BY CommandStep
<1>3. CommandTypeOK /\ ArmIsNewest /\ [CommandNext]_commandVars => [Two]_commandVars
  <2> SUFFICES ASSUME ArmIsNewest, CommandNext, command'.topic = "cmd/sleep"
               PROVE  /\ ~armed.used /\ armed.age < ConfirmWindow
                      /\ command'.message = armed.nonce /\ command'.duration = armed.duration
    OBVIOUS
  <2>1. command' # NoCommand
    BY DEF NoCommand
  <2>2. ASSUME NEW m \in Messages, NEW accepted \in BOOLEAN, LedOrDisplay(m, accepted)
        PROVE  FALSE
    <3>1. command'.topic = m.topic /\ m.topic \in PlainTopics
      BY <2>1, <2>2 DEF LedOrDisplay, Publishes
    <3>2. QED
      BY <3>1, CommandSizes
  <2>3. PICK m \in Messages, accepted \in BOOLEAN : SleepConfirm(m, accepted)
    BY <2>1, <2>2 DEF CommandNext, CommandTick, CommandRestart, CommandReset, SleepArm, CommandIgnored
  <2>4. /\ sleepArm.on /\ m.confirm = sleepArm.nonce
        /\ command'.message = m.confirm /\ command'.duration = sleepArm.duration
    BY <2>1, <2>3 DEF SleepConfirm, Confirms, Publishes
  <2>5. QED
    BY <2>4 DEF ArmIsNewest
<1>4. QED
  BY <1>1, <1>2, <1>3, PTL DEF CommandSpec, SleepTakesTwo

-----------------------------------------------------------------------------
(* The watchdog. *)

WatchdogTypeOK ==
    /\ supported \in BOOLEAN /\ sleepArming \in BOOLEAN
    /\ tickBox \in Nat /\ work \in [Domains -> Nat] /\ next \in Domains
    /\ systemRun \in [on : BOOLEAN, budget : Int, turns : Nat]
    /\ domainRun \in [domain : Domains \cup {"none"}, left : Int]
    /\ systemTurns \in 0..(TurnValues - 1) /\ systemResult \in {"OK", "FAILED"}
    /\ domainResult \in [Domains -> {"OK", "FAILED"}] /\ moved \in [Domains -> BOOLEAN]
    /\ snapshot \in [taken : BOOLEAN, turns : 0..(TurnValues - 1)]
    /\ ended \in BOOLEAN /\ started \in SUBSET Domains /\ since \in Nat /\ misses \in Nat

\* A counter of n values that showed s and was increased since.
Shows(counter, n, s, increase) == \E rounds \in Nat : counter + rounds * n = s + increase

\* The counter is what the last snapshot showed and the turns since, wrapped;
\* when a tick is handled these are too few to wrap twice.
TurnsCounted ==
    /\ supported => Shows(systemTurns, TurnValues, snapshot.turns, since)
    /\ ended <=> since > 0
    /\ systemRun.on => since < MaxTurns
    /\ domainRun.domain \in Domains => systemRun.on
    /\ ~supported => ~snapshot.taken
    /\ ~snapshot.taken => snapshot.turns = 0

\* What the domain counters of a snapshot say of the runs since the one before.
StartsCounted ==
    /\ \A d \in started : moved[d]
    /\ domainRun.domain = "slow" => "slow" \in started
    /\ snapshot.taken /\ moved["slow"] => "slow" \in started
    /\ snapshot.taken /\ moved[Home] => Home \in started \/ domainRun.domain # Home
    /\ domainRun.domain = Home => next = "slow" /\ (ended => Home \in started)

\* After a rejection the domain that was found stalled is the next to be run.
NoSecondMiss ==
    /\ misses <= 1
    /\ misses > 0 => \/ moved["slow"]
                     \/ /\ next = "slow" /\ work["slow"] > 0
                        /\ domainRun.domain = Home => ~ended

WatchdogInv == WatchdogTypeOK /\ TurnsCounted /\ StartsCounted /\ NoSecondMiss

LEMMA DomainFacts ==
  /\ Domains = {"fast", "slow"} /\ Home = "fast" /\ Home \in Domains
  /\ "none" \notin Domains
  /\ Other("fast") = "slow" /\ Other("slow") = "fast"
BY DEF Domains, Home, Other

LEMMA WatchdogSizes ==
  /\ TurnValues \in Nat \ {0} /\ MaxTurns \in Nat /\ MaxTurns < TurnValues
  /\ TurnBudget \in Nat /\ DomainBudget \in Nat /\ 0 \in 0..(TurnValues - 1)
<1>1. TurnValues \in Nat \ {0} /\ MaxTurns \in 0..(TurnValues - 1)
  BY WatchdogAssumption
<1>2. QED
  BY <1>1, WatchdogAssumption

\* The counter after a run returned, over as many rounds as it took.
LEMMA RoundsCounted ==
  ASSUME NEW n \in Nat \ {0}, NEW x \in 0..(n - 1), NEW turns \in Nat,
         NEW s \in Nat, NEW past \in Nat, Shows(x, n, s, past)
  PROVE  Shows((x + turns) % n, n, s, past + turns)
<1> DEFINE y == (x + turns) % n
           q == (x + turns) \div n
<1>1. x \in Nat /\ q \in Nat /\ y \in 0..(n - 1) /\ x + turns = q * n + y
  OBVIOUS
<1>2. PICK k \in Nat : x + k * n = s + past
  BY DEF Shows
<1> DEFINE kn == k * n
           qn == q * n
<1>3. (k + q) * n = kn + qn /\ kn \in Nat /\ qn \in Nat
  BY <1>1
<1> HIDE DEF y, q
<1>4. y + (k + q) * n = s + (past + turns)
  <2> HIDE DEF kn
  <2>1. x + turns = qn + y /\ y \in Nat
    BY <1>1
  <2>2. x + kn = s + past
    BY <1>2 DEF kn
  <2> HIDE DEF qn
  <2>3. QED
    BY <1>1, <1>3, <2>1, <2>2
<1>5. k + q \in Nat
  BY <1>1
<1>6. Shows(y, n, s, past + turns)
  BY <1>4, <1>5 DEF Shows
<1>7. QED
  BY <1>6 DEF y

\* If the counter did not wrap, it grew by the turns since the snapshot.
LEMMA GrewByTurns ==
  ASSUME NEW n \in Nat \ {0}, NEW x \in 0..(n - 1), NEW s \in 0..(n - 1), NEW past \in Nat,
         Shows(x, n, s, past), ~(x < past)
  PROVE  x = s + past
<1>1. PICK k \in Nat : x + k * n = s + past
  BY DEF Shows
<1>2. CASE k = 0
  BY <1>1, <1>2
<1>3. CASE k # 0
  <2>1. k - 1 \in Nat /\ (k - 1) * n \in Nat /\ k * n = (k - 1) * n + n
    BY <1>3
  <2> DEFINE r == (k - 1) * n
  <2>2. x + r + n = s + past
    BY <1>1, <2>1
  <2> HIDE DEF r
  <2>3. s < n /\ past <= x /\ r \in Nat
    BY <2>1 DEF r
  <2>4. QED
    BY <2>2, <2>3
<1>4. QED
  BY <1>2, <1>3

\* Work that arrives, and sleep that is armed, disturb nothing.
LEMMA QuietStep ==
  ASSUME WatchdogInv, tickBox' \in Nat, work' \in [Domains -> Nat], work'["slow"] >= work["slow"],
         sleepArming' \in BOOLEAN, UNCHANGED <<supported, pumps, moved, snapshot, history>>
  PROVE  WatchdogInv'
<1>1. WatchdogTypeOK'
  BY DEF WatchdogInv, WatchdogTypeOK, pumps, history
<1>2. TurnsCounted'
  BY DEF WatchdogInv, TurnsCounted, pumps, history
<1>3. StartsCounted'
  BY DEF WatchdogInv, StartsCounted, pumps, history
<1>4. NoSecondMiss'
  <2>1. work["slow"] > 0 => work'["slow"] > 0
    BY DomainFacts DEF WatchdogInv, WatchdogTypeOK
  <2>2. QED
    BY <2>1 DEF WatchdogInv, NoSecondMiss, pumps, history
<1>5. QED
  BY <1>1, <1>2, <1>3, <1>4 DEF WatchdogInv

LEMMA ArrivalStep ==
  ASSUME WatchdogInv, Second \/ SleepArms \/ \E d \in Domains : Arrives(d)
  PROVE  WatchdogInv'
<1>1. tickBox \in Nat /\ work \in [Domains -> Nat] /\ sleepArming \in BOOLEAN
  BY DEF WatchdogInv, WatchdogTypeOK
<1>2. CASE Second
  <2>1. /\ tickBox' \in Nat
        /\ work' = [d \in Domains |-> IF work[d] < WorkCap THEN work[d] + 1 ELSE work[d]]
        /\ sleepArming' = sleepArming /\ UNCHANGED <<supported, pumps, moved, snapshot, history>>
    BY <1>1, <1>2 DEF Second
  <2>2. work' \in [Domains -> Nat] /\ work'["slow"] >= work["slow"]
    BY <1>1, <2>1, DomainFacts
  <2>3. QED
    BY <1>1, <2>1, <2>2, QuietStep
<1>3. CASE SleepArms
  <2>1. sleepArming' \in BOOLEAN /\ work' = work /\ tickBox' = tickBox
    BY <1>3 DEF SleepArms
  <2>2. work'["slow"] >= work["slow"]
    BY <1>1, <2>1, DomainFacts
  <2>3. QED
    BY <1>1, <1>3, <2>1, <2>2, QuietStep DEF SleepArms
<1>4. ASSUME NEW d \in Domains, Arrives(d) PROVE WatchdogInv'
  <2>1. work' = [work EXCEPT ![d] = work[d] + 1]
    BY <1>4 DEF Arrives
  <2>2. work' \in [Domains -> Nat] /\ work'["slow"] >= work["slow"]
    BY <1>1, <2>1, DomainFacts
  <2>3. QED
    BY <1>1, <1>4, <2>2, QuietStep DEF Arrives
<1>5. QED
  BY <1>2, <1>3, <1>4

LEMMA RunStartsStep ==
  ASSUME WatchdogInv, RunStarts
  PROVE  WatchdogInv'
<1>1. /\ ~systemRun.on /\ since < MaxTurns
      /\ systemRun' = [on |-> TRUE, budget |-> TurnBudget, turns |-> 0]
      /\ UNCHANGED <<tickBox, work, next, domainRun, systemTurns, systemResult, domainResult, moved>>
      /\ UNCHANGED <<ended, started, since>> /\ UNCHANGED <<supported, sleepArming, snapshot, misses>>
  BY DEF RunStarts, Frame
<1>2. WatchdogTypeOK'
  <2>1. systemRun' \in [on : BOOLEAN, budget : Int, turns : Nat]
    BY <1>1, WatchdogSizes
  <2>2. QED
    BY <1>1, <2>1 DEF WatchdogInv, WatchdogTypeOK
<1>3. TurnsCounted'
  BY <1>1 DEF WatchdogInv, TurnsCounted
<1>4. StartsCounted'
  BY <1>1 DEF WatchdogInv, StartsCounted
<1>5. NoSecondMiss'
  BY <1>1 DEF WatchdogInv, NoSecondMiss
<1>6. QED
  BY <1>2, <1>3, <1>4, <1>5 DEF WatchdogInv

LEMMA TurnFacts ==
  ASSUME WatchdogInv, \E d \in Domains : Pending(d) > 0
  PROVE  Turn \in Domains /\ (next = "slow" /\ work["slow"] > 0 => Turn = "slow")
<1>1. next \in Domains /\ Other(next) \in Domains
  BY DomainFacts DEF WatchdogInv, WatchdogTypeOK
<1>2. Pending("slow") = work["slow"]
  BY DomainFacts DEF Pending, WatchdogInv, WatchdogTypeOK
<1>3. QED
  BY <1>1, <1>2 DEF Turn

LEMMA DomainStartsStep ==
  ASSUME WatchdogInv, DomainStarts
  PROVE  WatchdogInv'
<1>1. /\ systemRun.on /\ domainRun = NoDomainRun
      /\ domainRun' = [domain |-> Turn, left |-> DomainBudget] /\ next' = Other(Turn)
      /\ moved' = [moved EXCEPT ![Turn] = TRUE] /\ started' = started \cup {Turn}
      /\ UNCHANGED <<tickBox, work, systemRun, systemTurns, systemResult, domainResult, ended, since>>
      /\ UNCHANGED <<supported, sleepArming, snapshot, misses>>
  BY DEF DomainStarts, Between, Frame
<1>2. Turn \in Domains /\ (next = "slow" /\ work["slow"] > 0 => Turn = "slow")
  BY TurnFacts DEF DomainStarts, Continues
<1>3. moved \in [Domains -> BOOLEAN] /\ started \in SUBSET Domains
  BY DEF WatchdogInv, WatchdogTypeOK
<1>4. /\ moved' \in [Domains -> BOOLEAN] /\ moved'[Turn] = TRUE
      /\ \A d \in Domains : moved[d] => moved'[d]
      /\ \A d \in Domains : moved'[d] => moved[d] \/ d = Turn
  BY <1>1, <1>2, <1>3
<1>5. Other(Turn) \in Domains /\ (Turn = Home => Other(Turn) = "slow")
  BY <1>2, DomainFacts
<1>6. WatchdogTypeOK'
  <2>1. domainRun' \in [domain : Domains \cup {"none"}, left : Int]
    BY <1>1, <1>2, WatchdogSizes
  <2>2. next' \in Domains /\ started' \in SUBSET Domains
    BY <1>1, <1>2, <1>3, <1>5
  <2>3. QED
    BY <1>1, <1>4, <2>1, <2>2 DEF WatchdogInv, WatchdogTypeOK
<1>7. TurnsCounted'
  BY <1>1 DEF WatchdogInv, TurnsCounted
<1>8. StartsCounted'
  <2>1. domainRun'.domain = Turn /\ Turn \in started'
    BY <1>1
  <2>2. \A d \in started' : moved'[d]
    BY <1>1, <1>3, <1>4 DEF WatchdogInv, StartsCounted
  <2>3. snapshot'.taken /\ moved'["slow"] => "slow" \in started'
    BY <1>1, <1>4, DomainFacts DEF WatchdogInv, StartsCounted
  <2>4. snapshot'.taken /\ moved'[Home] => Home \in started' \/ domainRun'.domain # Home
    BY <2>1
  <2>5. domainRun'.domain = Home => next' = "slow" /\ (ended' => Home \in started')
    BY <1>1, <1>5, <2>1
  <2>6. domainRun'.domain = "slow" => "slow" \in started'
    BY <2>1
  <2>7. QED
    BY <2>2, <2>3, <2>4, <2>5, <2>6 DEF StartsCounted
<1>9. NoSecondMiss'
  <2>1. misses' <= 1
    BY <1>1 DEF WatchdogInv, NoSecondMiss
  <2>2. misses' > 0 => moved'["slow"]
    BY <1>1, <1>2, <1>4, DomainFacts DEF WatchdogInv, NoSecondMiss
  <2>3. QED
    BY <2>1, <2>2 DEF NoSecondMiss
<1>10. QED
  BY <1>6, <1>7, <1>8, <1>9 DEF WatchdogInv

\* A run that returns, with all its turns or, when a handler failed, with one.
LEMMA ReturnsFacts ==
  ASSUME WatchdogInv, NEW turns \in Nat, NEW result \in {"OK", "FAILED"}, Returns(turns, result),
         domainRun' = NoDomainRun, UNCHANGED <<supported, snapshot>>
  PROVE  /\ TurnsCounted'
         /\ systemRun' \in [on : BOOLEAN, budget : Int, turns : Nat]
         /\ domainRun' \in [domain : Domains \cup {"none"}, left : Int]
         /\ systemTurns' \in 0..(TurnValues - 1) /\ systemResult' \in {"OK", "FAILED"}
         /\ ended' \in BOOLEAN /\ since' \in Nat
<1>1. /\ systemRun' = [on |-> FALSE, budget |-> 0, turns |-> 0] /\ systemResult' = result
      /\ systemTurns' = (systemTurns + turns) % TurnValues
      /\ ended' = (ended \/ turns > 0) /\ since' = since + turns
  BY DEF Returns, NoSystemRun
<1>2. /\ systemTurns \in 0..(TurnValues - 1) /\ since \in Nat /\ ended \in BOOLEAN
      /\ snapshot.turns \in 0..(TurnValues - 1) /\ snapshot.turns \in Nat
  BY WatchdogSizes DEF WatchdogInv, WatchdogTypeOK
<1>3. since' \in Nat /\ ended' \in BOOLEAN /\ (ended' <=> since' > 0)
  <2>1. ended <=> since > 0
    BY DEF WatchdogInv, TurnsCounted
  <2>2. since + turns \in Nat /\ (since + turns > 0 <=> since > 0 \/ turns > 0)
    BY <1>2
  <2>3. QED
    BY <1>1, <2>1, <2>2
<1>4. systemTurns' \in 0..(TurnValues - 1)
  <2>1. systemTurns + turns \in Nat /\ TurnValues \in Nat \ {0}
    BY <1>2, WatchdogSizes
  <2>2. QED
    BY <1>1, <2>1
<1>5. supported => Shows(systemTurns', TurnValues, snapshot.turns, since')
  <2>1. ASSUME supported
        PROVE  Shows((systemTurns + turns) % TurnValues, TurnValues, snapshot.turns, since + turns)
    <3>1. Shows(systemTurns, TurnValues, snapshot.turns, since) /\ TurnValues \in Nat \ {0}
      BY <2>1, WatchdogSizes DEF WatchdogInv, TurnsCounted
    <3>2. QED
      BY <1>2, <3>1, RoundsCounted
  <2>2. QED
    BY <1>1, <2>1
<1>6. domainRun'.domain \notin Domains /\ domainRun' \in [domain : Domains \cup {"none"}, left : Int]
  BY DomainFacts DEF NoDomainRun
<1>7. TurnsCounted'
  BY <1>1, <1>3, <1>5, <1>6 DEF WatchdogInv, TurnsCounted
<1>8. QED
  BY <1>1, <1>3, <1>4, <1>6, <1>7

\* Without a domain running, what is said of the running one holds.
LEMMA IdleStarts ==
  ASSUME WatchdogInv, domainRun' = NoDomainRun, UNCHANGED <<moved, started, snapshot>>
  PROVE  StartsCounted'
<1>1. domainRun'.domain # Home /\ domainRun'.domain # "slow"
  BY DomainFacts DEF NoDomainRun
<1>2. QED
  BY <1>1 DEF WatchdogInv, StartsCounted

LEMMA RunEndsStep ==
  ASSUME WatchdogInv, RunEnds
  PROVE  WatchdogInv'
<1>1. /\ domainRun = NoDomainRun /\ Returns(systemRun.turns, "OK")
      /\ UNCHANGED <<tickBox, work, next, domainRun, domainResult, moved, started>>
      /\ UNCHANGED <<supported, sleepArming, snapshot, misses>>
  BY DEF RunEnds, Between, Frame
<1>2. systemRun.turns \in Nat
  BY DEF WatchdogInv, WatchdogTypeOK
<1>3. /\ TurnsCounted'
      /\ systemRun' \in [on : BOOLEAN, budget : Int, turns : Nat]
      /\ domainRun' \in [domain : Domains \cup {"none"}, left : Int]
      /\ systemTurns' \in 0..(TurnValues - 1) /\ systemResult' \in {"OK", "FAILED"}
      /\ ended' \in BOOLEAN /\ since' \in Nat
  BY <1>1, <1>2, ReturnsFacts
<1>4. WatchdogTypeOK'
  BY <1>1, <1>3 DEF WatchdogInv, WatchdogTypeOK
<1>5. StartsCounted'
  BY <1>1, IdleStarts
<1>6. NoSecondMiss'
  <2>1. domainRun'.domain # Home
    BY <1>1, DomainFacts DEF NoDomainRun
  <2>2. QED
    BY <1>1, <2>1 DEF WatchdogInv, NoSecondMiss
<1>7. QED
  BY <1>3, <1>4, <1>5, <1>6 DEF WatchdogInv

LEMMA OtherHandledStep ==
  ASSUME WatchdogInv, NEW d \in Domains, NEW ok \in BOOLEAN, OtherHandled(d, ok)
  PROVE  WatchdogInv'
<1>1. /\ domainRun.domain = d /\ work[d] > 0 /\ work' = [work EXCEPT ![d] = work[d] - 1]
      /\ UNCHANGED <<tickBox, next, moved, started>> /\ UNCHANGED <<supported, sleepArming, snapshot, misses>>
  BY DEF OtherHandled, Running, Frame
<1>2. work' \in [Domains -> Nat]
  BY <1>1 DEF WatchdogInv, WatchdogTypeOK
<1>3. misses' <= 1
  BY <1>1 DEF WatchdogInv, NoSecondMiss
<1>4. misses' > 0 => moved'["slow"] \/ (next' = "slow" /\ work'["slow"] > 0 /\ (d = Home => ~ended))
  <2>1. CASE d = "slow"
    BY <1>1, <2>1 DEF WatchdogInv, StartsCounted
  <2>2. CASE d # "slow"
    <3>1. work'["slow"] = work["slow"]
      BY <1>1, <2>2, DomainFacts DEF WatchdogInv, WatchdogTypeOK
    <3>2. QED
      BY <1>1, <3>1 DEF WatchdogInv, NoSecondMiss
  <2>3. QED
    BY <2>1, <2>2
<1>5. CASE ok
  <2>1. /\ domainRun' = [domainRun EXCEPT !.left = domainRun.left - 1]
        /\ UNCHANGED <<systemRun, systemTurns, systemResult, domainResult, ended, since>>
    BY <1>5 DEF OtherHandled
  <2>2. /\ domainRun' \in [domain : Domains \cup {"none"}, left : Int]
        /\ domainRun'.domain = domainRun.domain
    BY <2>1 DEF WatchdogInv, WatchdogTypeOK
  <2>3. WatchdogTypeOK'
    BY <1>1, <1>2, <2>1, <2>2 DEF WatchdogInv, WatchdogTypeOK
  <2>4. TurnsCounted'
    BY <1>1, <2>1, <2>2 DEF WatchdogInv, TurnsCounted
  <2>5. StartsCounted'
    BY <1>1, <2>1, <2>2 DEF WatchdogInv, StartsCounted
  <2>6. NoSecondMiss'
    BY <1>1, <1>3, <1>4, <2>1, <2>2 DEF NoSecondMiss
  <2>7. QED
    BY <2>3, <2>4, <2>5, <2>6 DEF WatchdogInv
<1>6. CASE ~ok
  <2>1. /\ domainRun' = NoDomainRun /\ Returns(1, "FAILED")
        /\ domainResult' = [domainResult EXCEPT ![d] = "FAILED"]
    BY <1>6 DEF OtherHandled
  <2>2. /\ TurnsCounted'
        /\ systemRun' \in [on : BOOLEAN, budget : Int, turns : Nat]
        /\ domainRun' \in [domain : Domains \cup {"none"}, left : Int]
        /\ systemTurns' \in 0..(TurnValues - 1) /\ systemResult' \in {"OK", "FAILED"}
        /\ ended' \in BOOLEAN /\ since' \in Nat
    BY <1>1, <2>1, ReturnsFacts
  <2>3. domainResult' \in [Domains -> {"OK", "FAILED"}]
    BY <2>1 DEF WatchdogInv, WatchdogTypeOK
  <2>4. WatchdogTypeOK'
    BY <1>1, <1>2, <2>2, <2>3 DEF WatchdogInv, WatchdogTypeOK
  <2>5. StartsCounted'
    BY <1>1, <2>1, IdleStarts
  <2>6. domainRun'.domain # Home
    BY <2>1, DomainFacts DEF NoDomainRun
  <2>7. NoSecondMiss'
    BY <1>3, <1>4, <2>6 DEF NoSecondMiss
  <2>8. QED
    BY <2>2, <2>4, <2>5, <2>7 DEF WatchdogInv
<1>7. QED
  BY <1>5, <1>6

LEMMA DomainEndsStep ==
  ASSUME WatchdogInv, DomainEnds
  PROVE  WatchdogInv'
<1> DEFINE d == domainRun.domain
           pending == Pending(d) > 0
<1>1. /\ d \in Domains /\ domainRun' = NoDomainRun
      /\ domainResult' = [domainResult EXCEPT ![d] = "OK"]
      /\ moved' = [moved EXCEPT ![d] = moved[d] \/ pending]
      /\ systemRun' = [systemRun EXCEPT !.budget = systemRun.budget - 1, !.turns = systemRun.turns + 1]
      /\ UNCHANGED <<tickBox, work, next, systemTurns, systemResult, ended, started, since>>
      /\ UNCHANGED <<supported, sleepArming, snapshot, misses>>
  BY DEF DomainEnds, Frame
<1>2. moved \in [Domains -> BOOLEAN] /\ started \in SUBSET Domains
  BY DEF WatchdogInv, WatchdogTypeOK
<1>3. /\ moved' \in [Domains -> BOOLEAN] /\ \A e \in Domains : moved[e] => moved'[e]
      /\ \A e \in Domains : moved'[e] => moved[e] \/ e = d
  <2>1. PICK b \in BOOLEAN : b <=> moved[d] \/ pending
    OBVIOUS
  <2>2. (moved[d] \/ pending) = b
    BY <2>1
  <2> HIDE DEF pending
  <2>3. moved' = [moved EXCEPT ![d] = b] /\ (moved[d] => b)
    BY <1>1, <2>1, <2>2
  <2> HIDE DEF d
  <2>4. QED
    BY <1>1, <1>2, <2>3
<1>4. domainRun'.domain = "none" /\ Home # "none" /\ "slow" # "none" /\ "none" \notin Domains
  BY <1>1, DomainFacts DEF NoDomainRun
<1> HIDE DEF pending
<1>5. WatchdogTypeOK'
  <2>1. domainRun' \in [domain : Domains \cup {"none"}, left : Int]
    BY <1>1 DEF NoDomainRun
  <2>2. systemRun' \in [on : BOOLEAN, budget : Int, turns : Nat]
    <3> DEFINE budget == systemRun.budget - 1
               turns == systemRun.turns + 1
    <3>1. /\ systemRun \in [on : BOOLEAN, budget : Int, turns : Nat]
          /\ budget \in Int /\ turns \in Nat
      BY DEF WatchdogInv, WatchdogTypeOK
    <3>2. systemRun' = [systemRun EXCEPT !.budget = budget, !.turns = turns]
      BY <1>1
    <3> HIDE DEF budget, turns
    <3>3. QED
      BY <3>1, <3>2
  <2>3. domainResult' \in [Domains -> {"OK", "FAILED"}]
    BY <1>1 DEF WatchdogInv, WatchdogTypeOK
  <2>4. QED
    BY <1>1, <1>3, <2>1, <2>2, <2>3 DEF WatchdogInv, WatchdogTypeOK
<1>6. TurnsCounted'
  <2>1. systemRun'.on = systemRun.on
    BY <1>1 DEF WatchdogInv, WatchdogTypeOK
  <2>2. QED
    BY <1>1, <1>4, <2>1 DEF WatchdogInv, TurnsCounted
<1>7. StartsCounted'
  <2>1. \A e \in started' : moved'[e]
    BY <1>1, <1>2, <1>3 DEF WatchdogInv, StartsCounted
  <2>2. snapshot'.taken /\ moved'["slow"] => "slow" \in started'
    BY <1>1, <1>3, DomainFacts DEF WatchdogInv, StartsCounted
  <2>3. QED
    BY <1>4, <2>1, <2>2 DEF StartsCounted
<1>8. NoSecondMiss'
  BY <1>1, <1>3, <1>4, DomainFacts DEF WatchdogInv, NoSecondMiss
<1>9. QED
  BY <1>5, <1>6, <1>7, <1>8 DEF WatchdogInv

\* A tick that is rejected without excuse found the other domain stalled, and
\* the tick before was not rejected so.
LEMMA RejectedMeans ==
  ASSUME WatchdogInv, Running(Home), supported, Rejected, ~Excused
  PROVE  /\ work["slow"] > 0 /\ next = "slow" /\ misses = 0
<1>1. /\ domainRun.domain = Home /\ Home \in started /\ next = "slow" /\ ended /\ moved[Home]
  BY DomainFacts DEF WatchdogInv, StartsCounted, Running, Excused
<1>2. /\ ~sleepArming /\ systemResult # "FAILED" /\ ~(systemTurns < since)
      /\ \A d \in Domains : domainResult[d] # "FAILED"
  BY DEF Excused, Wrapped
<1>3. systemTurns > snapshot.turns /\ systemTurns > 0
  <2>1. Shows(systemTurns, TurnValues, snapshot.turns, since) /\ since > 0 /\ since \in Nat
    BY <1>1 DEF WatchdogInv, TurnsCounted, WatchdogTypeOK
  <2>2. /\ TurnValues \in Nat \ {0} /\ systemTurns \in 0..(TurnValues - 1)
        /\ snapshot.turns \in 0..(TurnValues - 1)
    BY WatchdogSizes DEF WatchdogInv, WatchdogTypeOK
  <2>3. systemTurns = snapshot.turns + since
    BY <1>2, <2>1, <2>2, GrewByTurns
  <2>4. snapshot.turns \in Nat
    BY <2>2
  <2>5. QED
    BY <2>1, <2>3, <2>4
<1>4. systemTurns \in Int /\ snapshot.turns \in Int
  BY WatchdogSizes DEF WatchdogInv, WatchdogTypeOK
<1>5. ~NotProgressing /\ systemTurns # 0
  BY <1>3, <1>4 DEF NotProgressing
<1>6. PICK d \in Domains : DomainStalled(d)
  BY <1>2, <1>5 DEF Rejected
<1>7. snapshot.taken /\ ~moved[d] /\ work[d] + (IF d = Home THEN tickBox - 1 ELSE 0) > 0
  BY <1>2, <1>6 DEF DomainStalled
<1>8. d = "slow"
  BY <1>1, <1>7, DomainFacts
<1>9. work["slow"] > 0 /\ ~moved["slow"]
  <2>1. work["slow"] \in Nat /\ "slow" # Home
    BY DomainFacts DEF WatchdogInv, WatchdogTypeOK
  <2>2. QED
    BY <1>7, <1>8, <2>1
<1>10. misses = 0
  <2>1. misses \in Nat /\ ~(misses > 0)
    BY <1>1, <1>9 DEF WatchdogInv, WatchdogTypeOK, NoSecondMiss
  <2>2. QED
    BY <2>1
<1>11. QED
  BY <1>1, <1>9, <1>10

LEMMA TickHandledStep ==
  ASSUME WatchdogInv, NEW fed \in BOOLEAN, TickHandled(fed)
  PROVE  WatchdogInv'
<1>1. /\ Running(Home) /\ tickBox > 0 /\ tickBox' = tickBox - 1
      /\ domainRun' = [domainRun EXCEPT !.left = domainRun.left - 1]
      /\ ended' = FALSE /\ started' = {} /\ since' = 0
      /\ UNCHANGED <<supported, sleepArming, work, next, systemRun, systemTurns, systemResult, domainResult>>
  BY DEF TickHandled
<1>2. /\ tickBox' \in Nat /\ domainRun' \in [domain : Domains \cup {"none"}, left : Int]
      /\ domainRun'.domain = Home
  <2>1. tickBox \in Nat /\ domainRun \in [domain : Domains \cup {"none"}, left : Int]
    BY DEF WatchdogInv, WatchdogTypeOK
  <2>2. tickBox' \in Nat
    BY <1>1, <2>1
  <2>3. QED
    BY <1>1, <2>1, <2>2 DEF Running
<1>3. /\ next = "slow" /\ systemRun.on /\ Home # "slow" /\ 0 < MaxTurns
  <2>1. next = "slow" /\ systemRun.on /\ Home # "slow" /\ since < MaxTurns
    BY <1>1, DomainFacts DEF WatchdogInv, StartsCounted, TurnsCounted, Running
  <2>2. since \in Nat /\ MaxTurns \in Nat
    BY WatchdogSizes DEF WatchdogInv, WatchdogTypeOK
  <2>3. QED
    BY <2>1, <2>2
<1>4. CASE ~supported
  <2>1. UNCHANGED <<snapshot, moved, misses>>
    BY <1>4 DEF TickHandled
  <2>2. WatchdogTypeOK'
    BY <1>1, <1>2, <2>1 DEF WatchdogInv, WatchdogTypeOK
  <2>3. TurnsCounted'
    BY <1>1, <1>2, <1>3, <1>4, <2>1 DEF WatchdogInv, TurnsCounted
  <2>4. StartsCounted'
    BY <1>1, <1>2, <1>3, <1>4, <2>1 DEF WatchdogInv, StartsCounted, TurnsCounted
  <2>5. NoSecondMiss'
    BY <1>1, <2>1 DEF WatchdogInv, NoSecondMiss
  <2>6. QED
    BY <2>2, <2>3, <2>4, <2>5 DEF WatchdogInv
<1>5. CASE supported
  <2>1. /\ snapshot' = [taken |-> TRUE, turns |-> systemTurns] /\ moved' = All(FALSE)
        /\ misses' = IF Rejected /\ ~Excused THEN misses + 1 ELSE 0
    BY <1>5 DEF TickHandled, SnapshotAfter
  <2>2. misses' <= 1 /\ misses' \in Nat /\ (misses' > 0 => work["slow"] > 0)
    <3>1. CASE Rejected /\ ~Excused
      <4>1. misses = 0 /\ work["slow"] > 0
        BY <1>1, <1>5, <3>1, RejectedMeans
      <4>2. QED
        BY <2>1, <3>1, <4>1
    <3>2. CASE ~(Rejected /\ ~Excused)
      BY <2>1, <3>2
    <3>3. QED
      BY <3>1, <3>2
  <2>3. /\ moved' \in [Domains -> BOOLEAN] /\ \A d \in Domains : ~moved'[d]
    BY <2>1 DEF All
  <2>4. WatchdogTypeOK'
    <3>1. snapshot' \in [taken : BOOLEAN, turns : 0..(TurnValues - 1)]
      BY <2>1 DEF WatchdogInv, WatchdogTypeOK
    <3>2. QED
      BY <1>1, <1>2, <2>2, <2>3, <3>1 DEF WatchdogInv, WatchdogTypeOK
  <2>5. TurnsCounted'
    <3>1. Shows(systemTurns, TurnValues, systemTurns, 0)
      <4>1. systemTurns + 0 * TurnValues = systemTurns + 0
        BY WatchdogSizes DEF WatchdogInv, WatchdogTypeOK
      <4>2. QED
        BY <4>1 DEF Shows
    <3>2. snapshot'.taken /\ snapshot'.turns = systemTurns
      BY <2>1
    <3>3. QED
      BY <1>1, <1>2, <1>3, <1>5, <3>1, <3>2 DEF TurnsCounted
  <2>6. StartsCounted'
    BY <1>1, <1>2, <1>3, <2>3, DomainFacts DEF StartsCounted
  <2>7. NoSecondMiss'
    BY <1>1, <1>3, <2>2 DEF NoSecondMiss
  <2>8. QED
    BY <2>4, <2>5, <2>6, <2>7 DEF WatchdogInv
<1>6. QED
  BY <1>4, <1>5

\* Every reachable state of the watchdog and the pumps' counters.
THEOREM WatchdogInvAlways == WatchdogSpec => []WatchdogInv
<1>1. WatchdogInit => WatchdogInv
  <2> SUFFICES ASSUME WatchdogInit PROVE WatchdogInv
    OBVIOUS
  <2>1. /\ systemRun = [on |-> FALSE, budget |-> 0, turns |-> 0]
        /\ domainRun = [domain |-> "none", left |-> 0] /\ snapshot = [taken |-> FALSE, turns |-> 0]
        /\ work = [d \in Domains |-> 0] /\ moved = [d \in Domains |-> TRUE]
        /\ domainResult = [d \in Domains |-> "OK"]
    BY DEF WatchdogInit, NoSystemRun, NoDomainRun, NoSnapshot, All
  <2>2. WatchdogTypeOK
    <3>1. tickBox \in Nat /\ since \in Nat /\ misses \in Nat
      BY DEF WatchdogInit
    <3>2. /\ supported \in BOOLEAN /\ sleepArming \in BOOLEAN /\ next \in Domains
          /\ systemTurns \in 0..(TurnValues - 1) /\ systemResult \in {"OK", "FAILED"}
          /\ ended \in BOOLEAN /\ started \in SUBSET Domains
      BY WatchdogSizes, DomainFacts DEF WatchdogInit
    <3>3. /\ systemRun \in [on : BOOLEAN, budget : Int, turns : Nat]
          /\ domainRun \in [domain : Domains \cup {"none"}, left : Int]
          /\ snapshot \in [taken : BOOLEAN, turns : 0..(TurnValues - 1)]
      BY <2>1, WatchdogSizes
    <3>4. /\ work \in [Domains -> Nat] /\ moved \in [Domains -> BOOLEAN]
          /\ domainResult \in [Domains -> {"OK", "FAILED"}]
      BY <2>1
    <3>5. QED
      BY <3>1, <3>2, <3>3, <3>4 DEF WatchdogTypeOK
  <2>3. TurnsCounted
    <3>1. Shows(0, TurnValues, 0, 0)
      <4>1. 0 + 0 * TurnValues = 0 + 0
        BY WatchdogSizes
      <4>2. QED
        BY <4>1 DEF Shows
    <3>2. QED
      BY <2>1, <3>1, DomainFacts DEF WatchdogInit, TurnsCounted
  <2>4. StartsCounted
    BY <2>1, DomainFacts DEF WatchdogInit, StartsCounted
  <2>5. NoSecondMiss
    BY DEF WatchdogInit, NoSecondMiss
  <2>6. QED
    BY <2>2, <2>3, <2>4, <2>5 DEF WatchdogInv
<1>2. WatchdogInv /\ [WatchdogNext]_watchdogVars => WatchdogInv'
  <2> SUFFICES ASSUME WatchdogInv, [WatchdogNext]_watchdogVars PROVE WatchdogInv'
    OBVIOUS
  <2>1. CASE UNCHANGED watchdogVars
    BY <2>1 DEF watchdogVars, pumps, history, WatchdogInv, WatchdogTypeOK, TurnsCounted,
                StartsCounted, NoSecondMiss
  <2>2. CASE WatchdogNext
    BY <2>2, ArrivalStep, RunStartsStep, DomainStartsStep, DomainEndsStep, RunEndsStep,
       OtherHandledStep, TickHandledStep DEF WatchdogNext
  <2>3. QED
    BY <2>1, <2>2
<1>3. QED
  BY <1>1, <1>2, PTL DEF WatchdogSpec

(***************************************************************************)
(* A working system is fed: no two ticks in a row are rejected without     *)
(* excuse, for every width of the turn counter and every budget.           *)
(***************************************************************************)
THEOREM WorkingIsFedAlways == WatchdogSpec => []WorkingIsFed
<1>1. WatchdogInv => WorkingIsFed
  BY DEF WatchdogInv, NoSecondMiss, WorkingIsFed
<1>2. QED
  BY <1>1, WatchdogInvAlways, PTL

(***************************************************************************)
(* The watchdog is fed only if a run ended since the tick before, every    *)
(* domain with pending messages was started on, sleep is not being armed   *)
(* and no run failed: what ev_watchdog_snapshot_is_healthy() infers from   *)
(* counters that change at either end of a run is so.                      *)
(***************************************************************************)
THEOREM FeedMeansProgressAlways == WatchdogSpec => FeedMeansProgress
<1> DEFINE Progress ==
        verdict' = "fed" =>
          /\ ended /\ ~sleepArming /\ systemResult # "FAILED"
          /\ snapshot.taken => \A d \in Domains : work[d] > 0 => d \in started
<1>1. WatchdogInv /\ [WatchdogNext]_watchdogVars => [Progress]_watchdogVars
  <2> SUFFICES ASSUME WatchdogInv, WatchdogNext, verdict' = "fed"
               PROVE  /\ ended /\ ~sleepArming /\ systemResult # "FAILED"
                      /\ snapshot.taken => \A d \in Domains : work[d] > 0 => d \in started
    OBVIOUS
  <2>1. PICK fed \in BOOLEAN : TickHandled(fed)
    BY DEF WatchdogNext, Second, SleepArms, RunStarts, DomainStarts, DomainEnds, RunEnds,
           Arrives, OtherHandled
  <2>2. Running(Home) /\ tickBox > 0 /\ supported /\ ~Rejected
    BY <2>1 DEF TickHandled
  <2>3. /\ ~sleepArming /\ systemResult # "FAILED" /\ systemTurns # 0 /\ ~NotProgressing
        /\ \A d \in Domains : ~DomainStalled(d)
    BY <2>2 DEF Rejected
  <2>4. ended
    <3>1. ASSUME ~ended PROVE FALSE
      <4>1. since = 0 /\ Shows(systemTurns, TurnValues, snapshot.turns, since)
        BY <2>2, <3>1 DEF WatchdogInv, TurnsCounted, WatchdogTypeOK
      <4>2. /\ TurnValues \in Nat \ {0} /\ systemTurns \in 0..(TurnValues - 1)
            /\ snapshot.turns \in 0..(TurnValues - 1)
        BY WatchdogSizes DEF WatchdogInv, WatchdogTypeOK
      <4>3. systemTurns \in Nat /\ 0 \in Nat /\ ~(systemTurns < 0)
        BY <4>2
      <4>4. systemTurns = snapshot.turns + 0
        BY <4>1, <4>2, <4>3, GrewByTurns
      <4>5. systemTurns <= snapshot.turns
        BY <4>2, <4>4
      <4>6. ~snapshot.taken
        BY <2>3, <4>5 DEF NotProgressing
      <4>7. systemTurns = 0
        BY <4>4, <4>6 DEF WatchdogInv, TurnsCounted
      <4>8. QED
        BY <2>3, <4>7
    <3>2. QED
      BY <3>1
  <2>5. ASSUME snapshot.taken, NEW d \in Domains, work[d] > 0
        PROVE  d \in started
    <3>1. work[d] + (IF d = Home THEN tickBox - 1 ELSE 0) > 0
      <4>1. work[d] \in Nat /\ tickBox \in Nat
        BY DEF WatchdogInv, WatchdogTypeOK
      <4>2. QED
        BY <2>2, <2>5, <4>1
    <3>2. moved[d]
      BY <2>3, <2>5, <3>1 DEF DomainStalled
    <3>3. QED
      BY <2>2, <2>5, <3>2, DomainFacts DEF WatchdogInv, StartsCounted, Running
  <2>6. QED
    BY <2>3, <2>4, <2>5
<1>2. QED
  BY <1>1, WatchdogInvAlways, PTL DEF WatchdogSpec, FeedMeansProgress

-----------------------------------------------------------------------------
(* Buttons.  PressPhase says where in its press each button is, OneShadow    *)
(* that a configured expander drives what its actor believes.                *)

Pressing == <<"PRESS">>
Holding == <<"PRESS", "LONG">>
Over == {<<>>, <<"PRESS", "RELEASE", "SHORT">>, <<"PRESS", "LONG", "RELEASE">>}

PressPhase ==
    \A b \in Buttons :
        /\ b \in panel.stable => heard[b] = IF b \in panel.long THEN Holding ELSE Pressing
        /\ b \notin panel.stable => b \notin panel.long /\ heard[b] \in Over

OneShadow == mcp.configured => olat = mcp.outputs

EarlyWhenReady == app.early => app.ready

ButtonsInv ==
    ButtonsTypeOK /\ PressPhase /\ PanelFollows /\ OneShadow /\ EarlyWhenReady /\ LedTellsPause

Heard == {"PRESS", "LONG", "RELEASE", "SHORT"}

LEMMA Words ==
  /\ \A a \in Heard : <<a>> \in Seq(Heard)
  /\ \A a, b \in Heard : <<a, b>> \in Seq(Heard)
<1>1. \A S : \A a \in S : <<a>> \in Seq(S)
  OBVIOUS
<1>2. \A S : \A a, b \in S : <<a, b>> \in Seq(S)
  OBVIOUS
<1>3. QED
  BY <1>1, <1>2

LEMMA Joined ==
  \A s, t \in Seq(Heard) :
    /\ s \o t \in Seq(Heard) /\ Len(s \o t) = Len(s) + Len(t)
    /\ \A i \in 1..(Len(s) + Len(t)) : (s \o t)[i] = IF i <= Len(s) THEN s[i] ELSE t[i - Len(s)]
  OBVIOUS

LEMMA Spelled ==
  \A s \in Seq(Heard) :
    /\ Len(s) = 2 /\ s[1] = "PRESS" /\ s[2] = "LONG" => s = <<"PRESS", "LONG">>
    /\ Len(s) = 3 /\ s[1] = "PRESS" /\ s[2] = "LONG" /\ s[3] = "RELEASE"
       => s = <<"PRESS", "LONG", "RELEASE">>
    /\ Len(s) = 3 /\ s[1] = "PRESS" /\ s[2] = "RELEASE" /\ s[3] = "SHORT"
       => s = <<"PRESS", "RELEASE", "SHORT">>
  OBVIOUS

\* What follows what in a press.
LEMMA PressSums ==
  /\ Pressing \o <<"LONG">> = Holding
  /\ Pressing \o <<"RELEASE", "SHORT">> \in Over /\ Holding \o <<"RELEASE">> \in Over
  /\ Pressing \o <<>> = Pressing /\ Holding \o <<>> = Holding
  /\ \A s \in Over : s \o <<>> = s
  /\ Pressing \notin Over /\ Holding \notin Over
<1>1. /\ <<"PRESS">> \in Seq(Heard) /\ <<"LONG">> \in Seq(Heard) /\ <<"RELEASE">> \in Seq(Heard)
  BY Words DEF Heard
<1>2. <<"PRESS", "LONG">> \in Seq(Heard) /\ <<"RELEASE", "SHORT">> \in Seq(Heard)
  BY Words DEF Heard
<1>3. Pressing \o <<"LONG">> = Holding
  <2> DEFINE s == <<"PRESS">> \o <<"LONG">>
  <2>1. s \in Seq(Heard) /\ Len(s) = 2
    BY <1>1, Joined
  <2>2. s[1] = "PRESS"
    BY <1>1, Joined
  <2>3. s[2] = "LONG"
    BY <1>1, Joined
  <2>4. QED
    BY <2>1, <2>2, <2>3, Spelled DEF Pressing, Holding
<1>4. Pressing \o <<"RELEASE", "SHORT">> = <<"PRESS", "RELEASE", "SHORT">>
  <2> DEFINE s == <<"PRESS">> \o <<"RELEASE", "SHORT">>
  <2>1. s \in Seq(Heard) /\ Len(s) = 3
    BY <1>1, <1>2, Joined
  <2>2. s[1] = "PRESS"
    BY <1>1, <1>2, Joined
  <2>3. s[2] = "RELEASE"
    BY <1>1, <1>2, Joined
  <2>4. s[3] = "SHORT"
    BY <1>1, <1>2, Joined
  <2>5. QED
    BY <2>1, <2>2, <2>3, <2>4, Spelled DEF Pressing
<1>5. Holding \o <<"RELEASE">> = <<"PRESS", "LONG", "RELEASE">>
  <2> DEFINE s == <<"PRESS", "LONG">> \o <<"RELEASE">>
  <2>1. s \in Seq(Heard) /\ Len(s) = 3
    BY <1>1, <1>2, Joined
  <2>2. s[1] = "PRESS" /\ s[2] = "LONG"
    BY <1>1, <1>2, Joined
  <2>3. s[3] = "RELEASE"
    BY <1>1, <1>2, Joined
  <2>4. QED
    BY <2>1, <2>2, <2>3, Spelled DEF Holding
<1>6. Pressing \o <<>> = Pressing
  BY DEF Pressing
<1>7. Holding \o <<>> = Holding
  BY DEF Holding
<1>8. \A s \in Over : s \o <<>> = s
  BY DEF Over
<1>9. Pressing \notin Over
  BY DEF Pressing, Over
<1>10. Holding \notin Over
  BY DEF Holding, Over
<1>11. QED
  BY <1>3, <1>4, <1>5, <1>6, <1>7, <1>8, <1>9, <1>10 DEF Over

LEMMA EventsDiffer ==
  /\ <<"PRESS">> # <<"LONG">> /\ <<"PRESS">> # <<"RELEASE">> /\ <<"PRESS">> # <<"RELEASE", "SHORT">>
  /\ <<"PRESS">> # <<>> /\ <<"LONG">> # <<"RELEASE">> /\ <<"LONG">> # <<"RELEASE", "SHORT">>
  /\ <<"LONG">> # <<>>
  OBVIOUS

\* A tick of the panel takes each button one step on in its press.
LEMMA PanelTickPhase ==
  ASSUME ButtonsInv, panel' = PanelAfter, heard' = [b \in Buttons |-> HeardAfter(b)]
  PROVE  PressPhase'
<1> SUFFICES ASSUME NEW b \in Buttons
             PROVE  /\ b \in panel'.stable => heard'[b] = IF b \in panel'.long THEN Holding ELSE Pressing
                    /\ b \notin panel'.stable => b \notin panel'.long /\ heard'[b] \in Over
  BY DEF PressPhase
<1>1. /\ panel'.stable = panel.raw
      /\ b \in panel'.long <=> ~Turned(b) /\ (b \in panel.long \/ EventsOf(b) = <<"LONG">>)
  <2>1. panel \in [valid : BOOLEAN, raw : SUBSET Buttons, stable : SUBSET Buttons,
                   hold : [Buttons -> 0..LongTicks], long : SUBSET Buttons]
    BY DEF ButtonsInv, ButtonsTypeOK
  <2>2. QED
    BY <2>1 DEF PanelAfter
<1>2. heard'[b] = HeardAfter(b)
  OBVIOUS
<1>3. /\ b \in panel.stable => heard[b] = IF b \in panel.long THEN Holding ELSE Pressing
      /\ b \notin panel.stable => b \notin panel.long /\ heard[b] \in Over
  BY DEF ButtonsInv, PressPhase
<1>4. HeardAfter(b) =
         IF EventsOf(b) = <<"PRESS">> /\ heard[b] \in Over THEN Pressing ELSE heard[b] \o EventsOf(b)
  BY DEF HeardAfter, Pressing, Over
<1>5. CASE Turned(b) /\ b \in panel.raw
  <2>1. EventsOf(b) = <<"PRESS">> /\ b \notin panel.stable
    BY <1>5 DEF EventsOf, Turned
  <2>2. QED
    BY <1>1, <1>2, <1>3, <1>4, <1>5, <2>1
<1>6. CASE Turned(b) /\ b \notin panel.raw
  <2>1. EventsOf(b) = ReleaseEvents(b) /\ b \in panel.stable
    BY <1>6 DEF EventsOf, Turned
  <2>2. EventsOf(b) = IF b \in panel.long THEN <<"RELEASE">> ELSE <<"RELEASE", "SHORT">>
    BY <2>1 DEF ReleaseEvents
  <2>3. HeardAfter(b) \in Over
    BY <1>3, <1>4, <2>1, <2>2, PressSums
  <2>4. QED
    BY <1>1, <1>2, <1>6, <2>3
<1>7. CASE ~Turned(b)
  <2>1. (b \in panel.raw) <=> (b \in panel.stable)
    BY <1>7 DEF Turned
  <2>2. CASE b \in panel.stable /\ Held(b) >= LongTicks /\ b \notin panel.long
    <3>1. EventsOf(b) = <<"LONG">>
      BY <1>7, <2>2 DEF EventsOf
    <3>2. HeardAfter(b) = Holding
      BY <1>3, <1>4, <2>2, <3>1, PressSums, EventsDiffer
    <3>3. QED
      BY <1>1, <1>2, <1>7, <2>1, <2>2, <3>1, <3>2
  <2>3. CASE ~(b \in panel.stable /\ Held(b) >= LongTicks /\ b \notin panel.long)
    <3>1. EventsOf(b) = <<>>
      BY <1>7, <2>3 DEF EventsOf
    <3>2. HeardAfter(b) = heard[b]
      BY <1>3, <1>4, <3>1, PressSums, EventsDiffer
    <3>3. QED
      BY <1>1, <1>2, <1>3, <1>7, <2>1, <3>1, <3>2, EventsDiffer
  <2>4. QED
    BY <2>2, <2>3
<1>8. QED
  BY <1>5, <1>6, <1>7

LEMMA PanelSizes ==
  /\ ToggleButton \in Buttons /\ PausedLed \in Leds
  /\ LongTicks \in Nat /\ QueueCap \in Nat /\ 1 <= QueueCap
  BY ButtonsAssumption DEF Buttons, Leds, ToggleButton, PausedLed

-----------------------------------------------------------------------------
(* What the waiting commands ask of the paused LED, over what is driven.     *)

AskedOf(box, outputs) ==
    IF \E i \in 1..Len(box) : PausedLed \in box[i].valid
    THEN \E i \in 1..Len(box) :
            /\ PausedLed \in box[i].valid /\ PausedLed \in box[i].value
            /\ \A j \in 1..Len(box) : j > i => PausedLed \notin box[j].valid
    ELSE PausedLed \in outputs

\* The state of the LED asked for, in both states of a step.
LEMMA LedAskedIs ==
  /\ OneShadow => (LedAsked <=> AskedOf(ledBox, mcp.outputs))
  /\ OneShadow' => (LedAsked' <=> AskedOf(ledBox', mcp'.outputs))
<1>1. OneShadow => (LedAsked <=> AskedOf(ledBox, mcp.outputs))
  BY DEF OneShadow, LedAsked, AsksFor, AskedOf
<1>2. OneShadow' => (LedAsked' <=> AskedOf(ledBox', mcp'.outputs))
  BY DEF OneShadow, LedAsked, AsksFor, AskedOf
<1>3. QED
  BY <1>1, <1>2

\* A new command decides if it is about the LED.
LEMMA AskedLast ==
  ASSUME NEW box \in Seq(Command), NEW c \in Command, NEW outputs
  PROVE  /\ PausedLed \in c.valid =>
              (AskedOf(Append(box, c), outputs) <=> PausedLed \in c.value)
         /\ PausedLed \notin c.valid =>
              (AskedOf(Append(box, c), outputs) <=> AskedOf(box, outputs))
<1> DEFINE longer == Append(box, c)
           n == Len(box)
<1>1. /\ n \in Nat /\ Len(longer) = n + 1 /\ longer[n + 1] = c
      /\ \A i \in 1..n : longer[i] = box[i]
  OBVIOUS
<1>2. \A i \in 1..(n + 1) : i \in 1..n \/ i = n + 1
  BY <1>1
<1>3. \A i \in 1..n : i \in 1..(n + 1) /\ n + 1 > i
  BY <1>1
<1>4. n + 1 \in 1..(n + 1) /\ \A j \in 1..(n + 1) : ~(j > n + 1)
  BY <1>1
<1> HIDE DEF longer, n
<1>5. ASSUME PausedLed \in c.valid
      PROVE  AskedOf(longer, outputs) <=> PausedLed \in c.value
  BY <1>1, <1>2, <1>3, <1>4, <1>5 DEF AskedOf
<1>6. ASSUME PausedLed \notin c.valid
      PROVE  AskedOf(longer, outputs) <=> AskedOf(box, outputs)
  <2>1. \A i \in 1..(n + 1) : PausedLed \in longer[i].valid => i \in 1..n /\ longer[i] = box[i]
    BY <1>1, <1>2, <1>6
  <2>2. \A i \in 1..n : PausedLed \in box[i].valid => PausedLed \in longer[i].valid /\ i \in 1..(n + 1)
    BY <1>1, <1>3
  <2>3. n = Len(box)
    BY DEF n
  <2>4. QED
    BY <1>1, <2>1, <2>2, <2>3, <1>2, <1>3, <1>6 DEF AskedOf
<1>7. QED
  BY <1>5, <1>6 DEF longer

\* Obeying the oldest command changes nothing of what is asked for.
LEMMA AskedFirst ==
  ASSUME NEW box \in Seq(Command), box # <<>>, NEW outputs
  PROVE  AskedOf(Tail(box), Commanded(outputs, Head(box))) <=> AskedOf(box, outputs)
<1> DEFINE rest == Tail(box)
           n == Len(rest)
           c == Head(box)
<1>1. /\ n \in Nat /\ Len(box) = n + 1 /\ box[1] = c
      /\ \A i \in 1..n : rest[i] = box[i + 1]
  OBVIOUS
<1>2. \A i \in 1..(n + 1) : i = 1 \/ (i - 1 \in 1..n /\ (i - 1) + 1 = i)
  BY <1>1
<1>3. \A i \in 1..n : i + 1 \in 1..(n + 1) /\ i + 1 > 1
  BY <1>1
<1>4. \A i, j \in 1..n : j > i <=> j + 1 > i + 1
  BY <1>1
<1>5. 1 \in 1..(n + 1) /\ \A j \in 1..(n + 1) : j > 1 => j - 1 \in 1..n /\ (j - 1) + 1 = j
  BY <1>1
<1>6. PausedLed \in Commanded(outputs, c) <=>
         IF PausedLed \in c.valid THEN PausedLed \in c.value ELSE PausedLed \in outputs
  BY DEF Commanded
<1> HIDE DEF rest, n, c
<1>7. Len(rest) = n
  BY DEF n
<1>8. CASE \E i \in 1..n : PausedLed \in rest[i].valid
  <2>1. \E i \in 1..(n + 1) : PausedLed \in box[i].valid
    BY <1>1, <1>3, <1>8
  <2>2. AskedOf(rest, Commanded(outputs, c)) <=>
           \E i \in 1..n : /\ PausedLed \in rest[i].valid /\ PausedLed \in rest[i].value
                           /\ \A j \in 1..n : j > i => PausedLed \notin rest[j].valid
    BY <1>7, <1>8 DEF AskedOf
  <2>3. AskedOf(box, outputs) <=>
           \E i \in 1..(n + 1) :
              /\ PausedLed \in box[i].valid /\ PausedLed \in box[i].value
              /\ \A j \in 1..(n + 1) : j > i => PausedLed \notin box[j].valid
    BY <1>1, <2>1 DEF AskedOf
  <2>4. ASSUME NEW i \in 1..n, PausedLed \in rest[i].valid, PausedLed \in rest[i].value,
               \A j \in 1..n : j > i => PausedLed \notin rest[j].valid
        PROVE  /\ i + 1 \in 1..(n + 1)
               /\ PausedLed \in box[i + 1].valid /\ PausedLed \in box[i + 1].value
               /\ \A j \in 1..(n + 1) : j > i + 1 => PausedLed \notin box[j].valid
    <3>1. i + 1 \in 1..(n + 1) /\ box[i + 1] = rest[i]
      BY <1>1, <1>3
    <3>2. ASSUME NEW j \in 1..(n + 1), j > i + 1 PROVE PausedLed \notin box[j].valid
      <4>1. j - 1 \in 1..n /\ (j - 1) + 1 = j /\ j - 1 > i
        BY <1>1, <3>2
      <4>2. PausedLed \notin rest[j - 1].valid /\ rest[j - 1] = box[(j - 1) + 1]
        BY <1>1, <2>4, <4>1
      <4>3. QED
        BY <4>1, <4>2
    <3>3. QED
      BY <2>4, <3>1, <3>2
  <2>5. ASSUME NEW i \in 1..(n + 1), PausedLed \in box[i].valid, PausedLed \in box[i].value,
               \A j \in 1..(n + 1) : j > i => PausedLed \notin box[j].valid
        PROVE  \E k \in 1..n : /\ PausedLed \in rest[k].valid /\ PausedLed \in rest[k].value
                               /\ \A j \in 1..n : j > k => PausedLed \notin rest[j].valid
    <3>1. i # 1
      <4>1. PICK k \in 1..n : PausedLed \in rest[k].valid
        BY <1>8
      <4>2. k + 1 \in 1..(n + 1) /\ k + 1 > 1 /\ box[k + 1] = rest[k]
        BY <1>1, <1>3
      <4>3. QED
        BY <2>5, <4>1, <4>2
    <3>2. i - 1 \in 1..n /\ box[i] = rest[i - 1]
      BY <1>1, <1>2, <3>1
    <3>3. ASSUME NEW j \in 1..n, j > i - 1 PROVE PausedLed \notin rest[j].valid
      <4>1. j + 1 \in 1..(n + 1) /\ j + 1 > i /\ box[j + 1] = rest[j]
        BY <1>1, <1>3, <3>3
      <4>2. QED
        BY <2>5, <4>1
    <3>4. QED
      BY <2>5, <3>2, <3>3
  <2>6. QED
    BY <2>2, <2>3, <2>4, <2>5 DEF rest, c
<1>9. CASE ~\E i \in 1..n : PausedLed \in rest[i].valid
  <2>1. \A i \in 1..(n + 1) : i # 1 => PausedLed \notin box[i].valid
    <3> SUFFICES ASSUME NEW i \in 1..(n + 1), i # 1 PROVE PausedLed \notin box[i].valid
      OBVIOUS
    <3>1. i - 1 \in 1..n /\ box[i] = rest[i - 1]
      BY <1>1, <1>2
    <3>2. QED
      BY <1>9, <3>1
  <2>2. AskedOf(rest, Commanded(outputs, c)) <=> PausedLed \in Commanded(outputs, c)
    BY <1>7, <1>9 DEF AskedOf
  <2>3. \A j \in 1..(n + 1) : j > 1 => j # 1
    BY <1>1
  <2>4. AskedOf(box, outputs) <=>
           IF PausedLed \in c.valid THEN PausedLed \in c.value ELSE PausedLed \in outputs
    BY <1>1, <1>5, <2>1, <2>3 DEF AskedOf
  <2>5. QED
    BY <1>6, <2>2, <2>4 DEF rest, c
<1>10. QED
  BY <1>8, <1>9 DEF rest, c

-----------------------------------------------------------------------------
(* What one step leaves of ButtonsInv, part by part.                         *)

LEMMA ButtonsFresh ==
  ASSUME mcp = Mcp0, panel = Panel0, app = App0, ledBox = <<>>, inputBox = <<>>, appBox = <<>>,
         heard = [b \in Buttons |-> <<>>], missed = FALSE, overruled = "no",
         pressed \subseteq Buttons, olat \subseteq Leds, calm \in BOOLEAN
  PROVE  ButtonsInv
<1>1. ButtonsTypeOK
  <2>1. panel \in [valid : BOOLEAN, raw : SUBSET Buttons, stable : SUBSET Buttons,
                   hold : [Buttons -> 0..LongTicks], long : SUBSET Buttons]
    BY PanelSizes DEF Panel0
  <2>2. /\ ledBox \in Seq(Command) /\ inputBox \in Seq(SUBSET Buttons) /\ appBox \in Seq({"SHORT"})
        /\ Len(ledBox) = 0 /\ Len(inputBox) = 0 /\ Len(appBox) = 0
    OBVIOUS
  <2>3. QED
    BY <2>1, <2>2, PanelSizes DEF ButtonsTypeOK, Mcp0, App0
<1>2. PressPhase
  BY DEF PressPhase, Panel0, Over
<1>3. PanelFollows
  BY DEF PanelFollows, ToldPanel, Panel0, Mcp0
<1>4. OneShadow /\ EarlyWhenReady
  BY DEF OneShadow, EarlyWhenReady, Mcp0, App0
<1>5. LedTellsPause
  <2>1. Len(ledBox) = 0 /\ \A i \in 1..0 : FALSE
    OBVIOUS
  <2>2. LedAsked <=> FALSE
    BY <2>1 DEF LedAsked, Mcp0
  <2>3. QED
    BY <2>2 DEF LedTellsPause, App0
<1>6. QED
  BY <1>1, <1>2, <1>3, <1>4, <1>5 DEF ButtonsInv

\* A restart begins anew whatever the hardware does.
LEMMA ButtonsRestarted ==
  ASSUME Restart, pressed' \subseteq Buttons, olat' \subseteq Leds, calm' \in BOOLEAN
  PROVE  ButtonsInv'
<1>1. /\ mcp' = Mcp0 /\ panel' = Panel0 /\ app' = App0
      /\ ledBox' = <<>> /\ inputBox' = <<>> /\ appBox' = <<>>
      /\ heard' = [b \in Buttons |-> <<>>] /\ missed' = FALSE /\ overruled' = "no"
  BY DEF Restart
<1>2. ButtonsTypeOK'
  <2>1. panel' \in [valid : BOOLEAN, raw : SUBSET Buttons, stable : SUBSET Buttons,
                   hold : [Buttons -> 0..LongTicks], long : SUBSET Buttons]
    BY <1>1, PanelSizes DEF Panel0
  <2>2. /\ ledBox' \in Seq(Command) /\ inputBox' \in Seq(SUBSET Buttons) /\ appBox' \in Seq({"SHORT"})
        /\ Len(ledBox') = 0 /\ Len(inputBox') = 0 /\ Len(appBox') = 0
    BY <1>1
  <2>3. QED
    BY <1>1, <2>1, <2>2, PanelSizes DEF ButtonsTypeOK, Mcp0, App0
<1>3. PressPhase'
  BY <1>1 DEF PressPhase, Panel0, Over
<1>4. PanelFollows'
  BY <1>1 DEF PanelFollows, ToldPanel, Panel0, Mcp0
<1>5. OneShadow' /\ EarlyWhenReady'
  BY <1>1 DEF OneShadow, EarlyWhenReady, Mcp0, App0
<1>6. LedTellsPause'
  <2>1. Len(ledBox') = 0 /\ \A i \in 1..0 : FALSE
    BY <1>1
  <2>2. LedAsked' <=> FALSE
    BY <1>1, <2>1 DEF LedAsked, Mcp0
  <2>3. QED
    BY <1>1, <2>2 DEF LedTellsPause, App0
<1>7. QED
  BY <1>2, <1>3, <1>4, <1>5, <1>6 DEF ButtonsInv

McpRecord == [booted : BOOLEAN, configured : BOOLEAN, announced : BOOLEAN,
              inputs : SUBSET Buttons, outputs : SUBSET Leds]

LEMMA PressKept ==
  ASSUME ButtonsInv, UNCHANGED <<panel, heard>>
  PROVE  PressPhase'
  BY DEF ButtonsInv, PressPhase

LEMMA LedKept ==
  ASSUME ButtonsInv, OneShadow', UNCHANGED <<app, overruled>>,
         AskedOf(ledBox', mcp'.outputs) <=> AskedOf(ledBox, mcp.outputs)
  PROVE  LedTellsPause'
  BY LedAskedIs DEF ButtonsInv, LedTellsPause

LEMMA CommandedIsLeds ==
  ASSUME NEW outputs \in SUBSET Leds, NEW c \in Command
  PROVE  Commanded(outputs, c) \subseteq Leds
  BY DEF Commanded, Command

\* The expander's actor configures: outputs first, then the inputs are taken over.
LEMMA TryConfigureStep ==
  ASSUME ButtonsInv, TryConfigure
  PROVE  ButtonsInv'
<1>1. ButtonsTypeOK /\ mcp \in McpRecord
  BY DEF ButtonsInv, ButtonsTypeOK, McpRecord
<1>2. CASE ConfigureFails
  <2>1. mcp' \in McpRecord /\ ~mcp'.configured /\ mcp'.outputs = mcp.outputs /\ mcp'.inputs = mcp.inputs
    BY <1>1, <1>2 DEF ConfigureFails, McpRecord
  <2>2. olat' \subseteq Leds
    BY <1>1, <1>2 DEF ConfigureFails, ButtonsTypeOK, McpRecord
  <2>3. /\ UNCHANGED <<pressed, calm, panel, app, ledBox, inputBox, appBox, heard, missed, overruled>>
    BY <1>2 DEF ConfigureFails
  <2>4. ButtonsTypeOK'
    BY <1>1, <2>1, <2>2, <2>3 DEF ButtonsTypeOK, McpRecord
  <2>5. OneShadow' /\ EarlyWhenReady' /\ PanelFollows'
    BY <2>1, <2>3 DEF OneShadow, EarlyWhenReady, PanelFollows, ToldPanel, ButtonsInv
  <2>6. QED
    BY <2>1, <2>3, <2>4, <2>5, PressKept, LedKept DEF ButtonsInv
<1>3. CASE Configure
  <2>1. mcp' \in McpRecord /\ mcp'.outputs = mcp.outputs /\ mcp'.inputs = pressed
    BY <1>1, <1>3 DEF Configure, McpRecord, ButtonsTypeOK
  <2>2. olat' \subseteq Leds /\ olat' = mcp.outputs /\ missed' = (missed \/ pressed # mcp.inputs)
    BY <1>1, <1>3 DEF Configure, McpRecord
  <2>3. UNCHANGED <<pressed, calm, panel, app, ledBox, inputBox, appBox, heard, overruled>>
    BY <1>3 DEF Configure
  <2>4. ButtonsTypeOK'
    BY <1>1, <2>1, <2>2, <2>3 DEF ButtonsTypeOK, McpRecord
  <2>5. OneShadow' /\ EarlyWhenReady'
    BY <2>1, <2>2, <2>3 DEF OneShadow, EarlyWhenReady, ButtonsInv
  <2>6. PanelFollows'
    BY <2>1, <2>2, <2>3 DEF PanelFollows, ToldPanel, ButtonsInv
  <2>7. QED
    BY <2>1, <2>3, <2>4, <2>5, <2>6, PressKept, LedKept DEF ButtonsInv
<1>4. CASE ConfigureUnannounced
  <2>1. Restart /\ UNCHANGED <<pressed, calm>> /\ olat' = mcp.outputs
    BY <1>4 DEF ConfigureUnannounced
  <2>2. pressed' \subseteq Buttons /\ olat' \subseteq Leds /\ calm' \in BOOLEAN
    BY <1>1, <2>1 DEF ButtonsTypeOK, McpRecord
  <2>3. QED
    BY <2>1, <2>2, ButtonsRestarted
<1>5. QED
  BY <1>2, <1>3, <1>4 DEF TryConfigure

\* A tick of the expander's actor.
LEMMA McpTickStep ==
  ASSUME ButtonsInv, McpTick
  PROVE  ButtonsInv'
<1>1. ButtonsTypeOK /\ mcp \in McpRecord
  BY DEF ButtonsInv, ButtonsTypeOK, McpRecord
<1>2. CASE ReadFails
  <2>1. mcp' \in McpRecord /\ ~mcp'.configured /\ mcp'.outputs = mcp.outputs /\ mcp'.inputs = mcp.inputs
    BY <1>1, <1>2 DEF ReadFails, McpRecord
  <2>2. UNCHANGED <<pressed, olat, calm, panel, app, ledBox, inputBox, appBox, heard, missed, overruled>>
    BY <1>2 DEF ReadFails
  <2>3. ButtonsTypeOK'
    BY <1>1, <2>1, <2>2 DEF ButtonsTypeOK, McpRecord
  <2>4. OneShadow' /\ EarlyWhenReady' /\ PanelFollows'
    BY <2>1, <2>2 DEF OneShadow, EarlyWhenReady, PanelFollows, ToldPanel, ButtonsInv
  <2>5. QED
    BY <2>1, <2>2, <2>3, <2>4, PressKept, LedKept DEF ButtonsInv
<1>3. CASE InputsRead
  <2>1. /\ mcp' \in McpRecord /\ mcp'.configured = mcp.configured
        /\ mcp'.outputs = mcp.outputs /\ mcp'.inputs = pressed
    BY <1>1, <1>3 DEF InputsRead, McpRecord, ButtonsTypeOK
  <2>2. UNCHANGED <<pressed, olat, calm, panel, app, ledBox, appBox, heard, overruled>>
    BY <1>3 DEF InputsRead
  <2>3. /\ inputBox' \in Seq(SUBSET Buttons) /\ Len(inputBox') <= QueueCap
        /\ inputBox' # <<>> /\ inputBox'[Len(inputBox')] = pressed
    <3>1. inputBox' = Append(inputBox, pressed) /\ Len(inputBox) < QueueCap
      BY <1>3 DEF InputsRead, HasRoom
    <3>2. inputBox \in Seq(SUBSET Buttons) /\ pressed \in SUBSET Buttons
      BY <1>1 DEF ButtonsTypeOK
    <3>3. QED
      BY <3>1, <3>2, PanelSizes
  <2>4. ButtonsTypeOK'
    BY <1>1, <2>1, <2>2, <2>3 DEF ButtonsTypeOK, McpRecord
  <2>5. OneShadow' /\ EarlyWhenReady'
    BY <2>1, <2>2 DEF OneShadow, EarlyWhenReady, ButtonsInv
  <2>6. PanelFollows'
    BY <2>1, <2>2, <2>3 DEF PanelFollows, ToldPanel, Last
  <2>7. QED
    BY <2>1, <2>2, <2>4, <2>5, <2>6, PressKept, LedKept DEF ButtonsInv
<1>4. CASE InputsRefused
  <2>1. Restart /\ UNCHANGED <<pressed, olat, calm>>
    BY <1>4 DEF InputsRefused
  <2>2. pressed' \subseteq Buttons /\ olat' \subseteq Leds /\ calm' \in BOOLEAN
    BY <1>1, <2>1 DEF ButtonsTypeOK
  <2>3. QED
    BY <2>1, <2>2, ButtonsRestarted
<1>5. QED
  BY <1>2, <1>3, <1>4, TryConfigureStep DEF McpTick

\* A command for the LEDs is obeyed, or put off until the next configuration.
LEMMA LedCmdStep ==
  ASSUME ButtonsInv, LedCmd
  PROVE  ButtonsInv'
<1> DEFINE outputs == Commanded(mcp.outputs, Head(ledBox))
<1>1. ButtonsTypeOK /\ mcp \in McpRecord
  BY DEF ButtonsInv, ButtonsTypeOK, McpRecord
<1>2. /\ ledBox \in Seq(Command) /\ ledBox # <<>> /\ ledBox' = Tail(ledBox)
      /\ UNCHANGED <<pressed, calm, panel, app, inputBox, appBox, heard, missed, overruled>>
  BY <1>1 DEF LedCmd, ButtonsTypeOK
<1>3. /\ Head(ledBox) \in Command /\ ledBox' \in Seq(Command)
      /\ Len(ledBox') <= QueueCap
  <2>1. Len(ledBox) <= QueueCap
    BY <1>1 DEF ButtonsTypeOK
  <2>2. QED
    BY <1>2, <2>1, PanelSizes
<1>4. outputs \subseteq Leds
  <2>1. mcp.outputs \in SUBSET Leds
    BY <1>1 DEF McpRecord
  <2>2. QED
    BY <1>3, <2>1, CommandedIsLeds
<1>5. AskedOf(ledBox', outputs) <=> AskedOf(ledBox, mcp.outputs)
  BY <1>2, AskedFirst
<1>6. \/ mcp.configured /\ OutputsFail(outputs)
      \/ /\ olat' = IF mcp.configured THEN outputs ELSE olat
         /\ mcp' = [mcp EXCEPT !.outputs = outputs]
  BY DEF LedCmd
<1> HIDE DEF outputs
<1>7. /\ mcp' \in McpRecord /\ mcp'.outputs = outputs /\ mcp'.inputs = mcp.inputs
      /\ olat' \subseteq Leds /\ OneShadow'
  <2>1. CASE OutputsFail(outputs)
    BY <1>1, <1>4, <2>1 DEF OutputsFail, McpRecord, ButtonsTypeOK, OneShadow
  <2>2. CASE /\ olat' = IF mcp.configured THEN outputs ELSE olat
             /\ mcp' = [mcp EXCEPT !.outputs = outputs]
    BY <1>1, <1>4, <2>2 DEF McpRecord, ButtonsTypeOK, OneShadow
  <2>3. QED
    BY <1>6, <2>1, <2>2
<1>8. ButtonsTypeOK'
  BY <1>1, <1>2, <1>3, <1>7 DEF ButtonsTypeOK, McpRecord
<1>9. EarlyWhenReady' /\ PanelFollows'
  BY <1>2, <1>7 DEF EarlyWhenReady, PanelFollows, ToldPanel, ButtonsInv
<1>10. QED
  BY <1>2, <1>5, <1>7, <1>8, <1>9, PressKept, LedKept DEF ButtonsInv

PanelRecord == [valid : BOOLEAN, raw : SUBSET Buttons, stable : SUBSET Buttons,
                hold : [Buttons -> 0..LongTicks], long : SUBSET Buttons]

LEMMA SameShadow ==
  ASSUME ButtonsInv, UNCHANGED <<mcp, olat>>
  PROVE  OneShadow'
  BY DEF ButtonsInv, OneShadow

\* The panel takes over the oldest inputs it was sent.
LEMMA InputChangedStep ==
  ASSUME ButtonsInv, InputChanged
  PROVE  ButtonsInv'
<1>1. ButtonsTypeOK /\ panel \in PanelRecord
  BY DEF ButtonsInv, ButtonsTypeOK, PanelRecord
<1>2. /\ inputBox # <<>> /\ inputBox' = Tail(inputBox)
      /\ panel' = [panel EXCEPT !.raw = Head(inputBox), !.valid = TRUE]
      /\ UNCHANGED <<pressed, olat, calm, mcp, app, ledBox, appBox, heard, missed, overruled>>
  BY DEF InputChanged
<1>3. inputBox \in Seq(SUBSET Buttons) /\ Len(inputBox) <= QueueCap
  BY <1>1 DEF ButtonsTypeOK
<1>4. /\ Head(inputBox) \in SUBSET Buttons /\ inputBox' \in Seq(SUBSET Buttons)
      /\ Len(inputBox') <= QueueCap
      /\ IF inputBox' = <<>> THEN Head(inputBox) = inputBox[Len(inputBox)]
         ELSE inputBox'[Len(inputBox')] = inputBox[Len(inputBox)]
  <2>1. Len(inputBox) \in Nat \ {0} /\ Head(inputBox) = inputBox[1]
    BY <1>2, <1>3
  <2>2. /\ inputBox' \in Seq(SUBSET Buttons) /\ Len(inputBox') = Len(inputBox) - 1
        /\ \A i \in 1..(Len(inputBox) - 1) : inputBox'[i] = inputBox[i + 1]
    BY <1>2, <1>3
  <2>3. Head(inputBox) \in SUBSET Buttons
    BY <1>2, <1>3
  <2>4. inputBox' = <<>> <=> Len(inputBox) = 1
    BY <2>1, <2>2
  <2>5. ASSUME inputBox' # <<>>
        PROVE  inputBox'[Len(inputBox')] = inputBox[Len(inputBox)]
    <3>1. Len(inputBox) - 1 \in 1..(Len(inputBox) - 1) /\ (Len(inputBox) - 1) + 1 = Len(inputBox)
      BY <2>1, <2>4, <2>5
    <3>2. QED
      BY <2>2, <3>1
  <2>6. QED
    BY <1>3, <2>1, <2>2, <2>3, <2>4, <2>5, PanelSizes
<1>5. /\ panel' \in PanelRecord /\ panel'.raw = Head(inputBox)
      /\ panel'.stable = panel.stable /\ panel'.long = panel.long
  BY <1>1, <1>2, <1>4 DEF PanelRecord
<1>6. ButtonsTypeOK'
  BY <1>1, <1>2, <1>4, <1>5 DEF ButtonsTypeOK, PanelRecord
<1>7. PressPhase'
  BY <1>2, <1>5 DEF ButtonsInv, PressPhase
<1>8. PanelFollows'
  BY <1>2, <1>4, <1>5 DEF ButtonsInv, PanelFollows, ToldPanel, Last
<1>9. EarlyWhenReady'
  BY <1>2 DEF ButtonsInv, EarlyWhenReady
<1>10. QED
  BY <1>2, <1>6, <1>7, <1>8, <1>9, SameShadow, LedKept DEF ButtonsInv

\* hold stops at LongTicks.
LEMMA PanelAfterType ==
  ASSUME ButtonsInv
  PROVE  PanelAfter \in PanelRecord /\ PanelAfter.raw = panel.raw
<1>1. panel \in PanelRecord
  BY DEF ButtonsInv, ButtonsTypeOK, PanelRecord
<1>2. ASSUME NEW b \in Buttons
      PROVE  (IF Turned(b) THEN 0
              ELSE IF b \in panel.stable /\ Held(b) <= LongTicks THEN Held(b) ELSE panel.hold[b])
             \in 0..LongTicks
  <2>1. panel.hold[b] \in 0..LongTicks
    BY <1>1 DEF PanelRecord
  <2>2. QED
    BY <2>1, PanelSizes DEF Held
<1>3. QED
  BY <1>1, <1>2 DEF PanelRecord, PanelAfter

LEMMA PanelTickStep ==
  ASSUME ButtonsInv, PanelTick
  PROVE  ButtonsInv'
<1>1. ButtonsTypeOK
  BY DEF ButtonsInv
<1>2. CASE EventsRefused
  <2>1. Restart /\ UNCHANGED <<pressed, olat, calm>>
    BY <1>2 DEF EventsRefused
  <2>2. pressed' \subseteq Buttons /\ olat' \subseteq Leds /\ calm' \in BOOLEAN
    BY <1>1, <2>1 DEF ButtonsTypeOK
  <2>3. QED
    BY <2>1, <2>2, ButtonsRestarted
<1>3. CASE /\ Len(AppBoxAfter) <= QueueCap
           /\ panel' = PanelAfter /\ appBox' = AppBoxAfter
           /\ heard' = [b \in Buttons |-> HeardAfter(b)]
           /\ UNCHANGED <<pressed, olat, calm, mcp, app, ledBox, inputBox, missed, overruled>>
  <2>1. panel' \in PanelRecord /\ panel'.raw = panel.raw
    BY <1>3, PanelAfterType
  <2>2. appBox' \in Seq({"SHORT"}) /\ Len(appBox') <= QueueCap
    <3>1. appBox \in Seq({"SHORT"})
      BY <1>1 DEF ButtonsTypeOK
    <3>2. Append(appBox, "SHORT") \in Seq({"SHORT"})
      BY <3>1
    <3>3. QED
      BY <1>3, <3>1, <3>2 DEF AppBoxAfter
  <2>3. ButtonsTypeOK'
    BY <1>1, <1>3, <2>1, <2>2 DEF ButtonsTypeOK, PanelRecord
  <2>4. PressPhase'
    BY <1>3, PanelTickPhase
  <2>5. PanelFollows' /\ EarlyWhenReady'
    BY <1>3, <2>1 DEF ButtonsInv, PanelFollows, ToldPanel, EarlyWhenReady
  <2>6. QED
    BY <1>3, <2>3, <2>4, <2>5, SameShadow, LedKept DEF ButtonsInv
<1>4. QED
  BY <1>2, <1>3 DEF PanelTick

\* A command joins the box: what is asked for is what it says, if it says anything.
LEMMA CommandJoins ==
  ASSUME ButtonsInv, NEW c \in Command, HasRoom(ledBox), ledBox' = Append(ledBox, c),
         UNCHANGED <<olat, mcp>>
  PROVE  /\ ledBox' \in Seq(Command) /\ Len(ledBox') <= QueueCap
         /\ PausedLed \in c.valid => (LedAsked' <=> PausedLed \in c.value)
         /\ PausedLed \notin c.valid => (LedAsked' <=> LedAsked)
<1>1. ledBox \in Seq(Command) /\ OneShadow
  BY DEF ButtonsInv, ButtonsTypeOK
<1>2. ledBox' \in Seq(Command) /\ Len(ledBox') <= QueueCap
  <2>1. Len(ledBox) < QueueCap
    BY DEF HasRoom
  <2>2. QED
    BY <1>1, <2>1, PanelSizes
<1>3. OneShadow'
  BY SameShadow
<1>4. /\ LedAsked' <=> AskedOf(Append(ledBox, c), mcp.outputs)
      /\ LedAsked <=> AskedOf(ledBox, mcp.outputs)
  BY <1>1, <1>3, LedAskedIs
<1>5. QED
  BY <1>1, <1>2, <1>4, AskedLast

\* The first EV_SYSTEM_READY.
LEMMA SystemReadyStep ==
  ASSUME ButtonsInv, SystemReady
  PROVE  ButtonsInv'
<1>1. ButtonsTypeOK /\ app \in [paused : BOOLEAN, ready : BOOLEAN, early : BOOLEAN]
  BY DEF ButtonsInv, ButtonsTypeOK
<1>2. ~app.ready /\ ~app.early
  BY DEF SystemReady, ButtonsInv, EarlyWhenReady
<1>3. CASE LedCommandFrom([app EXCEPT !.ready = TRUE, !.early = app.paused], {}, Leds)
  <2>1. UNCHANGED <<pressed, olat, calm>>
    BY <1>3 DEF LedCommandFrom
  <2>2. CASE Restart
    BY <1>1, <2>1, <2>2, ButtonsRestarted DEF ButtonsTypeOK
  <2>3. CASE /\ HasRoom(ledBox)
             /\ ledBox' = Append(ledBox, [value |-> {}, valid |-> Leds])
             /\ app' = [app EXCEPT !.ready = TRUE, !.early = app.paused]
             /\ overruled' = "no"
             /\ UNCHANGED <<mcp, panel, inputBox, appBox, heard, missed>>
    <3> DEFINE c == [value |-> {}, valid |-> Leds]
    <3>1. c \in Command /\ PausedLed \in c.valid /\ PausedLed \notin c.value
      BY PanelSizes DEF Command
    <3> HIDE DEF c
    <3>2. ledBox' = Append(ledBox, c)
      BY <2>3 DEF c
    <3>3. ledBox' \in Seq(Command) /\ Len(ledBox') <= QueueCap /\ ~LedAsked'
      BY <2>1, <2>3, <3>1, <3>2, CommandJoins
    <3>4. /\ app' \in [paused : BOOLEAN, ready : BOOLEAN, early : BOOLEAN]
          /\ app'.ready /\ (app'.paused <=> app'.early)
      BY <1>1, <2>3
    <3>5. ButtonsTypeOK'
      BY <1>1, <2>1, <2>3, <3>3, <3>4 DEF ButtonsTypeOK
    <3>6. LedTellsPause' /\ EarlyWhenReady'
      BY <2>3, <3>3, <3>4 DEF LedTellsPause, EarlyWhenReady
    <3>7. PanelFollows'
      BY <2>3 DEF ButtonsInv, PanelFollows, ToldPanel
    <3>8. QED
      BY <2>1, <2>3, <3>5, <3>6, <3>7, SameShadow, PressKept DEF ButtonsInv
  <2>4. QED
    BY <1>3, <2>2, <2>3 DEF LedCommandFrom
<1>4. CASE /\ app' = [app EXCEPT !.ready = TRUE]
           /\ UNCHANGED <<pressed, olat, calm, mcp, panel, ledBox, inputBox, appBox, heard, missed, overruled>>
  <2>1. /\ app' \in [paused : BOOLEAN, ready : BOOLEAN, early : BOOLEAN]
        /\ app'.ready /\ app'.paused = app.paused /\ app'.early = app.early
    BY <1>1, <1>4
  <2>2. ButtonsTypeOK'
    BY <1>1, <1>4, <2>1 DEF ButtonsTypeOK
  <2>3. LedAsked' <=> LedAsked
    BY <1>4 DEF LedAsked, AsksFor
  <2>4. LedTellsPause' /\ EarlyWhenReady' /\ PanelFollows'
    BY <1>4, <2>1, <2>3 DEF ButtonsInv, LedTellsPause, EarlyWhenReady, PanelFollows, ToldPanel
  <2>5. QED
    BY <1>4, <2>2, <2>4, SameShadow, PressKept DEF ButtonsInv
<1>5. QED
  BY <1>3, <1>4 DEF SystemReady

\* A short press of button 0 turns the pause round and says so to the LED.
LEMMA ShortPressStep ==
  ASSUME ButtonsInv, ShortPress
  PROVE  ButtonsInv'
<1>1. ButtonsTypeOK /\ app \in [paused : BOOLEAN, ready : BOOLEAN, early : BOOLEAN]
  BY DEF ButtonsInv, ButtonsTypeOK
<1>2. appBox # <<>> /\ UNCHANGED <<pressed, olat, calm>>
  BY DEF ShortPress
<1>3. CASE Restart
  BY <1>1, <1>2, <1>3, ButtonsRestarted DEF ButtonsTypeOK
<1>4. CASE /\ HasRoom(ledBox)
           /\ app' = [app EXCEPT !.paused = ~@, !.early = FALSE]
           /\ appBox' = Tail(appBox)
           /\ ledBox' = Append(ledBox, [value |-> PausedLeds(~app.paused), valid |-> {PausedLed}])
           /\ overruled' = "no"
           /\ UNCHANGED <<mcp, panel, inputBox, heard, missed>>
  <2> DEFINE c == [value |-> PausedLeds(~app.paused), valid |-> {PausedLed}]
  <2>1. c \in Command /\ PausedLed \in c.valid /\ (PausedLed \in c.value <=> ~app.paused)
    BY <1>1, PanelSizes DEF Command, PausedLeds
  <2> HIDE DEF c
  <2>2. ledBox' = Append(ledBox, c)
    BY <1>4 DEF c
  <2>3. ledBox' \in Seq(Command) /\ Len(ledBox') <= QueueCap /\ (LedAsked' <=> ~app.paused)
    BY <1>2, <1>4, <2>1, <2>2, CommandJoins
  <2>4. /\ app' \in [paused : BOOLEAN, ready : BOOLEAN, early : BOOLEAN]
        /\ app'.paused = ~app.paused /\ ~app'.early
    BY <1>1, <1>4
  <2>5. appBox' \in Seq({"SHORT"}) /\ Len(appBox') <= QueueCap
    <3>1. appBox \in Seq({"SHORT"}) /\ Len(appBox) <= QueueCap
      BY <1>1 DEF ButtonsTypeOK
    <3>2. QED
      BY <1>2, <1>4, <3>1, PanelSizes
  <2>6. ButtonsTypeOK'
    BY <1>1, <1>2, <1>4, <2>3, <2>4, <2>5 DEF ButtonsTypeOK
  <2>7. LedTellsPause' /\ EarlyWhenReady'
    BY <1>4, <2>3, <2>4 DEF LedTellsPause, EarlyWhenReady
  <2>8. PanelFollows'
    BY <1>4 DEF ButtonsInv, PanelFollows, ToldPanel
  <2>9. QED
    BY <1>2, <1>4, <2>6, <2>7, <2>8, SameShadow, PressKept DEF ButtonsInv
<1>5. QED
  BY <1>3, <1>4 DEF ShortPress

\* A remote command overrules the pause if it names the paused LED.
LEMMA RemoteLedsStep ==
  ASSUME ButtonsInv, NEW value \in SUBSET Leds, NEW valid \in SUBSET Leds, RemoteLeds(value, valid)
  PROVE  ButtonsInv'
<1> DEFINE c == [value |-> value, valid |-> valid]
<1>1. ButtonsTypeOK
  BY DEF ButtonsInv
<1>2. c \in Command /\ c.value = value /\ c.valid = valid
  BY DEF Command
<1> HIDE DEF c
<1>3. /\ HasRoom(ledBox) /\ ledBox' = Append(ledBox, c)
      /\ overruled' = IF PausedLed \notin valid THEN overruled
                      ELSE IF PausedLed \in value THEN "on" ELSE "off"
      /\ UNCHANGED <<pressed, olat, calm, mcp, panel, app, inputBox, appBox, heard, missed>>
  BY DEF RemoteLeds, c
<1>4. /\ ledBox' \in Seq(Command) /\ Len(ledBox') <= QueueCap
      /\ PausedLed \in valid => (LedAsked' <=> PausedLed \in value)
      /\ PausedLed \notin valid => (LedAsked' <=> LedAsked)
  BY <1>2, <1>3, CommandJoins
<1>5. ButtonsTypeOK'
  BY <1>1, <1>3, <1>4 DEF ButtonsTypeOK
<1>6. LedTellsPause'
  <2>1. CASE PausedLed \in valid
    BY <1>3, <1>4, <2>1 DEF LedTellsPause
  <2>2. CASE PausedLed \notin valid
    BY <1>3, <1>4, <2>2 DEF ButtonsInv, LedTellsPause
  <2>3. QED
    BY <2>1, <2>2
<1>7. EarlyWhenReady' /\ PanelFollows'
  BY <1>3 DEF ButtonsInv, EarlyWhenReady, PanelFollows, ToldPanel
<1>8. QED
  BY <1>3, <1>5, <1>6, <1>7, SameShadow, PressKept DEF ButtonsInv

LEMMA OutsideStep ==
  ASSUME ButtonsInv, PressOrRelease \/ Weather \/ UNCHANGED buttonsVars
  PROVE  ButtonsInv'
<1>1. pressed' \subseteq Buttons /\ calm' \in BOOLEAN /\ UNCHANGED <<olat, chip>>
  <2>1. ButtonsTypeOK
    BY DEF ButtonsInv
  <2>2. QED
    BY <2>1 DEF ButtonsTypeOK, PressOrRelease, Weather, buttonsVars
<1>2. UNCHANGED <<olat, mcp, panel, app, ledBox, inputBox, appBox, heard, missed, overruled>>
  BY <1>1 DEF chip
<1>3. ButtonsTypeOK'
  BY <1>1, <1>2 DEF ButtonsInv, ButtonsTypeOK
<1>4. LedAsked' <=> LedAsked
  BY <1>2 DEF LedAsked, AsksFor
<1>5. LedTellsPause' /\ EarlyWhenReady' /\ PanelFollows'
  BY <1>2, <1>4 DEF ButtonsInv, LedTellsPause, EarlyWhenReady, PanelFollows, ToldPanel
<1>6. QED
  BY <1>2, <1>3, <1>5, SameShadow, PressKept DEF ButtonsInv

\* ButtonsInv is inductive.
THEOREM ButtonsInvAlways == ButtonsSpec => []ButtonsInv
<1>1. ButtonsInit => ButtonsInv
  BY ButtonsFresh DEF ButtonsInit
<1>2. ButtonsInv /\ [ButtonsNext]_buttonsVars => ButtonsInv'
  <2> SUFFICES ASSUME ButtonsInv, [ButtonsNext]_buttonsVars PROVE ButtonsInv'
    OBVIOUS
  <2>1. CASE PressOrRelease \/ Weather \/ UNCHANGED buttonsVars
    BY <2>1, OutsideStep
  <2>2. CASE McpBoot
    BY <2>2, TryConfigureStep DEF McpBoot
  <2>3. CASE McpTick
    BY <2>3, McpTickStep
  <2>4. CASE LedCmd
    BY <2>4, LedCmdStep
  <2>5. CASE InputChanged
    BY <2>5, InputChangedStep
  <2>6. CASE PanelTick
    BY <2>6, PanelTickStep
  <2>7. CASE SystemReady
    BY <2>7, SystemReadyStep
  <2>8. CASE ShortPress
    BY <2>8, ShortPressStep
  <2>9. CASE \E value, valid \in SUBSET Leds : RemoteLeds(value, valid)
    BY <2>9, RemoteLedsStep
  <2>10. QED
    BY <2>1, <2>2, <2>3, <2>4, <2>5, <2>6, <2>7, <2>8, <2>9 DEF ButtonsNext
<1>3. QED
  BY <1>1, <1>2, PTL DEF ButtonsSpec

\* What each part of the state is; no mailbox outgrows its bound.
THEOREM ButtonsTypeAlways == ButtonsSpec => []ButtonsTypeOK
<1>1. ButtonsInv => ButtonsTypeOK
  BY DEF ButtonsInv
<1>2. QED
  BY <1>1, ButtonsInvAlways, PTL

(***************************************************************************)
(* Presses are heard whole and one after the other, however inputs are     *)
(* read, missed and refused, and however often the chip restarts.          *)
(***************************************************************************)
THEOREM PressProtocolAlways == ButtonsSpec => []PressProtocol
<1>1. ButtonsInv => PressProtocol
  BY DEF ButtonsInv, PressPhase, PressProtocol, Pressing, Holding, Over
<1>2. QED
  BY <1>1, ButtonsInvAlways, PTL

(***************************************************************************)
(* With its mailbox read the panel has the inputs the expander's actor     *)
(* last read, but for what a reconfiguration took over silently.           *)
(***************************************************************************)
THEOREM PanelFollowsAlways == ButtonsSpec => []PanelFollows
<1>1. ButtonsInv => PanelFollows
  BY DEF ButtonsInv
<1>2. QED
  BY <1>1, ButtonsInvAlways, PTL

(***************************************************************************)
(* Whatever commands wait, and whether or not the expander could be        *)
(* written, the paused LED asked for is what the newest remote command     *)
(* that named it asked for, and once the application has spoken again, or  *)
(* if none did, whether the display is paused; but after a pause the first *)
(* EV_SYSTEM_READY cleared the LED of.                                     *)
(***************************************************************************)
THEOREM LedTellsPauseAlways == ButtonsSpec => []LedTellsPause
<1>1. ButtonsInv => LedTellsPause
  BY DEF ButtonsInv
<1>2. QED
  BY <1>1, ButtonsInvAlways, PTL
==============================================================================
