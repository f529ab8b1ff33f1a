---------------------------- MODULE Sleep_proofs ----------------------------
(***************************************************************************)
(* Proofs about the way into deep sleep, for every number of interrupt     *)
(* lines, every ring capacity and every profile of the board.  The         *)
(* inductive invariant has one part for the types, one for where the       *)
(* handler and the adapter's call may be together, one for what is known   *)
(* to be quiet by then, and one for where each enabled line is: armed, or  *)
(* held by the call that will arm it again.                                *)
(***************************************************************************)
EXTENDS Sleep, TLAPS, WellFoundedInduction

Answers == {"none", "OK", "STATE", "woken", "timeout"}

Ops == [at   : {"idle", "blocked", "arm", "count", "status", "disable", "discard", "clear", "restore"},
        site : {"none", "wait", "enable", "prepare", "recheck", "confirm", "commit", "abort"},
        line : 0..NLines, mask : SUBSET Lines, seen : BOOLEAN, rc : Answers]

Types == TypeOK /\ op \in Ops /\ (op.at = "arm" => op.line \in Lines)

-----------------------------------------------------------------------------
\* Where the adapter's call may be at each step of the handler.
AtIdle == op.at = "idle" /\ op.site = "none"

OpAgrees ==
    \/ AtIdle
    \/ step = "none" /\ op.at \in {"blocked", "arm"} /\ op.site \in {"wait", "enable"}
    \/ /\ step = "prepared?" /\ op.site \in {"prepare", "recheck"}
       /\ \/ op.at \in {"count", "status"}
          \/ op.at \in {"disable", "discard"} /\ op.site = "prepare"
          \/ op.at = "restore" /\ op.rc = "STATE"
    \/ step = "confirmed?" /\ op.at \in {"count", "status"} /\ op.site = "confirm"
    \/ step = "committed?" /\ op.at \in {"count", "status", "clear"} /\ op.site = "commit"
    \/ step = "leave" /\ op.at = "restore" /\ op.site = "abort"

\* What the handshake holds at each step.
FlagsAgree ==
    /\ step = "none" => ~arming
    /\ prepared <=> step \in {"deep sleep", "committed?", "enter", "asleep"}
    /\ step \in {"prepare", "prepared?", "confirmed?", "committed?"} => "irq" \in Profile
    /\ frozen # {} =>
          /\ "irq" \in Profile
          /\ step \notin {"none", "flush", "prepare"}
          /\ step = "prepared?" => AtIdle /\ op.rc = "OK"
          /\ step = "leave" => op.at = "restore"

Control == OpAgrees /\ FlagsAgree

-----------------------------------------------------------------------------
\* No line is armed and no edge is latched, and from then on none can be.
Still ==
    \/ step \in {"onewire", "i2c", "confirm", "confirmed?", "deep sleep", "committed?", "enter", "asleep"}
    \/ step = "prepared?" /\ AtIdle /\ op.rc = "OK"

\* The last count saw that no sample is left.
Checked ==
    \/ step \in {"deep sleep", "committed?", "enter", "asleep"}
    \/ step = "confirmed?" /\ AtIdle /\ op.rc = "OK"

Quiet ==
    "irq" \in Profile =>
        /\ step = "prepared?" /\ op.site = "recheck" /\ op.at \in {"count", "status"} => on = {}
        /\ Still => on = {} /\ status = {}
        /\ step = "confirmed?" /\ op.at = "status" => (op.seen <=> Pending)
        /\ Checked => ~Pending

-----------------------------------------------------------------------------
\* The lines that are off only until the sleep is given up.
Held == IF op.at = "restore" \/ op.site \in {"prepare", "recheck"} THEN op.mask ELSE frozen

Placed ==
    /\ on \cap Held = {}
    /\ on \cup Held = wanted \ deaf
    /\ op.site = "prepare" /\ op.at \in {"count", "status"} => op.mask = {}

SleepInv == Types /\ Control /\ Quiet /\ Placed /\ NoLostWakeup

-----------------------------------------------------------------------------
(* What the proofs use of the operators. *)
LEMMA MinIn ==
  ASSUME NEW S, S \subseteq Lines, S # {}
  PROVE  Min(S) \in S
<1>1. S \subseteq Nat
  BY IrqAssumption DEF Lines
<1>2. PICK x \in S : \A y \in S : <<y, x>> \notin OpToRel(<, Nat)
  BY <1>1, WFMin, NatLessThanWellFounded, Zenon
<1>3. \A y \in S : ~(y < x)
  BY <1>1, <1>2, Zenon DEF OpToRel
<1>4. \A y \in S : x <= y
  BY <1>1, <1>3
<1>5. QED
  BY <1>4 DEF Min

LEMMA IdleFields ==
  ASSUME NEW a \in Answers
  PROVE  /\ Idle(a) \in Ops /\ Idle(a).at = "idle" /\ Idle(a).site = "none"
         /\ Idle(a).mask = {} /\ Idle(a).rc = a
  BY IrqAssumption DEF Idle, Ops, Answers

LEMMA EnteredFields ==
  ASSUME NEW at \in {"blocked", "arm", "count", "restore"},
         NEW site \in {"wait", "enable", "prepare", "confirm", "commit", "abort"}
  PROVE  /\ Entered(at, site) \in Ops /\ Entered(at, site).at = at
         /\ Entered(at, site).site = site /\ Entered(at, site).mask = {}
         /\ Entered(at, site).rc = "none"
  BY IrqAssumption DEF Entered, Ops, Answers

LEMMA InitKeeps == Init => SleepInv
<1> SUFFICES ASSUME Init PROVE SleepInv
  OBVIOUS
<1>1. op \in Ops /\ op.at = "idle" /\ op.site = "none" /\ op.mask = {} /\ op.rc = "none"
  BY IdleFields DEF Init, IrqInit, Answers
<1>2. /\ on = {} /\ status = {} /\ ring = <<>> /\ decode = {} /\ dropped = 0 /\ sem = FALSE
      /\ frozen = {} /\ wanted = {} /\ deaf = {} /\ step = "none" /\ arming = FALSE /\ prepared = FALSE
  BY DEF Init, IrqInit
<1>3. Types
  <2>1. 0 \in 0..(CountWrap - 1) /\ Len(<<>>) <= RingCap
    BY IrqAssumption
  <2>2. <<>> \in Seq((SUBSET Lines) \ {{}})
    OBVIOUS
  <2>3. op.line \in 0..NLines /\ op.mask \subseteq Lines
    BY <1>1 DEF Ops
  <2>4. QED
    BY <1>1, <1>2, <2>1, <2>2, <2>3 DEF Types, TypeOK, IrqTypeOK, Steps
<1>4. Control
  BY <1>1, <1>2 DEF Control, OpAgrees, FlagsAgree, AtIdle
<1>5. Quiet
  BY <1>1, <1>2 DEF Quiet, Still, Checked, AtIdle
<1>6. Placed
  BY <1>1, <1>2 DEF Placed, Held
<1>7. NoLostWakeup
  BY <1>1 DEF NoLostWakeup
<1>8. QED
  BY <1>3, <1>4, <1>5, <1>6, <1>7 DEF SleepInv

-----------------------------------------------------------------------------
(* What the handler may do to the adapter, and the fields of its call. *)

\* A step of the handler: the adapter is left alone.
LEMMA HandlerStep ==
  ASSUME SleepInv, UNCHANGED irqVars,
         step' \in Steps, arming' \in BOOLEAN, prepared' \in BOOLEAN
  PROVE  Types' /\ Placed' /\ NoLostWakeup'
<1>1. Types'
  BY DEF SleepInv, Types, TypeOK, IrqTypeOK, irqVars
<1>2. Placed'
  BY DEF SleepInv, Placed, Held, irqVars
<1>3. NoLostWakeup'
  BY DEF SleepInv, NoLostWakeup, Pending, irqVars
<1>4. QED
  BY <1>1, <1>2, <1>3

\* A step that changes the adapter's call only.
LEMMA CallOnly ==
  ASSUME Types, UNCHANGED <<on, status, ring, decode, dropped, sem, frozen, wanted, deaf>>,
         op' \in Ops, op'.at # "arm",
         step' \in Steps, arming' \in BOOLEAN, prepared' \in BOOLEAN
  PROVE  Types'
<1>1. op'.line \in 0..NLines /\ op'.mask \subseteq Lines
  BY DEF Ops
<1>2. QED
  BY <1>1 DEF Types, TypeOK, IrqTypeOK

LEMMA MovedTo ==
  ASSUME op \in Ops, NEW a \in {"disable", "clear"}, op' = [op EXCEPT !.at = a]
  PROVE  /\ op' \in Ops /\ op'.at = a /\ op'.site = op.site /\ op'.mask = op.mask /\ op'.rc = op.rc
         /\ op'.seen = op.seen
  BY DEF Ops

LEMMA MovedToStatus ==
  ASSUME op \in Ops, NEW v \in BOOLEAN, op' = [op EXCEPT !.at = "status", !.seen = v]
  PROVE  /\ op' \in Ops /\ op'.at = "status" /\ op'.site = op.site /\ op'.mask = op.mask
         /\ op'.rc = op.rc /\ op'.seen = v
  BY DEF Ops

LEMMA MovedBack ==
  ASSUME op \in Ops, op' = [op EXCEPT !.at = "restore", !.rc = "STATE"]
  PROVE  /\ op' \in Ops /\ op'.at = "restore" /\ op'.site = op.site /\ op'.mask = op.mask
         /\ op'.rc = "STATE"
  BY DEF Ops, Answers

LEMMA MovedToRecheck ==
  ASSUME op \in Ops, op' = [op EXCEPT !.at = "count", !.site = "recheck"]
  PROVE  op' \in Ops /\ op'.at = "count" /\ op'.site = "recheck" /\ op'.mask = op.mask
  BY DEF Ops

LEMMA TookLine ==
  ASSUME op \in Ops, NEW l \in Lines,
         op' = [op EXCEPT !.at = "discard", !.line = l, !.mask = @ \cup {l}]
  PROVE  /\ op' \in Ops /\ op'.at = "discard" /\ op'.site = op.site /\ op'.mask = op.mask \cup {l}
<1>1. l \in 0..NLines
  BY IrqAssumption DEF Lines
<1>2. QED
  BY <1>1 DEF Ops

LEMMA GaveLine ==
  ASSUME op \in Ops, NEW l \in Lines, NEW rc \in Answers,
         op' = [op EXCEPT !.mask = @ \ {l}, !.rc = rc]
  PROVE  /\ op' \in Ops /\ op'.at = op.at /\ op'.site = op.site /\ op'.mask = op.mask \ {l}
         /\ op'.rc = rc
  BY DEF Ops

LEMMA ArmsLine ==
  ASSUME NEW l \in Lines, op' = [Entered("arm", "enable") EXCEPT !.line = l]
  PROVE  op' \in Ops /\ op'.at = "arm" /\ op'.site = "enable" /\ op'.mask = {} /\ op'.line = l
<1> DEFINE e == Entered("arm", "enable")
<1>1. e \in Ops /\ e.at = "arm" /\ e.site = "enable" /\ e.mask = {}
  BY EnteredFields
<1>2. op' = [e EXCEPT !.line = l]
  OBVIOUS
<1> HIDE DEF e
<1>3. l \in 0..NLines
  BY IrqAssumption DEF Lines
<1>4. QED
  BY <1>1, <1>2, <1>3 DEF Ops

-----------------------------------------------------------------------------
(* The handler's steps that leave the adapter alone, then those that call it. *)

LEMMA RequestArmedKeeps ==
  ASSUME SleepInv, RequestArmed
  PROVE  SleepInv'
<1>1. Types' /\ Placed' /\ NoLostWakeup'
  BY HandlerStep DEF RequestArmed, SleepInv, Types, TypeOK, Steps
<1>2. Control'
  BY DEF RequestArmed, SleepInv, Types, Control, Free, OpAgrees, FlagsAgree, AtIdle, irqVars
<1>3. Quiet'
  BY DEF RequestArmed, SleepInv, Types, Control, Quiet, Still, Pending, irqVars
<1>4. QED
  BY <1>1, <1>2, <1>3 DEF SleepInv

LEMMA FlushFailsKeeps ==
  ASSUME SleepInv, FlushFails
  PROVE  SleepInv'
<1>1. Types' /\ Placed' /\ NoLostWakeup'
  BY HandlerStep DEF FlushFails, Leave, SleepInv, Types, TypeOK, Steps
<1>2. Control'
  BY DEF FlushFails, SleepInv, Types, Control, Leave, OpAgrees, FlagsAgree, AtIdle, irqVars
<1>3. Quiet'
  BY DEF FlushFails, SleepInv, Types, Control, Quiet, Leave, Still, Checked
<1>4. QED
  BY <1>1, <1>2, <1>3 DEF SleepInv

LEMMA FlushedKeeps ==
  ASSUME SleepInv, Flushed
  PROVE  SleepInv'
<1>1. Types' /\ Placed' /\ NoLostWakeup'
  BY HandlerStep DEF Flushed, SleepInv, Types, TypeOK, Steps
<1>2. Control'
  BY DEF Flushed, SleepInv, Types, Control, OpAgrees, FlagsAgree, AtIdle, irqVars
<1>3. Quiet'
  BY DEF Flushed, SleepInv, Types, Control, Quiet, FlagsAgree, Still, Checked
<1>4. QED
  BY <1>1, <1>2, <1>3 DEF SleepInv

LEMMA PrepareAnswersKeeps ==
  ASSUME SleepInv, PrepareAnswers
  PROVE  SleepInv'
<1>1. Types' /\ Placed' /\ NoLostWakeup'
  BY HandlerStep DEF PrepareAnswers, Leave, SleepInv, Types, TypeOK, Steps
<1>2. Control'
  BY DEF PrepareAnswers, SleepInv, Types, Control, Leave, OpAgrees, FlagsAgree, AtIdle, irqVars
<1>3. Quiet'
  BY DEF PrepareAnswers, SleepInv, Types, Control, Quiet, Leave, OpAgrees, Still, Checked,
     irqVars
<1>4. QED
  BY <1>1, <1>2, <1>3 DEF SleepInv

LEMMA EnterSleepKeeps ==
  ASSUME SleepInv, EnterSleep
  PROVE  SleepInv'
<1>1. Types' /\ Placed' /\ NoLostWakeup'
  BY HandlerStep DEF EnterSleep, SleepInv, Types, TypeOK, Steps
<1>2. Control'
  BY DEF EnterSleep, SleepInv, Types, Control, OpAgrees, FlagsAgree, AtIdle, irqVars
<1>3. Quiet'
  BY DEF EnterSleep, SleepInv, Types, Control, Quiet, Still, Checked, Pending, irqVars
<1>4. QED
  BY <1>1, <1>2, <1>3 DEF SleepInv

LEMMA LeftKeeps ==
  ASSUME SleepInv, Left
  PROVE  SleepInv'
<1>1. Types' /\ Placed' /\ NoLostWakeup'
  BY HandlerStep DEF Left, Leave, SleepInv, Types, TypeOK, Steps
<1>2. Control'
  BY DEF Left, SleepInv, Types, Control, Leave, OpAgrees, FlagsAgree, AtIdle, irqVars
<1>3. Quiet'
  BY DEF Left, SleepInv, Types, Control, Quiet, Leave, Still, Checked
<1>4. QED
  BY <1>1, <1>2, <1>3 DEF SleepInv

LEMMA BusReadyKeeps ==
  ASSUME SleepInv, NEW bus, NEW then,
         <<bus, then>> \in {<<"onewire", "i2c">>, <<"i2c", "confirm">>}, BusReady(bus, then)
  PROVE  SleepInv'
<1>1. Types' /\ Placed' /\ NoLostWakeup'
  BY HandlerStep DEF BusReady, SleepInv, Types, TypeOK, Steps
<1>2. Control'
  BY DEF BusReady, SleepInv, Types, Control, OpAgrees, FlagsAgree, AtIdle, irqVars
<1>3. Quiet'
  BY DEF BusReady, SleepInv, Types, Control, Quiet, Still, Checked, irqVars
<1>4. QED
  BY <1>1, <1>2, <1>3 DEF SleepInv

LEMMA RequestRefusedKeeps ==
  ASSUME SleepInv, RequestRefused
  PROVE  SleepInv'
<1>1. /\ op' \in Ops /\ op'.at = "idle" /\ op'.site = "none" /\ op'.mask = {}
      /\ op'.rc = "STATE"
  BY IdleFields DEF RequestRefused, Free, Answers, SleepInv, Types, Control, OpAgrees,
     FlagsAgree, AtIdle
<1>2. Types'
  BY <1>1, CallOnly DEF RequestRefused, SleepInv, Types, TypeOK
<1>3. Control'
  BY <1>1 DEF RequestRefused, SleepInv, Types, Control, Free, OpAgrees, FlagsAgree, AtIdle
<1>4. Quiet'
  BY <1>1 DEF RequestRefused, SleepInv, Types, Control, Quiet, Still, Checked, Pending
<1>5. Placed'
  BY <1>1 DEF RequestRefused, SleepInv, Types, Control, Placed, Free, OpAgrees, AtIdle, Held
<1>6. NoLostWakeup'
  BY <1>1 DEF RequestRefused, SleepInv, Control, NoLostWakeup
<1>7. QED
  BY <1>2, <1>3, <1>4, <1>5, <1>6 DEF SleepInv

LEMMA CallPrepareKeeps ==
  ASSUME SleepInv, CallPrepare
  PROVE  SleepInv'
<1>1. /\ op' \in Ops /\ op'.at = "count" /\ op'.site = "prepare" /\ op'.mask = {}
  <2>1. frozen = {}
    BY DEF CallPrepare, SleepInv, Control, FlagsAgree
  <2>2. QED
    BY <2>1, EnteredFields DEF CallPrepare, StartPrepare
<1>2. Types'
  BY <1>1, CallOnly DEF CallPrepare, SleepInv, Types, StartPrepare, TypeOK, Steps
<1>3. Control'
  BY <1>1 DEF CallPrepare, SleepInv, Types, Control, StartPrepare, OpAgrees, FlagsAgree
<1>4. Quiet'
  BY <1>1 DEF CallPrepare, SleepInv, Types, Control, Quiet, AtIdle, Still, Checked
<1>5. Placed'
  BY <1>1 DEF CallPrepare, SleepInv, Types, Control, Placed, StartPrepare, OpAgrees, FlagsAgree,
     AtIdle, Held
<1>6. NoLostWakeup'
  BY <1>1 DEF CallPrepare, SleepInv, Control, NoLostWakeup
<1>7. QED
  BY <1>2, <1>3, <1>4, <1>5, <1>6 DEF SleepInv

LEMMA CountPendingKeeps ==
  ASSUME SleepInv, CountPending, UNCHANGED <<step, arming, prepared>>
  PROVE  SleepInv'
<1>1. /\ op' \in Ops /\ op'.at = "status" /\ op'.site = op.site /\ op'.mask = op.mask
      /\ op'.seen = Pending
  BY MovedToStatus DEF CountPending, SleepInv, Types, Control, Pending
<1>2. Types'
  BY <1>1, CallOnly DEF CountPending, SleepInv, Types, TypeOK
<1>3. Control'
  BY <1>1 DEF CountPending, SleepInv, Types, Control, OpAgrees, FlagsAgree, AtIdle
<1>4. Quiet'
  BY <1>1 DEF CountPending, SleepInv, Types, Control, Quiet, AtIdle, Still, Checked, Pending
<1>5. Placed'
  BY <1>1 DEF CountPending, SleepInv, Types, Control, Placed, Held
<1>6. NoLostWakeup'
  BY <1>1 DEF CountPending, SleepInv, Control, NoLostWakeup
<1>7. QED
  BY <1>2, <1>3, <1>4, <1>5, <1>6 DEF SleepInv

LEMMA BusBusyOutKeeps ==
  ASSUME SleepInv, NEW bus \in {"onewire", "i2c"}, BusBusy(bus), "irq" \notin Profile
  PROVE  SleepInv'
<1>1. Types' /\ Placed' /\ NoLostWakeup'
  BY HandlerStep DEF BusBusy, Leave, SleepInv, Types, TypeOK, Steps
<1>2. Control'
  BY DEF BusBusy, SleepInv, Types, Control, Leave, OpAgrees, FlagsAgree, AtIdle, irqVars
<1>3. Quiet'
  BY DEF BusBusy, SleepInv, Types, Control, Quiet
<1>4. QED
  BY <1>1, <1>2, <1>3 DEF SleepInv

LEMMA CallConfirmOutKeeps ==
  ASSUME SleepInv, CallConfirm, "irq" \notin Profile
  PROVE  SleepInv'
<1>1. Types' /\ Placed' /\ NoLostWakeup'
  BY HandlerStep DEF CallConfirm, SleepInv, Types, TypeOK, Steps
<1>2. Control'
  BY DEF CallConfirm, SleepInv, Types, Control, OpAgrees, FlagsAgree, AtIdle, irqVars
<1>3. Quiet'
  BY DEF CallConfirm, SleepInv, Types, Control, Quiet
<1>4. QED
  BY <1>1, <1>2, <1>3 DEF SleepInv

LEMMA CallConfirmInKeeps ==
  ASSUME SleepInv, CallConfirm, "irq" \in Profile
  PROVE  SleepInv'
<1>1. /\ op' \in Ops /\ op'.at = "count" /\ op'.site = "confirm" /\ op'.mask = {}
  BY EnteredFields DEF CallConfirm, StartConfirm
<1>2. Types'
  BY <1>1, CallOnly DEF CallConfirm, SleepInv, Types, StartConfirm, TypeOK, Steps
<1>3. Control'
  BY <1>1 DEF CallConfirm, SleepInv, Types, Control, OpAgrees, FlagsAgree
<1>4. Quiet'
  BY <1>1 DEF CallConfirm, SleepInv, Types, Control, Quiet, StartConfirm, AtIdle, Still, Checked
<1>5. Placed'
  BY <1>1 DEF CallConfirm, SleepInv, Types, Control, Placed, StartConfirm, OpAgrees, AtIdle,
     Held
<1>6. NoLostWakeup'
  BY <1>1 DEF CallConfirm, SleepInv, Control, NoLostWakeup
<1>7. QED
  BY <1>2, <1>3, <1>4, <1>5, <1>6 DEF SleepInv

LEMMA ConfirmAnswersOKKeeps ==
  ASSUME SleepInv, ConfirmAnswers, op.rc = "OK"
  PROVE  SleepInv'
<1>1. Types' /\ Placed' /\ NoLostWakeup'
  BY HandlerStep DEF ConfirmAnswers, SleepInv, Types, TypeOK, Steps
<1>2. Control'
  BY DEF ConfirmAnswers, SleepInv, Types, Control, OpAgrees, FlagsAgree, AtIdle, irqVars
<1>3. Quiet'
  BY DEF ConfirmAnswers, SleepInv, Types, Control, Quiet, OpAgrees, Still, Checked, Pending,
     irqVars
<1>4. QED
  BY <1>1, <1>2, <1>3 DEF SleepInv

LEMMA CallCommitOutKeeps ==
  ASSUME SleepInv, CallCommit, "irq" \notin Profile
  PROVE  SleepInv'
<1>1. Types' /\ Placed' /\ NoLostWakeup'
  BY HandlerStep DEF CallCommit, SleepInv, Types, TypeOK, Steps
<1>2. Control'
  BY DEF CallCommit, SleepInv, Types, Control, OpAgrees, FlagsAgree, AtIdle, irqVars
<1>3. Quiet'
  BY DEF CallCommit, SleepInv, Types, Control, Quiet
<1>4. QED
  BY <1>1, <1>2, <1>3 DEF SleepInv

LEMMA CommitAnswersOKKeeps ==
  ASSUME SleepInv, CommitAnswers, op.rc = "OK"
  PROVE  SleepInv'
<1>1. Types' /\ Placed' /\ NoLostWakeup'
  BY HandlerStep DEF CommitAnswers, SleepInv, Types, TypeOK, Steps
<1>2. Control'
  BY DEF CommitAnswers, SleepInv, Types, Control, OpAgrees, FlagsAgree, AtIdle, irqVars
<1>3. Quiet'
  BY DEF CommitAnswers, SleepInv, Types, Control, Quiet, Still, Checked, Pending, irqVars
<1>4. QED
  BY <1>1, <1>2, <1>3 DEF SleepInv

\* The call that restores the lines: at once done when nothing is frozen.
AbortTook ==
    IF frozen = {} THEN op'.at = "idle" /\ op'.site = "none" /\ op'.mask = {} /\ op'.rc = "OK"
    ELSE op'.at = "restore" /\ op'.site = "abort" /\ op'.mask = frozen

LEMMA AbortFields ==
  ASSUME Types, StartAbort
  PROVE  /\ op' \in Ops /\ AbortTook
         /\ UNCHANGED <<on, status, ring, decode, dropped, sem, frozen, wanted, deaf>>
<1>1. CASE frozen = {}
  BY <1>1, IdleFields DEF StartAbort, AbortTook, Answers
<1>2. CASE frozen # {}
  <2>1. Entered("restore", "abort") \in Ops /\ Entered("restore", "abort").site = "abort"
        /\ Entered("restore", "abort").at = "restore"
    BY EnteredFields
  <2>2. op' = [Entered("restore", "abort") EXCEPT !.mask = frozen, !.rc = "OK"]
    BY <1>2 DEF StartAbort
  <2>3. frozen \in SUBSET Lines
    BY DEF Types, TypeOK, IrqTypeOK
  <2> DEFINE e == Entered("restore", "abort")
  <2> HIDE DEF e
  <2>4. op' \in Ops /\ op'.at = e.at /\ op'.site = e.site /\ op'.mask = frozen
    BY <2>1, <2>2, <2>3 DEF Ops, Answers, e
  <2>5. QED
    BY <1>2, <2>1, <2>4 DEF StartAbort, AbortTook
<1>3. QED
  BY <1>1, <1>2

LEMMA BusBusyInKeeps ==
  ASSUME SleepInv, NEW bus \in {"onewire", "i2c"}, BusBusy(bus), "irq" \in Profile
  PROVE  SleepInv'
<1>1. /\ op' \in Ops /\ AbortTook
      /\ UNCHANGED <<on, status, ring, decode, dropped, sem, frozen, wanted, deaf>>
  BY AbortFields DEF BusBusy, SleepInv, Types, Control
<1>2. Types'
  BY <1>1, CallOnly DEF BusBusy, SleepInv, Types, AbortTook, TypeOK, Steps
<1>3. Control'
  BY <1>1 DEF BusBusy, SleepInv, Types, Control, AbortTook, OpAgrees, FlagsAgree, AtIdle
<1>4. Quiet'
  BY <1>1 DEF BusBusy, SleepInv, Types, Control, Quiet, Still, Checked
<1>5. Placed'
  BY <1>1 DEF BusBusy, SleepInv, Types, Control, Placed, AbortTook, OpAgrees, AtIdle, Held
<1>6. NoLostWakeup'
  BY <1>1 DEF BusBusy, SleepInv, Control, NoLostWakeup, AbortTook
<1>7. QED
  BY <1>2, <1>3, <1>4, <1>5, <1>6 DEF SleepInv

LEMMA ConfirmAnswersBadKeeps ==
  ASSUME SleepInv, ConfirmAnswers, op.rc # "OK"
  PROVE  SleepInv'
<1>1. /\ op' \in Ops /\ AbortTook
      /\ UNCHANGED <<on, status, ring, decode, dropped, sem, frozen, wanted, deaf>>
  BY AbortFields DEF ConfirmAnswers, SleepInv, Types, Control
<1>2. Types'
  BY <1>1, CallOnly DEF ConfirmAnswers, SleepInv, Types, AbortTook, TypeOK, Steps
<1>3. Control'
  BY <1>1 DEF ConfirmAnswers, SleepInv, Types, Control, AbortTook, OpAgrees, FlagsAgree, AtIdle
<1>4. Quiet'
  BY <1>1 DEF ConfirmAnswers, SleepInv, Types, Control, Quiet, Still, Checked
<1>5. Placed'
  BY <1>1 DEF ConfirmAnswers, SleepInv, Types, Control, Placed, AbortTook, OpAgrees, AtIdle,
     Held
<1>6. NoLostWakeup'
  BY <1>1 DEF ConfirmAnswers, SleepInv, Control, NoLostWakeup, AbortTook
<1>7. QED
  BY <1>2, <1>3, <1>4, <1>5, <1>6 DEF SleepInv

LEMMA CancelInKeeps ==
  ASSUME SleepInv, CancelPrepare, prepared, "irq" \in Profile, step \in {"committed?", "enter"},
         op.at = "idle"
  PROVE  SleepInv'
<1>1. /\ op' \in Ops /\ AbortTook
      /\ UNCHANGED <<on, status, ring, decode, dropped, sem, frozen, wanted, deaf>>
  BY AbortFields DEF SleepInv, Types, Control, CancelPrepare
<1>2. Types'
  BY <1>1, CallOnly DEF SleepInv, Types, CancelPrepare, AbortTook, TypeOK, Steps
<1>3. Control'
  BY <1>1 DEF SleepInv, Types, Control, CancelPrepare, AbortTook, OpAgrees, FlagsAgree, AtIdle
<1>4. Quiet'
  BY <1>1 DEF SleepInv, Types, Control, Quiet, AbortTook, Still, Checked, Pending
<1>5. Placed'
  BY <1>1 DEF SleepInv, Types, Control, Placed, AbortTook, OpAgrees, AtIdle, Held
<1>6. NoLostWakeup'
  BY <1>1 DEF SleepInv, Control, NoLostWakeup, AbortTook
<1>7. QED
  BY <1>2, <1>3, <1>4, <1>5, <1>6 DEF SleepInv

LEMMA CancelOutKeeps ==
  ASSUME SleepInv, CancelPrepare, ~(prepared /\ "irq" \in Profile),
         step \in {"committed?", "enter"}, op.at = "idle"
  PROVE  SleepInv'
<1>1. Types' /\ Placed' /\ NoLostWakeup'
  BY HandlerStep DEF CancelPrepare, SleepInv, Types, TypeOK, Steps
<1>2. Control'
  BY DEF SleepInv, Types, Control, CancelPrepare, OpAgrees, FlagsAgree, AtIdle, irqVars
<1>3. Quiet'
  BY DEF SleepInv, Types, Control, Quiet, FlagsAgree
<1>4. QED
  BY <1>1, <1>2, <1>3 DEF SleepInv

LEMMA CallCommitInKeeps ==
  ASSUME SleepInv, CallCommit, "irq" \in Profile, frozen # {}, op' = Entered("count", "commit")
  PROVE  SleepInv'
<1>1. /\ op' \in Ops /\ op'.at = "count" /\ op'.site = "commit" /\ op'.mask = {}
  BY EnteredFields DEF CallCommit, SleepInv, Types, Control
<1>2. Types'
  BY <1>1, CallOnly DEF CallCommit, SleepInv, Types, StartCommit, TypeOK, Steps
<1>3. Control'
  BY <1>1 DEF CallCommit, SleepInv, Types, Control, OpAgrees, FlagsAgree
<1>4. Quiet'
  BY <1>1 DEF CallCommit, SleepInv, Types, Control, Quiet, StartCommit, Still, Checked, Pending
<1>5. Placed'
  BY <1>1 DEF CallCommit, SleepInv, Types, Control, Placed, StartCommit, OpAgrees, AtIdle, Held
<1>6. NoLostWakeup'
  BY <1>1 DEF CallCommit, SleepInv, Control, NoLostWakeup
<1>7. QED
  BY <1>2, <1>3, <1>4, <1>5, <1>6 DEF SleepInv

LEMMA CallCommitNoneKeeps ==
  ASSUME SleepInv, CallCommit, "irq" \in Profile, frozen = {}, op' = Idle("OK")
  PROVE  SleepInv'
<1>1. /\ op' \in Ops /\ op'.at = "idle" /\ op'.site = "none" /\ op'.mask = {} /\ op'.rc = "OK"
  BY IdleFields DEF Answers
<1>2. Types'
  BY <1>1, CallOnly DEF CallCommit, SleepInv, Types, StartCommit, TypeOK, Steps
<1>3. Control'
  BY <1>1 DEF CallCommit, SleepInv, Types, Control, OpAgrees, FlagsAgree, AtIdle
<1>4. Quiet'
  BY <1>1 DEF CallCommit, SleepInv, Types, Control, Quiet, StartCommit, Still, Checked, Pending
<1>5. Placed'
  BY <1>1 DEF CallCommit, SleepInv, Types, Control, Placed, StartCommit, OpAgrees, AtIdle, Held
<1>6. NoLostWakeup'
  BY <1>1 DEF CallCommit, SleepInv, Control, NoLostWakeup
<1>7. QED
  BY <1>2, <1>3, <1>4, <1>5, <1>6 DEF SleepInv

-----------------------------------------------------------------------------
(* The task's own calls, the rest of a call, and the interrupts. *)

LEMMA WaitReturnsKeeps ==
  ASSUME SleepInv, Free, WaitReturns, UNCHANGED <<step, arming, prepared>>
  PROVE  SleepInv'
<1>1. /\ op' \in Ops /\ op'.at = "idle" /\ op'.site = "none" /\ op'.mask = {}
      /\ op'.rc = "woken"
  BY IdleFields DEF WaitReturns, Free, Answers, SleepInv, Types, Control, OpAgrees, FlagsAgree,
     AtIdle
<1>2. Types'
  BY <1>1, CallOnly DEF WaitReturns, SleepInv, Types, TypeOK
<1>3. Control'
  BY <1>1 DEF WaitReturns, SleepInv, Types, Control, Free, OpAgrees, FlagsAgree, AtIdle
<1>4. Quiet'
  BY <1>1 DEF WaitReturns, SleepInv, Types, Control, Quiet, Still, Checked
<1>5. Placed'
  BY <1>1 DEF WaitReturns, SleepInv, Types, Control, Placed, OpAgrees, AtIdle, Held
<1>6. NoLostWakeup'
  BY <1>1 DEF WaitReturns, SleepInv, Control, NoLostWakeup
<1>7. QED
  BY <1>2, <1>3, <1>4, <1>5, <1>6 DEF SleepInv

LEMMA WaitBlocksKeeps ==
  ASSUME SleepInv, Free, WaitBlocks, UNCHANGED <<step, arming, prepared>>
  PROVE  SleepInv'
<1>1. /\ op' \in Ops /\ op'.at = "blocked" /\ op'.site = "wait" /\ op'.mask = {}
  BY EnteredFields DEF WaitBlocks
<1>2. Types'
  BY <1>1, CallOnly DEF WaitBlocks, SleepInv, Types, TypeOK
<1>3. Control'
  BY <1>1 DEF WaitBlocks, SleepInv, Types, Control, Free, OpAgrees, FlagsAgree
<1>4. Quiet'
  BY <1>1 DEF WaitBlocks, SleepInv, Types, Control, Quiet, AtIdle, Still, Pending
<1>5. Placed'
  BY <1>1 DEF WaitBlocks, SleepInv, Types, Control, Placed, OpAgrees, AtIdle, Held
<1>6. NoLostWakeup'
  BY <1>1 DEF WaitBlocks, SleepInv, Control, NoLostWakeup, Pending
<1>7. QED
  BY <1>2, <1>3, <1>4, <1>5, <1>6 DEF SleepInv

LEMMA WaitWokenKeeps ==
  ASSUME SleepInv, WaitWoken, UNCHANGED <<step, arming, prepared>>
  PROVE  SleepInv'
<1>1. /\ op' \in Ops /\ op'.at = "idle" /\ op'.site = "none" /\ op'.mask = {}
      /\ op'.rc = "woken"
  BY IdleFields DEF WaitWoken, Answers, SleepInv, Types, Control, OpAgrees, FlagsAgree, AtIdle
<1>2. Types'
  BY <1>1 DEF WaitWoken, SleepInv, Types, TypeOK, IrqTypeOK, Ops
<1>3. Control'
  BY <1>1 DEF WaitWoken, SleepInv, Types, Control, OpAgrees, FlagsAgree, AtIdle
<1>4. Quiet'
  BY <1>1 DEF WaitWoken, SleepInv, Types, Control, Quiet, Still, Checked, Pending
<1>5. Placed'
  BY <1>1 DEF WaitWoken, SleepInv, Types, Control, Placed, OpAgrees, AtIdle, Held
<1>6. NoLostWakeup'
  BY <1>1 DEF WaitWoken, SleepInv, Control, NoLostWakeup
<1>7. QED
  BY <1>2, <1>3, <1>4, <1>5, <1>6 DEF SleepInv

LEMMA WaitTimesOutKeeps ==
  ASSUME SleepInv, WaitTimesOut, UNCHANGED <<step, arming, prepared>>
  PROVE  SleepInv'
<1>1. /\ op' \in Ops /\ op'.at = "idle" /\ op'.site = "none" /\ op'.mask = {}
      /\ op'.rc = "timeout"
  BY IdleFields DEF WaitTimesOut, Answers, SleepInv, Types, Control, OpAgrees, FlagsAgree,
     AtIdle
<1>2. Types'
  BY <1>1 DEF WaitTimesOut, SleepInv, Types, TypeOK, IrqTypeOK, Ops
<1>3. Control'
  BY <1>1 DEF WaitTimesOut, SleepInv, Types, Control, OpAgrees, FlagsAgree, AtIdle
<1>4. Quiet'
  BY <1>1 DEF WaitTimesOut, SleepInv, Types, Control, Quiet, Still, Checked, Pending
<1>5. Placed'
  BY <1>1 DEF WaitTimesOut, SleepInv, Types, Control, Placed, OpAgrees, AtIdle, Held
<1>6. NoLostWakeup'
  BY <1>1 DEF WaitTimesOut, SleepInv, Control, NoLostWakeup
<1>7. QED
  BY <1>2, <1>3, <1>4, <1>5, <1>6 DEF SleepInv

LEMMA PopKeeps ==
  ASSUME SleepInv, Free, Pop, UNCHANGED <<step, arming, prepared>>
  PROVE  SleepInv'
<1>1. /\ op' \in Ops /\ op'.at = "idle" /\ op'.site = "none" /\ op'.mask = {} /\ op'.rc = "OK"
  BY IdleFields DEF Answers, Pop
<1>2. Types'
  <2>1. ring \in Seq((SUBSET Lines) \ {{}}) /\ Len(ring) <= RingCap /\ decode \subseteq Lines
    BY DEF SleepInv, Types, TypeOK, IrqTypeOK
  <2>2. decode = {} => ring # <<>>
    BY DEF Pop, Pending
  <2>3. decode = {} => /\ Head(ring) \subseteq Lines /\ Tail(ring) \in Seq((SUBSET Lines) \ {{}})
                       /\ Len(Tail(ring)) <= RingCap
    BY <2>1, <2>2, IrqAssumption
  <2>4. ring' \in Seq((SUBSET Lines) \ {{}}) /\ Len(ring') <= RingCap /\ decode' \subseteq Lines
    BY <2>1, <2>3 DEF Pop
  <2>5. op'.line \in 0..NLines /\ op'.mask \subseteq Lines
    BY <1>1 DEF Ops
  <2>6. QED
    BY <1>1, <2>4, <2>5 DEF Pop, SleepInv, Types, TypeOK, IrqTypeOK
<1>3. Control'
  BY <1>1 DEF Pop, SleepInv, Types, Control, OpAgrees, FlagsAgree, AtIdle
<1>4. Quiet'
  BY <1>1 DEF Pop, SleepInv, Types, Control, Quiet, Free, Still, Checked
<1>5. Placed'
  BY <1>1 DEF Pop, SleepInv, Types, Control, Placed, OpAgrees, AtIdle, Held
<1>6. NoLostWakeup'
  BY <1>1 DEF Pop, SleepInv, Control, NoLostWakeup
<1>7. QED
  BY <1>2, <1>3, <1>4, <1>5, <1>6 DEF SleepInv

LEMMA EnableClearsKeeps ==
  ASSUME SleepInv, Free, NEW l \in Lines, EnableClears(l), UNCHANGED <<step, arming, prepared>>
  PROVE  SleepInv'
<1>1. /\ op' \in Ops /\ op'.at = "arm" /\ op'.site = "enable" /\ op'.mask = {} /\ op'.line = l
  BY ArmsLine DEF EnableClears
<1>2. Types'
  <2>1. op'.line \in 0..NLines /\ op'.mask \subseteq Lines
    BY <1>1 DEF Ops
  <2>2. QED
    BY <1>1, <2>1 DEF EnableClears, SleepInv, Types, TypeOK, IrqTypeOK
<1>3. Control'
  BY <1>1 DEF EnableClears, SleepInv, Types, Control, Free, OpAgrees, FlagsAgree
<1>4. Quiet'
  BY <1>1 DEF EnableClears, SleepInv, Types, Control, Quiet, AtIdle, Still, Checked, Pending
<1>5. Placed'
  BY <1>1 DEF EnableClears, SleepInv, Types, Control, Placed, OpAgrees, AtIdle, Held
<1>6. NoLostWakeup'
  BY <1>1 DEF EnableClears, SleepInv, Control, NoLostWakeup
<1>7. QED
  BY <1>2, <1>3, <1>4, <1>5, <1>6 DEF SleepInv

LEMMA EnableArmsKeeps ==
  ASSUME SleepInv, NEW enabled \in BOOLEAN, NEW accepted \in BOOLEAN,
         EnableArms(enabled, accepted), UNCHANGED <<step, arming, prepared>>
  PROVE  SleepInv'
<1>1. /\ op' \in Ops /\ op'.at = "idle" /\ op'.site = "none" /\ op'.mask = {}
  BY IdleFields DEF Answers, EnableArms
<1>2. Types'
  <2>1. op'.line \in 0..NLines /\ op'.mask \subseteq Lines
    BY <1>1 DEF Ops
  <2>2. on \subseteq Lines /\ wanted \subseteq Lines /\ deaf \subseteq wanted
    BY DEF SleepInv, Types, TypeOK, IrqTypeOK
  <2>3. op.line \in Lines
    BY DEF EnableArms, SleepInv, Types
  <2>4. on' \subseteq Lines /\ wanted' \subseteq Lines /\ deaf' \subseteq wanted'
    BY <2>2, <2>3 DEF EnableArms
  <2>5. QED
    BY <1>1, <2>1, <2>4 DEF EnableArms, SleepInv, Types, TypeOK, IrqTypeOK
<1>3. Control'
  BY <1>1 DEF EnableArms, SleepInv, Types, Control, OpAgrees, FlagsAgree, AtIdle
<1>4. Quiet'
  BY <1>1 DEF EnableArms, SleepInv, Types, Control, Quiet, OpAgrees, AtIdle, Still, Checked
<1>5. Placed'
  BY <1>1 DEF EnableArms, SleepInv, Types, Control, Placed, OpAgrees, FlagsAgree, AtIdle, Held
<1>6. NoLostWakeup'
  BY <1>1 DEF EnableArms, SleepInv, Control, NoLostWakeup
<1>7. QED
  BY <1>2, <1>3, <1>4, <1>5, <1>6 DEF SleepInv

LEMMA CheckPassedPrepareKeeps ==
  ASSUME SleepInv, CheckPassed, op.site = "prepare", UNCHANGED <<step, arming, prepared>>
  PROVE  SleepInv'
<1>1. /\ op' \in Ops /\ op'.site = op.site /\ op'.mask = op.mask /\ op'.at = "disable"
  BY MovedTo DEF CheckPassed, SleepInv, Types, Control
<1>2. Types'
  BY <1>1, CallOnly DEF CheckPassed, SleepInv, Types, TypeOK
<1>3. Control'
  BY <1>1 DEF CheckPassed, SleepInv, Types, Control, OpAgrees, FlagsAgree, AtIdle
<1>4. Quiet'
  BY <1>1 DEF CheckPassed, SleepInv, Types, Control, Quiet, AtIdle, Still, Checked, Pending
<1>5. Placed'
  BY <1>1 DEF CheckPassed, SleepInv, Types, Control, Placed, Held
<1>6. NoLostWakeup'
  BY <1>1 DEF CheckPassed, SleepInv, Control, NoLostWakeup
<1>7. QED
  BY <1>2, <1>3, <1>4, <1>5, <1>6 DEF SleepInv

LEMMA CheckPassedCommitKeeps ==
  ASSUME SleepInv, CheckPassed, op.site = "commit", UNCHANGED <<step, arming, prepared>>
  PROVE  SleepInv'
<1>1. /\ op' \in Ops /\ op'.site = op.site /\ op'.mask = op.mask /\ op'.at = "clear"
  BY MovedTo DEF CheckPassed, SleepInv, Types, Control
<1>2. Types'
  BY <1>1, CallOnly DEF CheckPassed, SleepInv, Types, TypeOK
<1>3. Control'
  BY <1>1 DEF CheckPassed, SleepInv, Types, Control, OpAgrees, FlagsAgree, AtIdle
<1>4. Quiet'
  BY <1>1 DEF CheckPassed, SleepInv, Types, Control, Quiet, AtIdle, Still, Checked, Pending
<1>5. Placed'
  BY <1>1 DEF CheckPassed, SleepInv, Types, Control, Placed, Held
<1>6. NoLostWakeup'
  BY <1>1 DEF CheckPassed, SleepInv, Control, NoLostWakeup
<1>7. QED
  BY <1>2, <1>3, <1>4, <1>5, <1>6 DEF SleepInv

LEMMA CheckPassedOtherKeeps ==
  ASSUME SleepInv, CheckPassed, op.site \notin {"prepare", "commit"},
         UNCHANGED <<step, arming, prepared>>
  PROVE  SleepInv'
<1>1. /\ op' \in Ops /\ op'.at = "idle" /\ op'.site = "none" /\ op'.mask = {} /\ op'.rc = "OK"
  <2>1. op' = Idle("OK")
    BY DEF CheckPassed
  <2>2. QED
    BY <2>1, IdleFields DEF Answers
<1>2. Types'
  BY <1>1 DEF CheckPassed, SleepInv, Types, TypeOK, IrqTypeOK, Ops
<1>3. Control'
  BY <1>1 DEF CheckPassed, SleepInv, Types, Control, OpAgrees, FlagsAgree, AtIdle
<1>4. Quiet'
  BY <1>1 DEF CheckPassed, SleepInv, Types, Control, Quiet, OpAgrees, AtIdle, Still, Checked,
     Pending
<1>5. Placed'
  BY <1>1 DEF CheckPassed, SleepInv, Types, Control, Placed, Held
<1>6. NoLostWakeup'
  BY <1>1 DEF CheckPassed, SleepInv, Control, NoLostWakeup
<1>7. QED
  BY <1>2, <1>3, <1>4, <1>5, <1>6 DEF SleepInv

LEMMA CheckFailedOtherKeeps ==
  ASSUME SleepInv, CheckFailed, op.site # "recheck", UNCHANGED <<step, arming, prepared>>
  PROVE  SleepInv'
<1>1. /\ op' \in Ops /\ op'.at = "idle" /\ op'.site = "none" /\ op'.mask = {}
      /\ op'.rc = "STATE"
  <2>1. op' = Idle("STATE")
    BY DEF CheckFailed
  <2>2. QED
    BY <2>1, IdleFields DEF Answers
<1>2. Types'
  BY <1>1, CallOnly DEF CheckFailed, SleepInv, Types, TypeOK
<1>3. Control'
  BY <1>1 DEF CheckFailed, SleepInv, Types, Control, OpAgrees, FlagsAgree, AtIdle
<1>4. Quiet'
  BY <1>1 DEF CheckFailed, SleepInv, Types, Control, Quiet, Still, Checked, Pending
<1>5. Placed'
  BY <1>1 DEF CheckFailed, SleepInv, Types, Control, Placed, OpAgrees, FlagsAgree, AtIdle, Held
<1>6. NoLostWakeup'
  BY <1>1 DEF CheckFailed, SleepInv, Control, NoLostWakeup
<1>7. QED
  BY <1>2, <1>3, <1>4, <1>5, <1>6 DEF SleepInv

LEMMA CheckFailedRecheckKeeps ==
  ASSUME SleepInv, CheckFailed, op.site = "recheck", UNCHANGED <<step, arming, prepared>>
  PROVE  SleepInv'
<1>1. /\ op' \in Ops /\ op'.site = op.site /\ op'.mask = op.mask /\ op'.at = "restore"
      /\ op'.rc = "STATE"
  BY MovedBack DEF CheckFailed, SleepInv, Types, Rollback
<1>2. Types'
  BY <1>1, CallOnly DEF CheckFailed, SleepInv, Types, TypeOK
<1>3. Control'
  BY <1>1 DEF CheckFailed, SleepInv, Types, Control, OpAgrees, FlagsAgree, AtIdle
<1>4. Quiet'
  BY <1>1 DEF CheckFailed, SleepInv, Types, Control, Quiet, Still, Checked, Pending
<1>5. Placed'
  BY <1>1 DEF CheckFailed, SleepInv, Types, Control, Placed, Held
<1>6. NoLostWakeup'
  BY <1>1 DEF CheckFailed, SleepInv, Control, NoLostWakeup
<1>7. QED
  BY <1>2, <1>3, <1>4, <1>5, <1>6 DEF SleepInv

LEMMA DisableFailsKeeps ==
  ASSUME SleepInv, DisableFails, UNCHANGED <<step, arming, prepared>>
  PROVE  SleepInv'
<1>1. /\ op' \in Ops /\ op'.site = op.site /\ op'.mask = op.mask /\ op'.at = "restore"
      /\ op'.rc = "STATE"
  BY MovedBack DEF DisableFails, SleepInv, Types, Rollback
<1>2. Types'
  BY <1>1, CallOnly DEF DisableFails, SleepInv, Types, TypeOK
<1>3. Control'
  BY <1>1 DEF DisableFails, SleepInv, Types, Control, OpAgrees, FlagsAgree, AtIdle
<1>4. Quiet'
  BY <1>1 DEF DisableFails, SleepInv, Types, Control, Quiet, Still, Checked
<1>5. Placed'
  BY <1>1 DEF DisableFails, SleepInv, Types, Control, Placed, OpAgrees, AtIdle, Held
<1>6. NoLostWakeup'
  BY <1>1 DEF DisableFails, SleepInv, Control, NoLostWakeup
<1>7. QED
  BY <1>2, <1>3, <1>4, <1>5, <1>6 DEF SleepInv

LEMMA DisableLineKeeps ==
  ASSUME SleepInv, DisableLine, UNCHANGED <<step, arming, prepared>>
  PROVE  SleepInv'
<1>1. /\ Min(on) \in on /\ op' \in Ops /\ op'.at = "discard" /\ op'.site = op.site
      /\ op'.mask = op.mask \cup {Min(on)}
  <2>1. Min(on) \in on /\ Min(on) \in Lines
    BY MinIn DEF DisableLine, SleepInv, Types, TypeOK, IrqTypeOK
  <2>2. QED
    BY <2>1, TookLine DEF DisableLine, SleepInv, Types
<1>2. Types'
  <2>1. op'.line \in 0..NLines /\ op'.mask \subseteq Lines
    BY <1>1 DEF Ops
  <2>2. QED
    BY <1>1, <2>1 DEF DisableLine, SleepInv, Types, TypeOK, IrqTypeOK
<1>3. Control'
  BY <1>1 DEF DisableLine, SleepInv, Types, Control, OpAgrees, FlagsAgree, AtIdle
<1>4. Quiet'
  BY <1>1 DEF DisableLine, SleepInv, Types, Control, Quiet, AtIdle, Still, Checked
<1>5. Placed'
  BY <1>1 DEF DisableLine, SleepInv, Types, Control, Placed, OpAgrees, AtIdle, Held
<1>6. NoLostWakeup'
  BY <1>1 DEF DisableLine, SleepInv, Control, NoLostWakeup
<1>7. QED
  BY <1>2, <1>3, <1>4, <1>5, <1>6 DEF SleepInv

LEMMA DiscardLatchKeeps ==
  ASSUME SleepInv, DiscardLatch, UNCHANGED <<step, arming, prepared>>
  PROVE  SleepInv'
<1>1. /\ op' \in Ops /\ op'.site = op.site /\ op'.mask = op.mask /\ op'.at = "disable"
  BY MovedTo DEF DiscardLatch, SleepInv, Types
<1>2. Types'
  <2>1. op'.line \in 0..NLines /\ op'.mask \subseteq Lines
    BY <1>1 DEF Ops
  <2>2. QED
    BY <1>1, <2>1 DEF DiscardLatch, SleepInv, Types, TypeOK, IrqTypeOK
<1>3. Control'
  BY <1>1 DEF DiscardLatch, SleepInv, Types, Control, OpAgrees, FlagsAgree, AtIdle
<1>4. Quiet'
  BY <1>1 DEF DiscardLatch, SleepInv, Types, Control, Quiet, AtIdle, Still, Checked, Pending
<1>5. Placed'
  BY <1>1 DEF DiscardLatch, SleepInv, Types, Control, Placed, Held
<1>6. NoLostWakeup'
  BY <1>1 DEF DiscardLatch, SleepInv, Control, NoLostWakeup
<1>7. QED
  BY <1>2, <1>3, <1>4, <1>5, <1>6 DEF SleepInv

LEMMA AllDisabledKeeps ==
  ASSUME SleepInv, AllDisabled, UNCHANGED <<step, arming, prepared>>
  PROVE  SleepInv'
<1>1. /\ op' \in Ops /\ op'.site = "recheck" /\ op'.mask = op.mask /\ op'.at = "count"
  BY MovedToRecheck DEF AllDisabled, SleepInv, Types
<1>2. Types'
  BY <1>1, CallOnly DEF AllDisabled, SleepInv, Types, TypeOK
<1>3. Control'
  BY <1>1 DEF AllDisabled, SleepInv, Types, Control, OpAgrees, FlagsAgree, AtIdle
<1>4. Quiet'
  BY <1>1 DEF AllDisabled, SleepInv, Types, Control, Quiet, AtIdle, Still, Checked, Pending
<1>5. Placed'
  BY <1>1 DEF AllDisabled, SleepInv, Types, Control, Placed, OpAgrees, AtIdle, Held
<1>6. NoLostWakeup'
  BY <1>1 DEF AllDisabled, SleepInv, Control, NoLostWakeup
<1>7. QED
  BY <1>2, <1>3, <1>4, <1>5, <1>6 DEF SleepInv

LEMMA ClearLatchesKeeps ==
  ASSUME SleepInv, ClearLatches, UNCHANGED <<step, arming, prepared>>
  PROVE  SleepInv'
<1>1. /\ op' \in Ops /\ op'.at = "idle" /\ op'.site = "none" /\ op'.mask = {} /\ op'.rc = "OK"
  BY IdleFields DEF ClearLatches, Answers, SleepInv, Types, Control, OpAgrees, FlagsAgree,
     AtIdle
<1>2. Types'
  <2>1. op'.line \in 0..NLines /\ op'.mask \subseteq Lines
    BY <1>1 DEF Ops
  <2>2. QED
    BY <1>1, <2>1 DEF ClearLatches, SleepInv, Types, TypeOK, IrqTypeOK
<1>3. Control'
  BY <1>1 DEF ClearLatches, SleepInv, Types, Control, OpAgrees, FlagsAgree, AtIdle
<1>4. Quiet'
  BY <1>1 DEF ClearLatches, SleepInv, Types, Control, Quiet, OpAgrees, AtIdle, Still, Checked,
     Pending
<1>5. Placed'
  BY <1>1 DEF ClearLatches, SleepInv, Types, Control, Placed, OpAgrees, AtIdle, Held
<1>6. NoLostWakeup'
  BY <1>1 DEF ClearLatches, SleepInv, Control, NoLostWakeup
<1>7. QED
  BY <1>2, <1>3, <1>4, <1>5, <1>6 DEF SleepInv

LEMMA RestoreLineKeeps ==
  ASSUME SleepInv, NEW accepted \in BOOLEAN, RestoreLine(accepted),
         UNCHANGED <<step, arming, prepared>>
  PROVE  SleepInv'
<1>1. /\ Min(op.mask) \in op.mask /\ op' \in Ops /\ op'.at = "restore" /\ op'.site = op.site
      /\ op'.mask = op.mask \ {Min(op.mask)} /\ op'.rc = IF accepted THEN op.rc ELSE "STATE"
  <2>1. Min(op.mask) \in op.mask /\ Min(op.mask) \in Lines
    BY MinIn DEF RestoreLine, SleepInv, Types, TypeOK, IrqTypeOK
  <2>2. (IF accepted THEN op.rc ELSE "STATE") \in Answers
    BY DEF SleepInv, Types, Ops, Answers
  <2>3. op' = [op EXCEPT !.mask = @ \ {Min(op.mask)}, !.rc = IF accepted THEN @ ELSE "STATE"]
    BY DEF RestoreLine
  <2>4. op' = [op EXCEPT !.mask = @ \ {Min(op.mask)}, !.rc = IF accepted THEN op.rc ELSE "STATE"]
    BY <2>3
  <2>5. op \in Ops /\ op.at = "restore"
    BY DEF RestoreLine, SleepInv, Types
  <2>6. QED
    BY <2>1, <2>2, <2>4, <2>5, GaveLine
<1>2. Types'
  <2>1. op'.line \in 0..NLines /\ op'.mask \subseteq Lines
    BY <1>1 DEF Ops
  <2>2. Min(op.mask) \in wanted /\ Min(op.mask) \in Lines
    BY <1>1 DEF RestoreLine, SleepInv, Types, Placed, TypeOK, IrqTypeOK, Held
  <2>3. on' \subseteq Lines /\ deaf' \subseteq wanted
    BY <2>2 DEF RestoreLine, SleepInv, Types, TypeOK, IrqTypeOK
  <2>4. QED
    BY <1>1, <2>1, <2>3 DEF RestoreLine, SleepInv, Types, TypeOK, IrqTypeOK
<1>3. Control'
  BY <1>1 DEF RestoreLine, SleepInv, Types, Control, OpAgrees, FlagsAgree, AtIdle
<1>4. Quiet'
  BY <1>1 DEF RestoreLine, SleepInv, Types, Control, Quiet, OpAgrees, AtIdle, Still, Checked
<1>5. Placed'
  BY <1>1 DEF RestoreLine, SleepInv, Types, Control, Placed, Held
<1>6. NoLostWakeup'
  BY <1>1 DEF RestoreLine, SleepInv, Control, NoLostWakeup
<1>7. QED
  BY <1>2, <1>3, <1>4, <1>5, <1>6 DEF SleepInv

LEMMA RestoredKeeps ==
  ASSUME SleepInv, Restored, UNCHANGED <<step, arming, prepared>>
  PROVE  SleepInv'
<1>1. /\ op' \in Ops /\ op'.at = "idle" /\ op'.site = "none" /\ op'.mask = {} /\ op'.rc = op.rc
  <2>1. op.rc \in Answers
    BY DEF SleepInv, Types, Ops
  <2>2. QED
    BY <2>1, IdleFields DEF Restored
<1>2. Types'
  <2>1. op'.line \in 0..NLines /\ op'.mask \subseteq Lines
    BY <1>1 DEF Ops
  <2>2. QED
    BY <1>1, <2>1 DEF Restored, SleepInv, Types, TypeOK, IrqTypeOK
<1>3. Control'
  BY <1>1 DEF Restored, SleepInv, Types, Control, OpAgrees, FlagsAgree, AtIdle
<1>4. Quiet'
  BY <1>1 DEF Restored, SleepInv, Types, Control, Quiet, OpAgrees, Still, Checked, Pending
<1>5. Placed'
  BY <1>1 DEF Restored, SleepInv, Types, Control, Placed, Held
<1>6. NoLostWakeup'
  BY <1>1 DEF Restored, SleepInv, Control, NoLostWakeup
<1>7. QED
  BY <1>2, <1>3, <1>4, <1>5, <1>6 DEF SleepInv

LEMMA EdgeKeeps ==
  ASSUME SleepInv, NEW l \in Lines, Edge(l), Awake, UNCHANGED <<step, arming, prepared>>
  PROVE  SleepInv'
<1>2. Types'
  BY DEF Edge, SleepInv, Types, TypeOK, IrqTypeOK
<1>3. Control'
  BY DEF Edge, SleepInv, Types, Control, OpAgrees, FlagsAgree, AtIdle
<1>4. Quiet'
  BY DEF Edge, SleepInv, Types, Control, Quiet, AtIdle, Still, Checked
<1>5. Placed'
  BY DEF Edge, SleepInv, Types, Control, Placed, Held
<1>6. NoLostWakeup'
  BY DEF Edge, SleepInv, Control, NoLostWakeup, Pending
<1>7. QED
  BY <1>2, <1>3, <1>4, <1>5, <1>6 DEF SleepInv

LEMMA IsrKeeps ==
  ASSUME SleepInv, Isr, Awake, UNCHANGED <<step, arming, prepared>>
  PROVE  SleepInv'
<1>2. Types'
  <2>1. /\ ring \in Seq((SUBSET Lines) \ {{}}) /\ Len(ring) <= RingCap
        /\ dropped \in 0..(CountWrap - 1) /\ sem \in BOOLEAN
        /\ status \in (SUBSET Lines) \ {{}}
    BY DEF Isr, SleepInv, Types, TypeOK, IrqTypeOK
  <2>2. (dropped + 1) % CountWrap \in 0..(CountWrap - 1)
    BY <2>1, IrqAssumption
  <2>3. Len(ring) < RingCap =>
           Append(ring, status) \in Seq((SUBSET Lines) \ {{}}) /\ Len(Append(ring, status)) <= RingCap
    BY <2>1, IrqAssumption
  <2>4. /\ ring' \in Seq((SUBSET Lines) \ {{}}) /\ Len(ring') <= RingCap
        /\ dropped' \in 0..(CountWrap - 1) /\ sem' \in BOOLEAN
    BY <2>1, <2>2, <2>3 DEF Isr
  <2>5. QED
    BY <2>4 DEF Isr, SleepInv, Types, TypeOK, IrqTypeOK
<1>3. Control'
  BY DEF Isr, SleepInv, Types, Control, OpAgrees, FlagsAgree, AtIdle
<1>4. Quiet'
  BY DEF Isr, SleepInv, Types, Control, Quiet, AtIdle, Still, Checked
<1>5. Placed'
  BY DEF Isr, SleepInv, Types, Control, Placed, Held
<1>6. NoLostWakeup'
  BY DEF Isr, SleepInv, Control, NoLostWakeup, Pending
<1>7. QED
  BY <1>2, <1>3, <1>4, <1>5, <1>6 DEF SleepInv

LEMMA WakeKeeps ==
  ASSUME SleepInv, Wake
  PROVE  SleepInv'
<1>1. /\ op' \in Ops /\ op'.at = "idle" /\ op'.site = "none" /\ op'.mask = {} /\ op'.rc = "none"
  BY IdleFields DEF Wake, Answers, SleepInv, Types, Control, OpAgrees, FlagsAgree, AtIdle
<1>2. Types'
  <2>1. /\ <<>> \in Seq((SUBSET Lines) \ {{}}) /\ Len(<<>>) <= RingCap
        /\ 0 \in 0..(CountWrap - 1)
    BY IrqAssumption
  <2>2. op'.line \in 0..NLines /\ op'.mask \subseteq Lines
    BY <1>1 DEF Ops
  <2>3. QED
    BY <1>1, <2>1, <2>2 DEF Wake, Types, TypeOK, IrqTypeOK, Steps
<1>3. Control'
  BY <1>1 DEF Wake, SleepInv, Types, Control, OpAgrees, FlagsAgree, AtIdle
<1>4. Quiet'
  BY <1>1 DEF Wake, SleepInv, Types, Control, Quiet, Pending
<1>5. Placed'
  BY <1>1 DEF Wake, SleepInv, Types, Control, Placed, Held
<1>6. NoLostWakeup'
  BY <1>1 DEF Wake, SleepInv, Control, NoLostWakeup
<1>7. QED
  BY <1>2, <1>3, <1>4, <1>5, <1>6 DEF SleepInv

-----------------------------------------------------------------------------
LEMMA HandlerKeeps == SleepInv /\ Handler => SleepInv'
<1> SUFFICES ASSUME SleepInv, Handler PROVE SleepInv'
  OBVIOUS
<1>1. CASE RequestRefused
  BY <1>1, RequestRefusedKeeps
<1>2. CASE RequestArmed
  BY <1>2, RequestArmedKeeps
<1>3. CASE FlushFails
  BY <1>3, FlushFailsKeeps
<1>4. CASE Flushed
  BY <1>4, FlushedKeeps
<1>5. CASE CallPrepare
  BY <1>5, CallPrepareKeeps
<1>6. CASE PrepareAnswers
  BY <1>6, PrepareAnswersKeeps
<1>7. CASE BusReady("onewire", "i2c") \/ BusReady("i2c", "confirm")
  BY <1>7, BusReadyKeeps
<1>8. CASE BusBusy("onewire") \/ BusBusy("i2c")
  BY <1>8, BusBusyInKeeps, BusBusyOutKeeps
<1>9. CASE CallConfirm
  BY <1>9, CallConfirmInKeeps, CallConfirmOutKeeps
<1>10. CASE ConfirmAnswers
  BY <1>10, ConfirmAnswersOKKeeps, ConfirmAnswersBadKeeps
<1>11. CASE CallCommit
  <2>1. "irq" \in Profile => op' = IF frozen = {} THEN Idle("OK") ELSE Entered("count", "commit")
    BY <1>11 DEF CallCommit, StartCommit
  <2>2. QED
    BY <1>11, <2>1, CallCommitInKeeps, CallCommitNoneKeeps, CallCommitOutKeeps
<1>12. ASSUME CancelPrepare, step \in {"committed?", "enter"}, op.at = "idle" PROVE SleepInv'
  BY <1>12, CancelInKeeps, CancelOutKeeps
<1>13. CASE CommitAnswers
  <2>1. CASE op.rc = "OK"
    BY <1>13, <2>1, CommitAnswersOKKeeps
  <2>2. CASE op.rc # "OK"
    BY <1>12, <1>13, <2>2 DEF CommitAnswers
  <2>3. QED
    BY <2>1, <2>2
<1>14. CASE EnterSleep
  BY <1>14, EnterSleepKeeps
<1>15. CASE SleepFails
  <2>1. op.at = "idle"
    BY <1>15 DEF SleepInv, Control, SleepFails, OpAgrees, AtIdle
  <2>2. QED
    BY <1>12, <1>15, <2>1 DEF SleepFails
<1>16. CASE Left
  BY <1>16, LeftKeeps
<1>17. QED
  BY <1>1, <1>2, <1>3, <1>4, <1>5, <1>6, <1>7, <1>8, <1>9, <1>10, <1>11, <1>13, <1>14, <1>15,
     <1>16
  DEF Handler

LEMMA CallStepKeeps ==
  ASSUME SleepInv, CallStep, UNCHANGED <<step, arming, prepared>>
  PROVE  SleepInv'
<1>1. CASE WaitWoken \/ WaitTimesOut
  BY <1>1, WaitWokenKeeps, WaitTimesOutKeeps
<1>2. CASE \E enabled, accepted \in BOOLEAN : EnableArms(enabled, accepted)
  BY <1>2, EnableArmsKeeps
<1>3. CASE CountPending
  BY <1>3, CountPendingKeeps
<1>4. CASE CheckPassed
  BY <1>4, CheckPassedPrepareKeeps, CheckPassedCommitKeeps, CheckPassedOtherKeeps
<1>5. CASE CheckFailed
  BY <1>5, CheckFailedRecheckKeeps, CheckFailedOtherKeeps
<1>6. CASE DisableLine \/ DisableFails
  BY <1>6, DisableLineKeeps, DisableFailsKeeps
<1>7. CASE DiscardLatch \/ AllDisabled
  BY <1>7, DiscardLatchKeeps, AllDisabledKeeps
<1>8. CASE ClearLatches
  BY <1>8, ClearLatchesKeeps
<1>9. CASE \E accepted \in BOOLEAN : RestoreLine(accepted)
  BY <1>9, RestoreLineKeeps
<1>10. CASE Restored
  BY <1>10, RestoredKeeps
<1>11. QED
  BY <1>1, <1>2, <1>3, <1>4, <1>5, <1>6, <1>7, <1>8, <1>9, <1>10 DEF CallStep

LEMMA NextKeeps == SleepInv /\ [Next]_vars => SleepInv'
<1> SUFFICES ASSUME SleepInv, [Next]_vars PROVE SleepInv'
  OBVIOUS
<1>1. CASE Ingress
  <2>1. CASE Pop
    BY <1>1, <2>1, PopKeeps DEF Ingress
  <2>2. CASE WaitReturns
    BY <1>1, <2>2, WaitReturnsKeeps DEF Ingress
  <2>3. CASE WaitBlocks
    BY <1>1, <2>3, WaitBlocksKeeps DEF Ingress
  <2>4. CASE \E l \in Lines : EnableClears(l)
    BY <1>1, <2>4, EnableClearsKeeps DEF Ingress
  <2>5. QED
    BY <1>1, <2>1, <2>2, <2>3, <2>4 DEF Ingress
<1>2. CASE Handler
  BY <1>2, HandlerKeeps
<1>3. CASE Wake
  BY <1>3, WakeKeeps
<1>4. CASE Awake /\ CallStep /\ UNCHANGED <<step, arming, prepared>>
  BY <1>4, CallStepKeeps
<1>5. CASE Awake /\ Interrupts /\ UNCHANGED <<step, arming, prepared>>
  BY <1>5, IsrKeeps, EdgeKeeps DEF Interrupts
<1>6. CASE UNCHANGED vars
  <2>1. UNCHANGED <<on, status, ring, decode, dropped, sem, frozen, op, wanted, deaf, step, arming, prepared>>
    BY <1>6 DEF vars
  <2>2. Types' /\ Control' /\ NoLostWakeup'
    BY <2>1 DEF SleepInv, Types, TypeOK, IrqTypeOK, Control, OpAgrees, FlagsAgree, AtIdle,
       NoLostWakeup, Pending
  <2>3. Quiet' /\ Placed'
    BY <2>1 DEF SleepInv, Quiet, Placed, Still, Checked, Pending, AtIdle, Held
  <2>4. QED
    BY <2>2, <2>3 DEF SleepInv
<1>7. QED
  BY <1>1, <1>2, <1>3, <1>4, <1>5, <1>6 DEF Next

-----------------------------------------------------------------------------
\* The inductive invariant, for every board and every number of lines.
THEOREM SleepInvAlways == Spec => []SleepInv
  BY InitKeeps, NextKeeps, PTL DEF Spec

\* The adapter and the handshake keep their types: the ring its capacity
\* (ev_esp8266_irq_push_isr), every mask its lines.
THEOREM SleepTypeAlways == Spec => []TypeOK
<1>1. SleepInv => TypeOK
  BY DEF SleepInv, Types
<1>2. QED
  BY <1>1, SleepInvAlways, PTL

\* ev_esp8266_irq_wait() never blocks on samples without a token.
THEOREM NeverLostWakeup == Spec => []NoLostWakeup
<1>1. SleepInv => NoLostWakeup
  BY DEF SleepInv
<1>2. QED
  BY <1>1, SleepInvAlways, PTL

\* The chip never sleeps on an interrupt: whenever an edge came between two
\* steps of prepare, confirm and commit, one of the checks has seen it.
THEOREM AsleepIsQuiet == Spec => []AsleepMeansQuiet
<1>1. SleepInv => AsleepMeansQuiet
  BY DEF SleepInv, Quiet, Still, Checked, AsleepMeansQuiet
<1>2. QED
  BY <1>1, SleepInvAlways, PTL

\* ev_power_actor_handle() leaves no arming, no prepared flag and no frozen
\* line behind, however it ends.
THEOREM NothingLeft == Spec => []HandlerLeavesNothing
<1>1. SleepInv => HandlerLeavesNothing
  BY DEF SleepInv, Control, FlagsAgree, HandlerLeavesNothing
<1>2. QED
  BY <1>1, SleepInvAlways, PTL

\* Outside the handshake the armed lines are those that were enabled, but for
\* those the SDK refused (ev_esp8266_irq_restore_mask).
THEOREM LinesComeBack == Spec => []LinesRestored
<1>1. SleepInv => LinesRestored
  BY DEF SleepInv, Control, Placed, OpAgrees, FlagsAgree, AtIdle, Held, LinesRestored, Free
<1>2. QED
  BY <1>1, SleepInvAlways, PTL

\* ev_esp8266_irq_commit_sleep_prepare() writes the latches away when none
\* of them holds an edge.
THEOREM DiscardsNothing == Spec => CommitDiscardsNothing
<1>1. SleepInv /\ [Next]_vars => [op.at = "clear" /\ op'.at = "idle" => status = {}]_vars
  <2>1. ASSUME SleepInv, op.at = "clear" PROVE status = {}
    <3>1. step = "committed?" /\ "irq" \in Profile
      BY <2>1 DEF SleepInv, Control, OpAgrees, FlagsAgree, AtIdle
    <3>2. QED
      BY <2>1, <3>1 DEF SleepInv, Quiet, Still
  <2>2. QED
    BY <2>1
<1>2. QED
  BY <1>1, SleepInvAlways, PTL DEF Spec, CommitDiscardsNothing
=============================================================================
