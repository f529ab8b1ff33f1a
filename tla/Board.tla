-------------------------------- MODULE Board --------------------------------
(***************************************************************************)
(* The board's devices come up, drop out and come back: the clock's actor  *)
(* (core/src/ev_rtc_actor.c), the temperature sensor's                     *)
(* (core/src/ev_ds18b20_actor.c), the supervisor that collects readiness   *)
(* (core/src/ev_supervisor_actor.c) and the application that is told       *)
(* (app/ev_demo_app.c).  Of the expander and the display only the          *)
(* publication of readiness is here; Buttons and Display have the rest.    *)
(*                                                                         *)
(* Handlers run to completion and in any order between the actors.  Each   *)
(* mailbox is FIFO and EV_BOOT_COMPLETED is the first message of each, so  *)
(* nothing is handled before it.  A handler that fails ends the poll and   *)
(* the chip restarts; the devices go on.                                   *)
(***************************************************************************)
EXTENDS Integers, Sequences

CONSTANTS Simple,           \* the devices whose actors are not modelled here
          Times,            \* bound: values of the clock, which wraps
          FallbackTicks,    \* EV_RTC_FALLBACK_POLL_THRESHOLD_TICKS
          SettleTicks,      \* EV_SUPERVISOR_BOOT_SETTLE_TICKS
          SuperCap, AppCap  \* bounds: messages waiting for the supervisor, the application

ASSUME BoardAssumption ==
    /\ Simple \subseteq {"MCP23008", "OLED"} /\ Times \in Nat \ {0}
    /\ FallbackTicks \in Nat \ {0} /\ SettleTicks \in Nat \ {0} /\ SuperCap \in Nat \ {0}
    /\ AppCap \in Nat \ {0}

Devices == Simple \cup {"RTC", "DS18B20"}
Required == Devices \cap {"MCP23008", "RTC"}
Time == 0..(Times - 1)
NoTime == Times

Message == [kind : {"SYSTEM_READY"}, mask : SUBSET Devices]
           \cup [kind : {"TIME_UPDATED"}, time : Time] \cup [kind : {"TEMP_UPDATED"}]

VARIABLES working,    \* external: the buses work and the mailboxes have room
          now,        \* external: what the clock shows
          mcpNews,    \* EV_MCP23008_READY waiting for the clock's actor
          up,         \* the simple devices whose actors published readiness
          rtc, ds, supervisor, known,
          superBox,   \* readiness waiting for the supervisor
          appBox      \* what waits for the application
chip == <<mcpNews, up, rtc, ds, supervisor, known, superBox, appBox>>
boardVars == <<working, now, chip>>

\* blind is not in the code: the ticks handled since a reading was last tried.
Rtc0 == [booted |-> FALSE, valid |-> FALSE, last |-> 0, sqw |-> FALSE, line |-> FALSE,
         since |-> 0, blind |-> 0]
Ds0 == [booted |-> FALSE, pending |-> FALSE, valid |-> FALSE]
Supervisor0 == [active |-> {}, published |-> FALSE, ticks |-> 0]
App0 == [ready |-> FALSE, mask |-> {}, time |-> NoTime, temp |-> FALSE]

BoardInit ==
    /\ working \in BOOLEAN /\ now \in Time
    /\ mcpNews = FALSE /\ up = {}
    /\ rtc = Rtc0 /\ ds = Ds0 /\ supervisor = Supervisor0 /\ known = App0
    /\ superBox = <<>> /\ appBox = <<>>

\* A refused publication ends the poll and restarts the chip.
Refused ==
    /\ ~working
    /\ mcpNews' = FALSE /\ up' = {}
    /\ rtc' = Rtc0 /\ ds' = Ds0 /\ supervisor' = Supervisor0 /\ known' = App0
    /\ superBox' = <<>> /\ appBox' = <<>>

Weather == working' = ~working /\ UNCHANGED <<now, chip>>

Second == now' = (now + 1) % Times /\ UNCHANGED <<working, chip>>

SuperHasRoom(msgs) == Len(superBox) + Len(msgs) <= SuperCap
AppHasRoom(msgs) == Len(appBox) + Len(msgs) <= AppCap

-----------------------------------------------------------------------------
(* The clock. *)

ReadFails(record) ==
    /\ ~working /\ rtc' = record
    /\ UNCHANGED <<superBox, appBox>>

\* last_time and time_valid are set before anything is published.
ReadOk(record) ==
    LET ready == IF record.valid THEN <<>> ELSE <<"RTC">>
        update == IF record.valid /\ record.last = now THEN <<>>
                  ELSE <<[kind |-> "TIME_UPDATED", time |-> now]>>
    IN  /\ SuperHasRoom(ready) /\ AppHasRoom(update)
        /\ rtc' = [record EXCEPT !.valid = TRUE, !.last = now]
        /\ superBox' = superBox \o ready
        /\ appBox' = appBox \o update

PublishesTime(record) == ~record.valid \/ record.last # now

\* Fault: a refused publication is not passed on.
Fault_TimeRefused(record) ==
    /\ PublishesTime(record) /\ ~working
    /\ rtc' = [record EXCEPT !.valid = TRUE, !.last = now]
    /\ UNCHANGED <<mcpNews, up, ds, supervisor, known, superBox, appBox>>

TimeRefused(record) == PublishesTime(record) /\ Refused

\* ev_rtc_actor_try_refresh_time() with what the handler set before.
Refresh(record) ==
    LET seen == [record EXCEPT !.blind = 0]
    IN  (ReadFails(seen) \/ ReadOk(seen)) /\ UNCHANGED <<up, ds, supervisor, known>>

RtcBoot ==
    /\ ~rtc.booted
    /\ LET record == [rtc EXCEPT !.booted = TRUE]
       IN  \/ Refresh(record) /\ UNCHANGED mcpNews
           \/ TimeRefused(record)
    /\ UNCHANGED <<working, now>>

\* The square wave is switched on whenever the expander has been configured.
SquareWave ==
    /\ rtc.booted /\ mcpNews
    /\ mcpNews' = FALSE
    /\ \/ rtc' = [rtc EXCEPT !.sqw = TRUE, !.line = TRUE]
       \/ ~working /\ rtc' = [rtc EXCEPT !.sqw = FALSE]
    /\ UNCHANGED <<working, now, up, ds, supervisor, known, superBox, appBox>>

\* The square wave falls with every second once the line is enabled.  Samples
\* may be lost, come late, or be noise: there is one at any time or never.
GpioIrq ==
    /\ rtc.booted /\ rtc.line
    /\ LET record == [rtc EXCEPT !.since = 0]
       IN  \/ Refresh(record) /\ UNCHANGED mcpNews
           \/ TimeRefused(record)
    /\ UNCHANGED <<working, now>>

\* Fault: one tick too late.
Fault_PollDue(since) == ~rtc.sqw \/ since > FallbackTicks

PollDue(since) == ~rtc.sqw \/ since >= FallbackTicks

\* ticks_since_last_irq goes on counting after the threshold.
TickCounted == IF rtc.since < FallbackTicks THEN rtc.since + 1 ELSE rtc.since

RtcTick ==
    /\ rtc.booted
    /\ LET record == [rtc EXCEPT !.since = TickCounted]
       IN  IF PollDue(record.since)
           THEN \/ Refresh(record) /\ UNCHANGED mcpNews
                \/ TimeRefused(record)
           ELSE /\ rtc' = [record EXCEPT !.blind = @ + 1]
                /\ UNCHANGED <<mcpNews, up, ds, supervisor, known, superBox, appBox>>
    /\ UNCHANGED <<working, now>>

-----------------------------------------------------------------------------
(* The temperature sensor. *)

\* ev_ds18b20_actor_start_conversion(): no sensor or a bad bus leaves nothing pending.
Start(record) == \/ ds' = [record EXCEPT !.booted = TRUE, !.pending = TRUE]
                 \/ ~working /\ ds' = [record EXCEPT !.booted = TRUE, !.pending = FALSE]

DsBoot ==
    /\ ~ds.booted /\ Start(ds)
    /\ UNCHANGED <<working, now, mcpNews, up, rtc, supervisor, known, superBox, appBox>>

\* No sensor, a bad bus or a bad checksum: a new conversion is tried all the same.
ScratchpadFails ==
    /\ ds.booted
    /\ ~ds.pending \/ ~working
    /\ Start(ds)
    /\ UNCHANGED <<working, now, mcpNews, up, rtc, supervisor, known, superBox, appBox>>

ScratchpadOk ==
    /\ ds.booted /\ ds.pending
    /\ \/ LET ready == IF ds.valid THEN <<>> ELSE <<"DS18B20">>
              update == <<[kind |-> "TEMP_UPDATED"]>>
          IN  /\ SuperHasRoom(ready) /\ AppHasRoom(update)
              /\ Start([ds EXCEPT !.valid = TRUE])
              /\ superBox' = superBox \o ready
              /\ appBox' = appBox \o update
              /\ UNCHANGED <<mcpNews, up, rtc, supervisor, known>>
       \/ Refused
    /\ UNCHANGED <<working, now>>

DsTick == ScratchpadFails \/ ScratchpadOk

-----------------------------------------------------------------------------
(* The other devices: readiness follows a configuration that succeeded; the *)
(* expander's is published again after each later one, the display's too.   *)

Announces(d) ==
    /\ d \notin up
    /\ \/ /\ SuperHasRoom(<<d>>)
          /\ up' = up \cup {d}
          /\ superBox' = Append(superBox, d)
          /\ mcpNews' = (mcpNews \/ d = "MCP23008")
          /\ UNCHANGED <<rtc, ds, supervisor, known, appBox>>
       \/ Refused
    /\ UNCHANGED <<working, now>>

DropsOut(d) ==
    /\ d \in up /\ ~working
    /\ up' = up \ {d}
    /\ UNCHANGED <<working, now, mcpNews, rtc, ds, supervisor, known, superBox, appBox>>

-----------------------------------------------------------------------------
(* The supervisor. *)

Ready(mask) == [kind |-> "SYSTEM_READY", mask |-> mask]

\* observed_hardware_mask differs from the active one only after the last wait.
Settled(record) == Required \subseteq record.active \/ record.ticks >= SettleTicks

\* What a handler leaves behind: a first or a new report, if one is due.
Reports(record, due) ==
    \/ /\ ~due /\ supervisor' = record /\ UNCHANGED <<mcpNews, up, rtc, ds, known, appBox>>
    \/ /\ due /\ AppHasRoom(<<"SYSTEM_READY">>)
       /\ supervisor' = [record EXCEPT !.published = TRUE]
       /\ appBox' = Append(appBox, Ready(record.active))
       /\ UNCHANGED <<mcpNews, up, rtc, ds, known>>

\* Fault: once published, later devices are not reported.
Fault_ReportDue(record, becameActive) == ~record.published /\ Settled(record)

ReportDue(record, becameActive) ==
    IF record.published THEN becameActive ELSE Settled(record)

DeviceReady ==
    /\ superBox # <<>>
    /\ LET d == Head(superBox)
           record == [supervisor EXCEPT !.active = @ \cup {d}]
           due == ReportDue(record, d \notin supervisor.active)
       IN  \/ Reports(record, due) /\ superBox' = Tail(superBox)
           \/ due /\ Refused
    /\ UNCHANGED <<working, now>>

SupervisorTick ==
    /\ ~supervisor.published
    /\ LET record == [supervisor EXCEPT !.ticks = @ + 1]
           due == ReportDue(record, FALSE)
       IN  \/ Reports(record, due) /\ UNCHANGED superBox
           \/ due /\ Refused
    /\ UNCHANGED <<working, now>>

-----------------------------------------------------------------------------
(* The application.  Its own commands, the diagnostics request and the frame *)
(* may be refused.                                                           *)

AppAfter(msg) ==
    CASE msg.kind = "SYSTEM_READY" ->
            [known EXCEPT !.ready = TRUE, !.mask = msg.mask,
                        !.temp = @ /\ "DS18B20" \in msg.mask]
      [] msg.kind = "TIME_UPDATED" -> [known EXCEPT !.time = msg.time]
      [] msg.kind = "TEMP_UPDATED" -> [known EXCEPT !.temp = TRUE]

AppHandles ==
    /\ appBox # <<>>
    /\ \/ /\ known' = AppAfter(Head(appBox))
          /\ appBox' = Tail(appBox)
          /\ UNCHANGED <<mcpNews, up, rtc, ds, supervisor, superBox>>
       \/ Head(appBox).kind = "SYSTEM_READY" /\ Refused
    /\ UNCHANGED <<working, now>>

BoardNext ==
    \/ Weather \/ Second
    \/ RtcBoot \/ SquareWave \/ GpioIrq \/ RtcTick
    \/ DsBoot \/ DsTick
    \/ \E d \in Simple : Announces(d) \/ DropsOut(d)
    \/ DeviceReady \/ SupervisorTick
    \/ AppHandles

BoardSpec == BoardInit /\ [][BoardNext]_boardVars

(* Mailboxes are served in turn and ticks keep coming.  Where a mailbox of    *)
(* this instance is full the handler waits for room, so its fairness is       *)
(* strong: in the program the mailbox has room or the chip restarts.          *)
BoardFairness ==
    /\ WF_boardVars(AppHandles) /\ SF_boardVars(DeviceReady)
    /\ SF_boardVars(RtcBoot \/ RtcTick) /\ SF_boardVars(DsBoot \/ DsTick)
    /\ \A d \in Simple : SF_boardVars(Announces(d))
BoardFairSpec == BoardSpec /\ BoardFairness

-----------------------------------------------------------------------------
BoardTypeOK ==
    /\ working \in BOOLEAN /\ now \in Time  /\ mcpNews \in BOOLEAN
    /\ up \subseteq Simple
    /\ rtc \in [booted : BOOLEAN, valid : BOOLEAN, last : Time, sqw : BOOLEAN,
                line : BOOLEAN, since : 0..FallbackTicks, blind : 0..FallbackTicks]
    /\ ds \in [booted : BOOLEAN, pending : BOOLEAN, valid : BOOLEAN]
    /\ supervisor \in [active : SUBSET Devices, published : BOOLEAN, ticks : 0..SettleTicks]
    /\ known \in [ready : BOOLEAN, mask : SUBSET Devices, time : Time \cup {NoTime}, temp : BOOLEAN]
    /\ superBox \in Seq(Devices) /\ Len(superBox) <= SuperCap
    /\ appBox \in Seq(Message) /\ Len(appBox) <= AppCap

\* What the application will know when it has emptied its mailbox: of the
\* messages of a kind the last one decides.
Content(msg) == IF msg.kind = "SYSTEM_READY" THEN msg.mask ELSE msg.time

Tells(box, kind, old, new) ==
    IF \E i \in 1..Len(box) : box[i].kind = kind
    THEN \E i \in 1..Len(box) :
            /\ box[i].kind = kind /\ Content(box[i]) = new
            /\ \A j \in 1..Len(box) : j > i => box[j].kind # kind
    ELSE old = new

(***************************************************************************)
(* The application knows, or is about to be told, the active devices the   *)
(* supervisor recorded and the time the clock's actor last read: both      *)
(* record before they publish, and nothing recorded is left untold.        *)
(***************************************************************************)
AppIsTold ==
    /\ supervisor.published => Tells(appBox, "SYSTEM_READY", known.mask, supervisor.active)
    /\ rtc.valid => Tells(appBox, "TIME_UPDATED", known.time, rtc.last)

(***************************************************************************)
(* The fallback threshold is never reached by ticks in which nobody tried  *)
(* to read the time, whether the square wave was never enabled, failed to  *)
(* be enabled anew, or stops.  An attempt the bus lets fail counts as a    *)
(* reading here: the property is about the schedule of the attempts.       *)
(***************************************************************************)
NeverBlind == rtc.blind < FallbackTicks

(***************************************************************************)
(* Once the buses work and the mailboxes have room for good, the           *)
(* application comes to know every device active and the temperature       *)
(* valid.  Readiness of the clock and the sensor is published only once,   *)
(* so a report lost on the way would never be made up for.                 *)
(***************************************************************************)
AllActiveAtLast == <>[]working => <>[](known.ready /\ known.mask = Devices /\ known.temp)
=============================================================================
