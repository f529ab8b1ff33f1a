------------------------------- MODULE Buttons -------------------------------
(***************************************************************************)
(* Buttons and LEDs: the MCP23008 port expander and its actor              *)
(* (core/src/ev_mcp23008_actor.c), the panel actor that makes presses of   *)
(* its inputs (core/src/ev_panel_actor.c), the application that toggles    *)
(* its pause on a short press of button 0 and shows it on an LED           *)
(* (app/ev_demo_app.c), and the remote commands, which may set any LED,    *)
(* that one included.                                                      *)
(*                                                                         *)
(* Handlers run to completion, in any order between the actors; what they  *)
(* send each other waits in FIFO mailboxes.  A handler that fails ends the *)
(* poll and the chip restarts.  EV_PANEL_DEBOUNCE_TICKS is 1: a difference *)
(* is taken over at the first tick, and debounce_ticks is always 0.        *)
(* inputs_valid always equals configured.                                  *)
(***************************************************************************)
EXTENDS Integers, SequencesExt

CONSTANTS ButtonCount, LedCount,
          LongTicks,          \* EV_PANEL_LONG_PRESS_TICKS
          QueueCap            \* bound: messages waiting in one mailbox

ASSUME ButtonsAssumption ==
    /\ ButtonCount \in Nat \ {0} /\ LedCount \in Nat \ {0}
    /\ LongTicks \in Nat \ {0} /\ QueueCap \in Nat \ {0}

Buttons == 0..(ButtonCount - 1)
Leds == 0..(LedCount - 1)
ToggleButton == 0
PausedLed == 0
Command == [value : SUBSET Leds, valid : SUBSET Leds]

VARIABLES pressed, olat,   \* external: the buttons held down, the outputs driven
          calm,            \* external: the bus works and the mailboxes have room
          mcp, panel, app,
          ledBox,          \* EV_PANEL_LED_SET_CMD waiting for the expander's actor
          inputBox,        \* EV_MCP23008_INPUT_CHANGED waiting for the panel
          appBox,          \* short presses of button 0 waiting for the application
          heard,           \* history: the events of each button since its last press
          missed,          \* history: inputs were taken over without an event
          overruled        \* history: what a remote command said of the paused LED
                           \* since the application last did ("on", "off"), or "no"
chip == <<mcp, panel, app, ledBox, inputBox, appBox, heard, missed, overruled>>
buttonsVars == <<pressed, olat, calm, chip>>

Mcp0 == [booted |-> FALSE, configured |-> FALSE, announced |-> FALSE,
         inputs |-> {}, outputs |-> {}]
Panel0 == [valid |-> FALSE, raw |-> {}, stable |-> {},
           hold |-> [b \in Buttons |-> 0], long |-> {}]
App0 == [paused |-> FALSE, ready |-> FALSE, early |-> FALSE]

ButtonsInit ==
    /\ pressed \in SUBSET Buttons /\ olat \in SUBSET Leds /\ calm \in BOOLEAN
    /\ mcp = Mcp0 /\ panel = Panel0 /\ app = App0
    /\ ledBox = <<>> /\ inputBox = <<>> /\ appBox = <<>>
    /\ heard = [b \in Buttons |-> <<>>] /\ missed = FALSE /\ overruled = "no"

\* A refused publication: everything but the hardware starts anew.
Restart ==
    /\ mcp' = Mcp0 /\ panel' = Panel0 /\ app' = App0
    /\ ledBox' = <<>> /\ inputBox' = <<>> /\ appBox' = <<>>
    /\ heard' = [b \in Buttons |-> <<>>] /\ missed' = FALSE /\ overruled' = "no"

PressOrRelease ==
    \E b \in Buttons :
        /\ pressed' = (pressed \ {b}) \cup ({b} \ pressed)
        /\ UNCHANGED <<olat, calm, chip>>
Weather == calm' = ~calm /\ UNCHANGED <<pressed, olat, chip>>

HasRoom(box) == Len(box) < QueueCap

-----------------------------------------------------------------------------
(* The expander's actor. *)

\* ev_mcp23008_actor_try_configure(): four registers written, the inputs read.
\* It fails before or after the outputs are written; what is read is no event.
ConfigureFails ==
    /\ ~calm
    /\ olat' \in {olat, mcp.outputs}
    /\ mcp' = [mcp EXCEPT !.booted = TRUE, !.configured = FALSE]
    /\ UNCHANGED <<pressed, calm, panel, app, ledBox, inputBox, appBox, heard, missed, overruled>>

Configure ==
    /\ olat' = mcp.outputs
    /\ mcp' = [mcp EXCEPT !.booted = TRUE, !.configured = TRUE,
                          !.announced = TRUE, !.inputs = pressed]
    /\ missed' = (missed \/ pressed # mcp.inputs)
    /\ UNCHANGED <<pressed, calm, panel, app, ledBox, inputBox, appBox, heard, overruled>>

\* EV_MCP23008_READY is refused.
ConfigureUnannounced ==
    /\ ~calm /\ olat' = mcp.outputs /\ Restart /\ UNCHANGED <<pressed, calm>>

TryConfigure == ConfigureFails \/ Configure \/ ConfigureUnannounced

McpBoot == ~mcp.booted /\ TryConfigure

ReadFails ==
    /\ ~calm
    /\ mcp' = [mcp EXCEPT !.configured = FALSE]
    /\ UNCHANGED <<pressed, olat, calm, panel, app, ledBox, inputBox, appBox, heard, missed, overruled>>

\* Fault: a refused publication is ignored; the shadow has changed already.
Fault_InputsRefused ==
    /\ ~calm /\ pressed # mcp.inputs
    /\ mcp' = [mcp EXCEPT !.inputs = pressed]
    /\ UNCHANGED <<pressed, olat, calm, panel, app, ledBox, inputBox, appBox, heard, missed, overruled>>

InputsRefused ==
    /\ ~calm /\ pressed # mcp.inputs /\ Restart /\ UNCHANGED <<pressed, olat, calm>>

InputsRead ==
    /\ pressed # mcp.inputs /\ HasRoom(inputBox)
    /\ mcp' = [mcp EXCEPT !.inputs = pressed]
    /\ inputBox' = Append(inputBox, pressed)
    /\ missed' = FALSE
    /\ UNCHANGED <<pressed, olat, calm, panel, app, ledBox, appBox, heard, overruled>>

\* A tick that configures also reads the inputs once more: the next tick's step.
McpTick ==
    /\ mcp.booted
    /\ IF mcp.configured THEN ReadFails \/ InputsRead \/ InputsRefused ELSE TryConfigure

\* Fault: bits outside the mask are cleared.
Fault_Commanded(outputs, cmd) == cmd.value \cap cmd.valid

Commanded(outputs, cmd) == (outputs \ cmd.valid) \cup (cmd.value \cap cmd.valid)

OutputsFail(outputs) ==
    /\ ~calm /\ olat' \in {olat, outputs}
    /\ mcp' = [mcp EXCEPT !.outputs = outputs, !.configured = FALSE]

LedCmd ==
    /\ mcp.booted /\ ledBox # <<>>
    /\ LET outputs == Commanded(mcp.outputs, Head(ledBox))
       IN  \/ mcp.configured /\ OutputsFail(outputs)
           \/ /\ olat' = IF mcp.configured THEN outputs ELSE olat
              /\ mcp' = [mcp EXCEPT !.outputs = outputs]
    /\ ledBox' = Tail(ledBox)
    /\ UNCHANGED <<pressed, calm, panel, app, inputBox, appBox, heard, missed, overruled>>

-----------------------------------------------------------------------------
(* The panel's actor. *)

InputChanged ==
    /\ inputBox # <<>>
    /\ panel' = [panel EXCEPT !.raw = Head(inputBox), !.valid = TRUE]
    /\ inputBox' = Tail(inputBox)
    /\ UNCHANGED <<pressed, olat, calm, mcp, app, ledBox, appBox, heard, missed, overruled>>

Turned(b) == (b \in panel.raw) # (b \in panel.stable)

ReleaseEvents(b) == IF b \in panel.long THEN <<"RELEASE">> ELSE <<"RELEASE", "SHORT">>

Held(b) == panel.hold[b] + 1

EventsOf(b) ==
    CASE Turned(b) /\ b \in panel.raw -> <<"PRESS">>
      [] Turned(b) /\ b \notin panel.raw -> ReleaseEvents(b)
      [] ~Turned(b) /\ b \in panel.stable /\ Held(b) >= LongTicks /\ b \notin panel.long -> <<"LONG">>
      [] OTHER -> <<>>

\* hold_ticks goes on counting after LongTicks, which nothing reads.
PanelAfter ==
    [panel EXCEPT
        !.stable = panel.raw,
        !.hold = [b \in Buttons |->
            IF Turned(b) THEN 0
            ELSE IF b \in panel.stable /\ Held(b) <= LongTicks THEN Held(b) ELSE panel.hold[b]],
        !.long = {b \in Buttons : ~Turned(b) /\ (b \in panel.long \/ EventsOf(b) = <<"LONG">>)}]

HeardAfter(b) ==
    IF EventsOf(b) = <<"PRESS">> /\ heard[b] \in {<<>>, <<"PRESS", "RELEASE", "SHORT">>, <<"PRESS", "LONG", "RELEASE">>}
    THEN <<"PRESS">> ELSE heard[b] \o EventsOf(b)

AppBoxAfter ==
    IF "SHORT" \in Range(EventsOf(ToggleButton)) THEN Append(appBox, "SHORT") ELSE appBox

\* Fault: the actor goes on after a refused publication.
Fault_EventsRefused ==
    /\ \E b \in Buttons : EventsOf(b) # <<>>
    /\ ~calm /\ panel' = PanelAfter
    /\ UNCHANGED <<pressed, olat, calm, mcp, app, ledBox, inputBox, appBox, heard, missed, overruled>>

EventsRefused ==
    /\ \E b \in Buttons : EventsOf(b) # <<>>
    /\ ~calm /\ Restart /\ UNCHANGED <<pressed, olat, calm>>

PanelTick ==
    /\ panel.valid
    /\ \/ EventsRefused
       \/ /\ Len(AppBoxAfter) <= QueueCap
          /\ panel' = PanelAfter /\ appBox' = AppBoxAfter
          /\ heard' = [b \in Buttons |-> HeardAfter(b)]
          /\ UNCHANGED <<pressed, olat, calm, mcp, app, ledBox, inputBox, missed, overruled>>

-----------------------------------------------------------------------------
(* The application and the remote commands. *)

\* A new command of the application for all its LEDs, or a restart of the chip.
LedCommandFrom(record, value, valid) ==
    /\ \/ /\ HasRoom(ledBox)
          /\ ledBox' = Append(ledBox, [value |-> value, valid |-> valid])
          /\ app' = record
          /\ overruled' = "no"
          /\ UNCHANGED <<mcp, panel, inputBox, appBox, heard, missed>>
       \/ ~calm /\ Restart
    /\ UNCHANGED <<pressed, olat, calm>>

\* The first EV_SYSTEM_READY: with the expander active its LEDs are cleared.
SystemReady ==
    /\ ~app.ready
    /\ \/ /\ mcp.announced
          /\ LedCommandFrom([app EXCEPT !.ready = TRUE, !.early = app.paused], {}, Leds)
       \/ /\ app' = [app EXCEPT !.ready = TRUE]
          /\ UNCHANGED <<pressed, olat, calm, mcp, panel, ledBox, inputBox, appBox, heard, missed, overruled>>

PausedLeds(paused) == IF paused THEN {PausedLed} ELSE {}

ShortPress ==
    /\ appBox # <<>>
    /\ \/ /\ HasRoom(ledBox)
          /\ app' = [app EXCEPT !.paused = ~@, !.early = FALSE]
          /\ appBox' = Tail(appBox)
          /\ ledBox' = Append(ledBox, [value |-> PausedLeds(~app.paused), valid |-> {PausedLed}])
          /\ overruled' = "no"
          /\ UNCHANGED <<mcp, panel, inputBox, heard, missed>>
       \/ ~calm /\ Restart
    /\ UNCHANGED <<pressed, olat, calm>>

\* cmd/led, in the bits of EV_MCP23008_LED_MASK, which are all the LEDs.  The
\* rate limit is left out: commands may come at any time.  A refused publication
\* is only counted.
RemoteLeds(value, valid) ==
    /\ HasRoom(ledBox)
    /\ ledBox' = Append(ledBox, [value |-> value, valid |-> valid])
    /\ overruled' = IF PausedLed \notin valid THEN overruled
                    ELSE IF PausedLed \in value THEN "on" ELSE "off"
    /\ UNCHANGED <<pressed, olat, calm, mcp, panel, app, inputBox, appBox, heard, missed>>

ButtonsNext ==
    \/ PressOrRelease \/ Weather
    \/ McpBoot \/ McpTick \/ LedCmd
    \/ InputChanged \/ PanelTick
    \/ SystemReady \/ ShortPress
    \/ \E value, valid \in SUBSET Leds : RemoteLeds(value, valid)

ButtonsSpec == ButtonsInit /\ [][ButtonsNext]_buttonsVars

-----------------------------------------------------------------------------
ButtonsTypeOK ==
    /\ pressed \subseteq Buttons /\ olat \subseteq Leds /\ calm \in BOOLEAN
    /\ mcp \in [booted : BOOLEAN, configured : BOOLEAN, announced : BOOLEAN,
                inputs : SUBSET Buttons, outputs : SUBSET Leds]
    /\ panel \in [valid : BOOLEAN, raw : SUBSET Buttons, stable : SUBSET Buttons,
                  hold : [Buttons -> 0..LongTicks], long : SUBSET Buttons]
    /\ app \in [paused : BOOLEAN, ready : BOOLEAN, early : BOOLEAN]
    /\ ledBox \in Seq(Command) /\ Len(ledBox) <= QueueCap
    /\ inputBox \in Seq(SUBSET Buttons) /\ Len(inputBox) <= QueueCap
    /\ appBox \in Seq({"SHORT"}) /\ Len(appBox) <= QueueCap
    /\ overruled \in {"no", "on", "off"}

(***************************************************************************)
(* However inputs come, bounce, are missed over bus errors and refused:    *)
(* each press is heard as PRESS, then either RELEASE SHORT or LONG         *)
(* RELEASE, before the next one begins.                                    *)
(***************************************************************************)
PressProtocol ==
    \A b \in Buttons :
        heard[b] \in {<<>>, <<"PRESS">>, <<"PRESS", "LONG">>,
                      <<"PRESS", "RELEASE", "SHORT">>, <<"PRESS", "LONG", "RELEASE">>}

\* What the panel will have been told when it has emptied its mailbox.
ToldPanel == IF inputBox = <<>> THEN panel.raw ELSE Last(inputBox)

(***************************************************************************)
(* The panel sees, or is about to see, the inputs the expander's actor     *)
(* last read; it differs only after a reconfiguration that took inputs     *)
(* over silently, and then only until the next change.                     *)
(***************************************************************************)
PanelFollows == ToldPanel # mcp.inputs => missed

\* The paused LED when the waiting commands will have been obeyed, the last of
\* those that are about it deciding: a configured expander starts from what it
\* drives, another one from what is to be written.
AsksFor(i) == PausedLed \in ledBox[i].valid

LedAsked ==
    IF \E i \in 1..Len(ledBox) : AsksFor(i)
    THEN \E i \in 1..Len(ledBox) :
            /\ AsksFor(i) /\ PausedLed \in ledBox[i].value
            /\ \A j \in 1..Len(ledBox) : j > i => ~AsksFor(j)
    ELSE PausedLed \in (IF mcp.configured THEN olat ELSE mcp.outputs)

(***************************************************************************)
(* The LED asked for is what the last to speak of it asked for: a remote   *)
(* command that named it, else the application.  Of the application it     *)
(* tells whether the display is paused, unless it was paused by a press    *)
(* before EV_SYSTEM_READY: that event clears the LED and leaves the pause  *)
(* on until the next press.  Commands about other LEDs, writes that fail   *)
(* or arrive unacknowledged and reconfigurations change nothing of that.   *)
(***************************************************************************)
LedTellsPause ==
    LedAsked <=> IF overruled = "no" THEN app.paused /\ ~app.early ELSE overruled = "on"
=============================================================================
