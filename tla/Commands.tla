------------------------------ MODULE Commands ------------------------------
(***************************************************************************)
(* Remote commands (core/src/ev_command_actor.c): a message from the       *)
(* broker is parsed, authorized and rate-limited, and published as an      *)
(* event; deep sleep takes an arm and a confirm.                           *)
(*                                                                         *)
(* Both variants of the message (inline and leased) reach the same         *)
(* dispatcher.  A message is what its parser gets out of it: malformed     *)
(* says that it gets nothing, args that a key's value is refused.          *)
(***************************************************************************)
EXTENDS Integers

CONSTANTS TickWidth,        \* values of a uint32_t, a few of them are enough
          CommandInterval,  \* EV_COMMAND_MIN_INTERVAL_TICKS
          ConfirmWindow,    \* EV_COMMAND_SLEEP_CONFIRM_WINDOW_TICKS
          PlainTopics,      \* of {"cmd/led", "cmd/display"}, which are handled alike
          Nonces, Durations \* what an arm carries

ASSUME CommandsAssumption ==
    /\ TickWidth \in Nat \ 0..2 /\ CommandInterval \in 1..(TickWidth - 1)
    /\ ConfirmWindow \in 1..(TickWidth \div 2)
    /\ PlainTopics \subseteq {"cmd/led", "cmd/display"}

Topics == PlainTopics \cup {"cmd/sleep"}
NoNonce == "none"
NoArm == [on |-> FALSE, nonce |-> NoNonce, duration |-> 0, expiry |-> 0]

\* ev_net_mqtt_rx: the sleep keys appear in any combination.
Messages ==
    [topic : Topics \cup {"other"}, malformed : BOOLEAN, token : BOOLEAN, args : BOOLEAN,
     arm : Nonces \cup {NoNonce}, ms : Durations, confirm : Nonces \cup {NoNonce}]
Plausible(m) ==
    /\ m.malformed => m.token /\ m.args
    /\ m.topic # "cmd/sleep" \/ m.malformed
       => m.arm = NoNonce /\ m.confirm = NoNonce
    /\ m.arm = NoNonce => m.ms = CHOOSE d \in Durations : TRUE

VARIABLES capabilities,     \* topics whose capability bit is set
          hasToken,         \* a token is configured
          tick, lastCommand, \* tick_counter; last_led_tick, last_display_tick, last_sleep_tick
          sleepArm,         \* sleep_armed, sleep_nonce, sleep_duration_ms, sleep_expiry_tick
          command,          \* history: the event the last step published
          armed             \* history: the last arm: its age in ticks, and if it is used up
commandActor == <<capabilities, hasToken, tick, lastCommand, sleepArm>>
commandVars == <<commandActor, command, armed>>

NoCommand == [topic |-> "none", message |-> NoNonce, duration |-> 0]
NeverArmed == [nonce |-> NoNonce, duration |-> 0, age |-> 0, used |-> TRUE]

\* A history counter stops where nothing more depends on it.
Capped(n, cap) == IF n < cap THEN n ELSE cap

CommandReset ==
    /\ tick' = 0 /\ lastCommand' = [t \in Topics |-> TickWidth - 1] /\ sleepArm' = NoArm
    /\ command' = NoCommand /\ armed' = NeverArmed

CommandInit ==
    /\ capabilities \in SUBSET Topics /\ hasToken \in BOOLEAN
    /\ tick = 0 /\ lastCommand = [t \in Topics |-> TickWidth - 1] /\ sleepArm = NoArm
    /\ command = NoCommand /\ armed = NeverArmed

-----------------------------------------------------------------------------
\* now - deadline, as a uint32_t, is less than UINT32_MAX / 2.
Reached(now, deadline) == (now - deadline) % TickWidth < (TickWidth - 1) \div 2

RateLimited(topic) == (tick - lastCommand[topic]) % TickWidth < CommandInterval

CommandTick ==
    LET now == (tick + 1) % TickWidth
    IN  /\ tick' = now
        /\ sleepArm' = IF sleepArm.on /\ Reached(now, sleepArm.expiry)
                       THEN [sleepArm EXCEPT !.on = FALSE] ELSE sleepArm
        /\ armed' = [armed EXCEPT !.age = Capped(@ + 1, ConfirmWindow)]
        /\ command' = NoCommand
        /\ UNCHANGED <<capabilities, hasToken, lastCommand>>

\* ev_command_dispatch() up to the topic: what follows is allowed to act.
Authorized(m) == ~m.malformed /\ hasToken /\ m.token
Allowed(m) == Authorized(m) /\ m.topic \in capabilities
Permitted(m) == Allowed(m) /\ ~RateLimited(m.topic)

\* publish_inline(): a mailbox that is full refuses, and the command is lost.
Publishes(topic, nonce, duration, accepted) ==
    /\ command' = IF accepted THEN [topic |-> topic, message |-> nonce, duration |-> duration]
                  ELSE NoCommand
    /\ lastCommand' = IF accepted THEN [lastCommand EXCEPT ![topic] = tick] ELSE lastCommand

LedOrDisplay(m, accepted) ==
    /\ m.topic \in PlainTopics /\ Permitted(m) /\ m.args
    /\ Publishes(m.topic, NoNonce, 0, accepted)
    /\ UNCHANGED <<capabilities, hasToken, tick, sleepArm, armed>>

SleepArm(m) ==
    /\ m.topic = "cmd/sleep" /\ m.arm # NoNonce /\ Permitted(m) /\ m.args
    /\ sleepArm' = [on |-> TRUE, nonce |-> m.arm, duration |-> m.ms,
                    expiry |-> (tick + ConfirmWindow) % TickWidth]
    /\ armed' = [nonce |-> m.arm, duration |-> m.ms, age |-> 0, used |-> FALSE]
    /\ command' = NoCommand
    /\ UNCHANGED <<capabilities, hasToken, tick, lastCommand>>

\* A message with both keys is an arm, and a confirm is not rate-limited.
Confirms(m) ==
    /\ m.topic = "cmd/sleep" /\ m.arm = NoNonce /\ m.confirm # NoNonce /\ Allowed(m)
    /\ sleepArm.on /\ m.confirm = sleepArm.nonce

\* Fault: the arm stays valid until its confirm was published.
Fault_Disarmed(accepted) == IF accepted THEN [sleepArm EXCEPT !.on = FALSE] ELSE sleepArm

\* The arm is used up, also by a confirm that comes too late or is refused.
Disarmed(accepted) == [sleepArm EXCEPT !.on = FALSE]

SleepConfirm(m, accepted) ==
    /\ Confirms(m)
    /\ sleepArm' = Disarmed(accepted)
    /\ armed' = [armed EXCEPT !.used = TRUE]
    /\ Publishes("cmd/sleep", m.confirm, sleepArm.duration, accepted /\ ~Reached(tick, sleepArm.expiry))
    /\ UNCHANGED <<capabilities, hasToken, tick>>

\* Everything else is only counted.
CommandIgnored(m) ==
    /\ m.topic \in PlainTopics => ~(Permitted(m) /\ m.args)
    /\ m.topic = "cmd/sleep" /\ m.arm # NoNonce => ~(Permitted(m) /\ m.args)
    /\ ~Confirms(m)
    /\ command' = NoCommand
    /\ UNCHANGED <<commandActor, armed>>

\* The chip restarts: after a sleep, or at any time.
CommandRestart == CommandReset /\ UNCHANGED <<capabilities, hasToken>>

CommandNext ==
    \/ CommandTick \/ CommandRestart
    \/ \E m \in {x \in Messages : Plausible(x)} :
          \/ \E accepted \in BOOLEAN : LedOrDisplay(m, accepted) \/ SleepConfirm(m, accepted)
          \/ SleepArm(m) \/ CommandIgnored(m)

CommandSpec == CommandInit /\ [][CommandNext]_commandVars

-----------------------------------------------------------------------------
(***************************************************************************)
(* Deep sleep takes two messages: the published duration and the nonce     *)
(* are those of the newest arm, which no confirm has used before, refused  *)
(* ones included, and which is younger than the window                     *)
(* (docs/specs/remote-command-dispatcher.md: "A single MQTT packet can     *)
(* never trigger deep sleep").                                             *)
(***************************************************************************)
SleepTakesTwo ==
    [][command'.topic = "cmd/sleep" =>
          /\ ~armed.used /\ armed.age < ConfirmWindow
          /\ command'.message = armed.nonce /\ command'.duration = armed.duration]_commandVars
=============================================================================
