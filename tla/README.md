# Formal model of the event-driven ESP8266 runtime

TLA+ modules about the program in `src/`: an actor runtime for the ESP8266
with mailboxes, leased payloads, cooperative pumps, an application loop under a
budget, adapters for interrupts, the I2C bus and the network, a handshake for
deep sleep, and the actors for display, buttons, sensors, remote commands,
telemetry, readiness and watchdog. TLC checks them on small instances; TLAPS
proves the safety properties for every value of the constants.
Modules are named after what they model, definitions after the code where TLA+
allows it. `PROJECT.json` names the lines each definition stands for.

## 1. Inventory

One FreeRTOS task runs everything below except interrupts and the SDK's network
callbacks. Actors have a mailbox and a handler; they never call each other, they
publish messages.

| Part | Source | State | Operations | What makes it correct |
|---|---|---|---|---|
| Mailboxes | `core/src/ev_mailbox.c` | cells, head, tail, count, counters | init, push, pop, reset; four kinds (FIFO, single slot, lossy ring, coalesced flag) | order of acceptance, one overflow policy per kind, every envelope accounted for |
| Messages | `ev_msg.c`, `ev_dispose.c`, `ev_send.c`, `ev_publish.c` | envelope with an inline, leased or viewed payload | build, retain, publish to a route (fail-fast or best effort), dispose | one dispose per share, partial fan-out leaks nothing |
| Lease pool | `ev_lease_pool.c` | slots with refcount and generation | acquire, attach, retain, release | a slot is free exactly when nobody refers to it |
| Actor runtime, domain and system pump | `ev_actor_runtime.c`, `ev_domain_pump.c`, `ev_system_pump.c` | pending counts, one cursor per domain, one over the domains, reports, statistics | deliver, step, pump, run | bounded runs, round-robin without overtaking twice, truthful reports |
| Application loop | `app/ev_demo_app.c`, `ev_runtime_app.c` | tick deadlines, `ev_poll_budget_t` | poll: ingress, drain, timers, drain; wait; restart after an error | bounded polls, no early or double tick, nobody starves |
| Interrupt adapter | `ev_irq_adapter.c` | ring of samples, decode state, wait semaphore, armed lines, frozen lines | ISR, pop, wait, enable, prepare / confirm / commit / abort sleep | no lost wakeup; lines restored |
| Power actor, system port | `ev_power_actor.c`, `ev_platform_ports.c`, arming guard in `ev_demo_app.c` | arming flag, prepared flag | the sleep request | never asleep over an unhandled sample; a failure leaves nothing frozen |
| Network adapter | `ev_net_adapter.c` | ingress ring, payload slots, link state | SDK callbacks, poll, publish, reconnect | state events in order, payload slots returned |
| Network, command actors | `ev_network_actor.c`, `ev_command_actor.c` | link state, telemetry counters, rate limits, armed sleep | events, telemetry, remote commands | limits over wrapping ticks, confirm only what was armed |
| Supervisor, watchdog | `ev_supervisor_actor.c`, `ev_watchdog_actor.c` | ready mask, progress counters | ready and fault events, feed | readiness once, feed only when alive |
| Buttons | `ev_mcp23008_actor.c`, `ev_panel_actor.c` | input shadow, debounce state | interrupts, samples, ticks | each press heard in order, the LED shows the application's state unless a remote command overruled it |
| Sensors | `ev_rtc_actor.c`, `ev_ds18b20_actor.c` | ready flag, retry and conversion state | ticks, interrupts | the time goes on being read, every working device is reported |
| Display | `ev_oled_actor.c` | framebuffer, dirty pages, retry state | commits, ticks | what is not on the glass is marked, and shown once the bus works |
| Bus adapters | `ev_i2c_adapter.c`, `ev_onewire_adapter.c`, `ev_wdt_adapter.c` | bus lock, line levels | transfers, recovery, prepare for sleep | a clean transfer succeeds after any fault, OK is true |
| Catalogues, routes | `config/*.def` | constant tables | lookups | consistent tables |
| Diagnostics, test rigs, tools | `ev_boot_diag.c`, `targets/`, `tools/` | - | - | - |

How they interact: interrupts and network callbacks fill the adapters' rings;
the loop pops a bounded number of samples, publishes each as a message to the
actors on its route, and runs the system pump; that grants turns to domains,
domains grant quanta to actors, an actor pops a message, its handler publishes
others, and the message is disposed. Ticks are published when nothing is
pending. The power actor's handler takes the whole task through the sleep
handshake while interrupts go on.

What is hard here: interrupts between any two steps of the handshake; fan-out
that stops half way with shared payloads; budgets looked at between steps that
overshoot; handlers that feed each other without end; the wrap of the clock and
of generations; errors that return early past bookkeeping. `PROJECT.json` lists
each such place under `hazards`, at its line, with the properties that guard it.

## 2. Modules

    MailboxOps  <- Mailbox  <- MCMessages       Mailbox refines MailboxContract
        ^                   <- Messages_proofs
    LeasePool   <- Delivery <- Messages_proofs  (Delivery uses both)
                            <- MCMessages

    FairTurns   <- OvertakeBound <- Parts_proofs, MCParts
        ^ (refined twice by)
    Scheduler   <- Scheduler_proofs, MCScheduler

    AppLoop     <- AppLoop_proofs               (uses Scheduler's contract)

    IrqAdapter  <- Sleep    <- Sleep_proofs
                            <- MCSleep
    I2cBus                  <- MCSleep          (Sleep asks whether it is free)
                            <- I2c_proofs

    Telemetry, Commands, Watchdog, Buttons      <- Parts_proofs
    Telemetry, Commands, Watchdog               <- MCParts
    NetAdapter, Board, Display                  <- Periphery_proofs
    LinkChannel                                 (NetAdapter refines it)

    Extrema     <- Messages_proofs, Scheduler_proofs, Periphery_proofs, I2c_proofs

AppLoop, NetAdapter, Display, Buttons and Board are runs of their own. `Extrema`
has what the proofs need of least and greatest numbers. The proofs of parts that
share nothing stand together in `Parts_proofs` and `Periphery_proofs`.

`MCMessages`, `MCSleep` and `MCParts` put modules that share no variable side by
side: `part` picks one at the start and the others stand still, so that one run
looks at each. What such a run shows is what a run of each part would.

Some definitions are named `Fault_...`. Each is a variant of the definition
after it with a plausible bug seeded; no specification uses it. Putting it in the
place of the real one breaks the property it is listed with under `mutants`,
which shows that the property says something about that code.

### Mailboxes: MailboxOps, Mailbox, MailboxContract

`MailboxOps` has the mailbox as a value and push and pop as operators, one per
kind, with the result code, the evicted envelope and the counter a push bumps.
`Mailbox` drives one through every sequence of pushes (of each payload class,
where the retain callback may refuse a lease and always refuses a stream view),
pops and resets. `MailboxContract` is what `docs/specs/mailbox-semantics.md`
promises: a bounded sequence with a policy per kind. `Mailbox` implements it
with `queue` read from the cells in index order.

### Leases and publication: LeasePool, Delivery

`Delivery` has one publisher's frame (acquire, attach, deliver to one target
after another, dispose, release), the message being handled, mailboxes from
`MailboxOps` and the pool. An action is one callback of `ev_publish_ex()`; the
publisher is either ingress or a handler with `run` still in its hands, so
nested publications are covered. Payloads are sizes 0 and 1; generations wrap at
`MaxGen` as 2^32 does. `SharesExact` counts the references that exist and
compares them with each refcount.

### Pumps: FairTurns, OvertakeBound, Scheduler

`Scheduler` has the three nested pumps as three frames of one stack with the
code's budgets, cursors, passes, reports and results. A mailbox is its pending
count. A scan over members is one step, since nothing can change between two
looks of a scan. `FairTurns` is the abstract promise of a round-robin;
`Scheduler` implements it once per domain (actors as members) and once for the
system (domains as members). `OvertakeBound` adds a history to `FairTurns` and
states the fairness bound.

### Application loop: AppLoop

One action per branch of `ev_demo_app_poll()` and the loop around it: samples
taken one by one up to the round's reserve, drains, timers, the `PARTIAL`
decision, the wait and the restart. The actors are a number of pending messages;
a run of the system pump is one step with the outcome `Scheduler` allows (it
stops early only when nothing is pending). Interrupts, network callbacks and
time interleave with every action. `sleep_arming` is left out: it is set only
inside the power actor's handler, which is one step here (`HandlerLeavesNothing`
in Sleep). A restart keeps the clock's value: the model's origin is arbitrary.

### Interrupts and sleep: IrqAdapter, Sleep

`IrqAdapter` has the GPIO latches, the interrupt handler and the task's calls
step by step: each critical section and each register access is an action, and
edges and the handler may come between any two. An edge may stay latched before
the handler runs. `Sleep` puts the power actor's handler, the guard and the
system port on top. The quiescence guard also looks at mailboxes, drivers and
ticks; these may only refuse more often, and `RequestRefused` allows a refusal
at any time. In the runtime a failed request ends the poll and restarts the
chip; the port is modelled as its interface allows, with another request after a
failed one, so that what a failure leaves behind can be seen.

### Network: NetAdapter

The SDK's station and broker session are external: a join is reported as an
address, a lost link or a failed join as a disconnect that leaves the station
idle. The WiFi callback runs in the SDK's event task, the MQTT callback in the
client's. Each notes the change in one critical section and pushes events, or
reconnects, afterwards: `wifiTask` and `mqttTask` are what is left to do, and
everything else may happen in between. The application takes one event, fans it
out to the mailboxes of its route, disposes it, and the actors handle their
copies; a refused publication fails the poll, which restarts the chip. Payload
slots carry a generation in the model so that a reuse under a reader would show
(the code counts it too). `view` is the connection state of `ACT_NETWORK`.

Time is two differences that stop at the bounds they are compared with: since
the last reconnect attempt, and since the last call of `esp_wifi_connect()`.
Nothing in `src/` starts the MQTT client or calls `stop_fn`; the MQTT part is
the handler as board code would run it, and `stop_fn` is left out. So are
failures of init and start; the publish functions are in Telemetry. In an MQTT build the
MQTT task's push may come after the WiFi task's `MQTT_DOWN` and `WIFI_DOWN`, so
that the actor believes in a session without a link; nothing in the repository
promises otherwise, and `HeardInOrder` is about the default build.

`LinkChannel` is what the path promises about the link: a channel from what the
adapter noted to what the actor believes. It keeps the order; it may lose a
change, but only when more are on their way than the ring or the mailbox can hold
(`LinkRoom`), and it says so (`lost`); both ends start anew only after a loss.
NetAdapter implements it with what waits in the mailbox, the frame of the
publication, the ring and the callback's list, one after the other, as `flight`
(`HeardInOrder`, of network events only: what else `ACT_NETWORK` is sent is left
out of its mailbox): a push, a poll and a delivery move a change along and are
stuttering steps, a refused push loses the newest, a refused publication the one
in the frame. After a loss the actor may believe the wrong state until a later
change reaches it; the code does nothing about it. `ViewOnTrack` is the channel's
own `InStep`; no run checks it, since it follows.

### I2C: I2cBus

The adapter drives two lines by hand. Its functions are operators on the wires,
the device and what may still go wrong (`w`), put together as the code calls
them: a transfer goes round by round over the bytes (`Rounds`), a byte over its
bits, each bit sets SDA, raises and lowers SCL. The device is external: a register file that
takes bits at rising clocks, drives SDA after falling ones and forgets its state
at START and STOP. One fault per transaction is chosen at its start: from the
n-th clock pulse on the deadline is over, the clock is stretched, SDA is held
low, or the chip restarts there and leaves the device as it is. All transfers
run in the application's task, so a transaction is one action.

### Display

A handler is one action. A picture is cells that are on or off, a text lights a
number of cells; `framebuffer`, `staging`, the dirty ranges and the retry are the
code's. A transfer that fails stops at any cell, what went before it is on the
`glass`. `calm` says that the bus works and mailboxes have room; it comes and
goes.

### Buttons

The expander's actor, the panel actor and what the application does with presses
of button 0, with the three mailboxes between them. Fingers, bus errors, full
mailboxes and restarts interleave with the handlers. A write that fails may have
reached the expander. `heard` is the history of events per button.

A remote `cmd/led` may set or clear any LED: `ev_command_actor.c:298` masks it with
the LEDs the expander has, the one that tells the pause included
(`tests/host/test_command_actor_contract.c:163` sends such a command), and nothing
gives the application its LED back before it next speaks of it. The history
variable `overruled` records what the newest remote command about that LED said
since the application spoke; `LedTellsPause` then holds the LED to that, and
otherwise to the pause. Remote commands come at any time, their rate limit is in
`Commands`.

### Board

The clock's and the sensor's actors, the supervisor and the application's record
of readiness, time and temperature; of the expander and the display only that
they announce themselves. `EV_BOOT_COMPLETED` is the first message of each
mailbox. A refused publication restarts the chip while the devices go on.

### Commands, Telemetry, Watchdog

`Commands` has the dispatcher from the parsed message on: capability, token, rate
limits, and the arm and confirm of a remote sleep, over a tick counter that
wraps. `Telemetry` has what `ACT_NETWORK` sends, per class of reading, and the
answers of the adapter's publish functions. `Watchdog` has the rules over the
application's snapshot and the pumps as far as they keep the counters in it:
these change only at the ends of a run, and the tick is handled inside one, so
what a snapshot shows depends on where in a run it is taken.

## 3. What the runs check

| Run | Constants | Shows |
|---|---|---|
| `messages` | rings of 2 cells, 5 envelopes of all payload classes, counters to 4; 2 slots, generations 1..2, 3 mailboxes of different kinds, an unbound and a disabled target, both policies | `Accounting`, `ImplementsContract`; `SharesExact`, `NeverStale` |
| `scheduler` | a domain of two actors and one of one, quanta 2 and 1, that feed each other for ever; an actor and a domain without a quantum; an actor without a mailbox, a domain without a pump | `AnswersTruthful`; `ActorsInTurn`, `DomainsInTurn`: both levels implement `FairTurns`; `RunReturns`, `NoStarvation` |
| `app_loop` | limits 2 and 3, clock of 9 values, ticks of 1 and 2 | `PollBounded`, `NeverAhead`, `OkMeansDone`, `IngressServed`, `TicksComeWhenQuiet` |
| `sleep` | 3 lines, ring of 2, interrupts and both buses; an I2C bus of 3-bit bytes with 4 recovery pulses, one device, a wrong address, faults at any of 25 clock pulses | `NoLostWakeup`, `AsleepMeansQuiet`, `CommitDiscardsNothing`, `HandlerLeavesNothing`, `LinesRestored`; `CleanSucceeds`, `OkIsTrue`, `NoTornByte` |
| `net_wifi` | ring and mailbox of 2, interval 2, losses reported no sooner than that, outages | `HeardInOrder`: refines `LinkChannel`, losses included; `Recovers` |
| `net_wifi_early` | losses reported one tick sooner | counterexample to `Recovers` |
| `net_mqtt` | ring of 2, 2 slots with 2 generations, mailboxes of 1, both tasks | `SlotsExact`, `NeverRecycled` |
| `display` | 2 pages of 2 columns, 3 texts, retry after 2 ticks; the bus fails anywhere but in the full redraw | `UnsentIsDirty`, `ReadyMeansShown`, `ShownAtLast` |
| `display_redraw` | the same, and in the full redraw | counterexample to `ReadyMeansShown` |
| `buttons` | the button that pauses and its LED, remote commands with every value and mask, long press after 2 ticks, mailboxes of 2 | `PressProtocol`, `PanelFollows`, `LedTellsPause` |
| `board` | RTC, DS18B20 and the expander, 2 times, fallback after 2 ticks, settling of 1, mailboxes of 1 and 2 | `AppIsTold`, `NeverBlind`, `AllActiveAtLast` |
| `parts` | tick counters of 6 values with intervals 2 and 3, window 3, 2 nonces; turn counter of 8 with budget 2, up to 4 turns between ticks; 4 members | `SleepTakesTwo`; `ReadingsPaced`; `FeedMeansProgress`, `WorkingIsFed`; `NoSecondTurn` |

Why these bounds are enough. Capacities of 2 fill, overflow, wrap and empty in
every order, and the proofs below cover the mailbox for all capacities. Two
lease slots with two generations reach a slot's reuse while another message is
queued, and the wrap of the generation. The pumps' instance has several actors
in a domain and several domains, with quanta larger and smaller than the budget
left. The loop's limits keep the order of the real ones: the reserve is smaller
than the sample limit, the turn budget does not divide the turn limit, and a
lag longer than a tick period is possible, so both ticks can be late at once.
`MaxLag` bounds how late the loop comes to a deadline, to far below half the
clock's range as 2^31 ms is far above any lag. Three lines suffice for a sample
of several lines, a decode state left half done and a rollback after some lines.
The network ring of 2 fills, two slots let one be reused while the other is
queued, and a mailbox of 1 makes the second delivery of a fan-out fail.
`Outages` and the times are switched off in `net_mqtt`, which is about slots:
the reconnect does not touch them.

On the I2C bus 3 bits and 4 pulses stand for 8 and 9: what matters is that the
pulses outnumber the bits by one, and the longest transfer (address, register,
address again, two bytes) has fewer pulses than `MaxRaise`, so a fault can set in
at each. Two pages with two columns are enough for a range that is empty, partial
or full, for a page sent while the next one fails, and for text that shrinks. One
LED, because commands act bit by bit: a remote command whose mask leaves it out is
a command for the others, which must not touch it, and two commands of any origin
wait in line; the theorem is for any number of LEDs. The counters of `parts` wrap several times
between the events that depend on them; a turn counter of 8 wraps within a few
ticks, and with 4 turns between ticks and a budget of 2 a whole run fits between
two of them. A rejection counts as excused if the counter wrapped since the tick
before: then it shows fewer turns than there were. Times of the clock recur, as one that stands still or
is set back does.

Bounds that are not in the code: `MaxOps` (counters of a mailbox), `MaxLag`
(lateness), `SettleTime` (how soon the SDK reports a loss), `MaxGen`, `Wrap`,
`CountWrap`, `TickWidth`, `TickValues` and `TurnValues` (small stand-ins for
2^32), `MaxTurns` of Watchdog (turns between ticks), `QueueCap`, `SuperCap`,
`AppCap`, `WorkCap` (messages waiting: more would be refused, which is a fault
the models have anyway), `Times`, `MaxWrite`, `MaxRead`, `MaxRaise`.

Fairness. `Scheduler!FairSpec`: a run that has begun goes on to its end, and the
loop calls the pump again when work is pending - one task runs it and nothing
preempts it for ever. `AppLoop!FairSpec`: the poll goes on, a wait that is over
ends, a failed loop restarts and time passes. `NetAdapter!NetFairSpec`: tasks are
scheduled and time passes (weak fairness); the poll looks at the ring and at
each mailbox again and again, whatever it did before (strong fairness for
`PollIngress` and `Handle`, which `IngressServed` and `NoStarvation` justify);
the SDK reports what becomes of a join. The access point need not stay, and
`Recovers` is conditional on it. `Display!FairSpec`: the boot message and the
tick are handled (always enabled until then, so weak fairness is enough).
`Board!BoardFairSpec`: each actor handles its messages and its tick again and again
(strong fairness where a full mailbox disables a handler for a while), which
`TicksComeWhenQuiet` and `NoStarvation` justify. `ShownAtLast` and
`AllActiveAtLast` are conditional on a bus that works in the end. Nothing else is
assumed of interrupts, callbacks or handlers; `TicksComeWhenQuiet` is conditional
on a flood that ends, because under an endless one the code really publishes no
tick. All runs check for deadlock, as the systems never stop.

### Where documents and code differ

* `net_wifi_early`: a disconnect reported less than a second after the last
  reconnect attempt suppresses the next attempt, nothing makes it up later, and
  the station stays idle with the access point in reach. `net_wifi` shows that
  the link does recover when losses take at least that long to be reported.
  `docs/specs/wifi-reconnect-hil.md` requires `EV_NET_WIFI_UP` after the access
  point is restored.
* `display_redraw`: the full redraw after the init commands answers `EV_OK` when
  a page fails, so the display becomes READY over the retry it scheduled and
  nothing is marked dirty: the glass keeps what it held there until those cells
  change. `core/include/ev/oled_actor.h` says that scenes are compared with what
  is displayed. `display` shows that no other failure has this effect.
* Without a run: a handler that answers `EV_ERR_EMPTY` is taken for an idle
  actor; its message is gone and no report counts it
  (`docs/specs/domain-pump-model.md:64` promises an actor-level error). No
  handler does so today. To see it, check `HandlerFailureReported` under
  `MCScheduler.cfg` with `Outcomes = {"OK", "EMPTY"}` and `SPECIFICATION Spec`.
* Without a run: turns are limited between runs of up to four, so a poll may
  take up to 13 of its 10 turns (`tests/host/test_app_starvation.c:240` asserts
  10). `PollBounded` states the bound that does hold; `TurnsWithinLimit` under
  `AppLoop.cfg` shows the other.
* Without a run: a system run that fails in a later turn adds only that turn to
  the cumulative `turns_processed` of `core/include/ev/system_pump.h`. `Watchdog`
  has this, with failed runs among the excuses of `WorkingIsFed`.

## 4. What is proved

Every invariant and every action property of the runs, for
every value of the constants that satisfies the assumptions named in the modules
(`MailboxAssumption`, `DeliveryAssumption` and so on: capacities and budgets are
positive, maps have the types of the tables in the code, intervals are below the
counters that measure them). TLC evaluates these assumptions in the runs. Each
proof starts from an invariant that adds to the property what its steps need;
this section says what that is.

`Messages_proofs`, mailboxes: `TypeOK /\ RingShape /\ Accounting`. `RingShape` needs the
ranges of the type invariant, and that an evicted cell held an envelope, which
`Accounting` needs, is `RingShape`. The remainder in the indices is removed
first (`Residue`, `Covered`: the covered cells are an interval or two);
`EnqueueSound`, `DropHeadSound` and `SingleSound` are then linear arithmetic on
the mailbox as a value, and `PushSound` combines them by kind. The code's
capacities are powers of two with a mask; the model's remainder is the same for
these. `MailboxRefines` is `Spec => ImplementsContract`: the queue of the
contract is a function of the value (`QueueOf`), so storing at the tail is shown
to append (`EnqueueAppends`) and disposing the head to take the tail of the queue
(`DropHeadTails`) once; `PushPromises` finds for each kind and each answer the
contract's action, and `RefinesNext` lifts that to steps.

`Messages_proofs`, leases: `DeliveryInv`. Pool, mailboxes (by the lemmas above) and the
publisher's frame are sound at each place of the code; each refcount is tallied
against the cells that hold the slot and the references outside them; and
`NoDangling`, without which a recycled slot could be retained under its old
number. A push or a pop changes one cell (`PushTouches`), so a tally moves by
one; `Extrema` gives that the first free slot is free.

`Scheduler_proofs`: `FrameInv` for the frames of the pumps (a frame waits for the
one below, with budgets that add up; a cursor is where the scan stands). With it
both levels refine `FairTurns` (`ActorsInTurnAlways`, `DomainsInTurnAlways`): a
grant takes the first waiting member from the cursor, by `FirstFound`. `AnswerInv`
adds what a run owes its caller (`DomainAccounted`, `SystemAccounted`) and gives
`AnswersTruthful`, under the hypothesis that no handler answers `EV_ERR_EMPTY`:
with one it is false, as section 3 says.

`AppLoop_proofs`: `LoopInv`. `PollBounded` carries itself once the counters'
types are there. `TimeInv` states the distances between clock and deadlines as
signed differences, which `NeverAhead` follows from: a tick is published when a
deadline has passed the `now` of the timers, and that never runs ahead of the
clock. `PhaseInv` says what each phase has settled, for `OkMeansDone`. Assumed:
lag and tick periods together stay below half the clock's range.

`Sleep_proofs`, for any number of lines, any ring and every board profile. What
the handshake establishes is spread over its steps, so `SleepInv` says it step
by step. `Control` says where the adapter's call may be at each step of the
handler and which flags are up; `Quiet` says what is known by then (after the
recheck no line is armed and no latch is set, so no interrupt can follow, and
the count of `confirm` is exact although `prepare`'s is not); `Placed` says that
an enabled line is armed, refused, or in the mask that some call holds and will
restore. Each action keeps each part; the theorems read them off.

`Periphery_proofs`, three parts that share nothing:

* Display: `UnsentIsDirty` carries itself over every flush, however it stops
  (`FlushKeeps`: what was sent before the failure is shown, the rest stays in the
  range). `ReadyMeansShown` needs that a READY glass shows the framebuffer
  (`ReadyShows`), hence the hypothesis `~RedrawFails`; `display_redraw` shows that
  it is false otherwise.
* NetAdapter: `NetInv` has `SlotsExact` and `NeverRecycled` together, since only
  a counted reference keeps its slot's generation; the holders are the MQTT
  callback, the ring, two mailboxes, the application's event and the running
  handler, and references are counted in each sequence (`CountAppend`,
  `CountTail`). In the default build (`~Mqtt`) it implements
  `LinkChannel` (`HeardInOrderAlways`): `WifiOnly` says what may stand in each of
  the places a change passes through, each action has a lemma that says which step
  of the channel it is (`ChannelStep`), and concatenation is used by its laws alone
  (`CatLaws`, `Regroup`, `RemoveMiddle`). `ViewOnTrackAlways` follows: the channel
  keeps `InStep` (`InStepKept`).
* Board: `BoardInv`. `AppIsTold` carries itself, because the last message of a
  kind in the mailbox decides what the application will know (`TellsLast`);
  `NeverBlind`, for which a failed attempt counts as a reading, needs that ticks
  without one count no further than those
  without an interrupt (`BlindInStep`), and `AppIsTold` that the supervisor
  has not settled before it publishes (`StillSettling`).

`Parts_proofs`, for parts that are small each:

* OvertakeBound: `NoSecondTurn` does not say where those that overtook a waiting
  member stand. `Order` does: in the scan from the cursor they are behind it,
  except the one whose turn is on, which is before it. Moving the cursor behind a
  served member brings the farther ones nearer, keeps their order and sends the
  served one last (`CursorMoves`). Through the refinements of `Scheduler_proofs`
  this bounds the overtaking in both pumps, for every number of actors and
  domains. `NearerAlways`: the cursor never jumps over a waiting member.
* Telemetry: `SinceIsDifference`, that the wrapped difference of the code is the
  true age of the last reading, as long as it matters.
* Commands: `ArmIsNewest`, that what is armed is the newest unused request and
  its expiry is as far from the tick as the window leaves; the window is at most
  half of the counter's range.
* Watchdog: `TurnsCounted` (the counter is the snapshot's and the turns since,
  modulo its range), `StartsCounted` (what the domain counters of a snapshot
  say), and `NoSecondMiss` (the domain that was found stalled is the next to run).
* Buttons: `PressPhase` (where in its press each button is), `OneShadow` (a
  configured expander drives what its actor believes) and `EarlyWhenReady`; what
  the commands in a mailbox ask for is a function of the mailbox (`AskedOf`).

`I2c_proofs`, for every byte width, every greater number of pulses, every size of
the device and every fault. `BusInv`, between transactions, is only
`Phase(device, TRUE)` besides the properties: what a device may know and drive by
what the clock is at. A device that waits for a bit knows less than a byte and
drives SDA exactly in its acknowledge; one that sends may drive SDA at any time
but in the master's acknowledge. `Phase` holds between any two edges (`Sound`),
so it also holds wherever a transaction was broken off. From there each function
of the adapter has a lemma that says what it does to wires and device, in the
order of the code. A loop of the code is described by what holds after its i-th
round, and `Upto`, which follows from `Extrema` and so needs no induction theorem
with an operator parameter, carries that to the last one:

* `Freeing`: after k pulses a device that still holds SDA has sent k bits or
  stands in its acknowledge, so `Pulses > Bits` of them free it
  (`RecoverBusFacts`, `PrepareBusFacts`). This is why 9 pulses are needed for 8
  bits, whichever bit was broken off, and it is where `CleanSucceeds` comes from.
* `Sent`, `Told`: after i bits the device knows the first i bits of the byte
  (`Prefix`, by which the bits put together give the byte again), and after i
  bytes each value is in its register; registers wrap (`AtFacts`), so the last
  `Registers` values count.
* `Heard`, `Fetched`: the same of the bytes that come from the device.

`NoTornByte` needs that a recovery never clocks a listening device to the end of
its byte: a listening device holds SDA only in its acknowledge; the first pulse
ends that, the second shows SDA high, and a byte has more than one bit
(`OnePulse`). Held low from outside, SDA never shows high. A repeated
START keeps the register number, because a device that was just acknowledged does
not hold SDA and no pulses are sent (`RepeatedStart`).

Model-checked only: the liveness properties (`RunReturns`, `NoStarvation`,
`IngressServed`, `TicksComeWhenQuiet`, `Recovers`, `ShownAtLast`,
`AllActiveAtLast`), out of the prover's reach. `OvertakenOnce` is about
`FairTurns`; no theorem states it of the variables of `Scheduler`. `HeardInOrder`
is stated for the default build only (section 2).

## 5. Plan

In this order:

1. The network ring beside the sleep handshake: the guard does not look at it.
2. What a press or a command promises across Buttons and Commands together.

## 6. Not modelled, and why

The slots of 1-Wire and the half periods of I2C, which are a matter of
microseconds; the decoding of clock registers and scratchpads, whose outcome is a
valid or an invalid reading; formatting, logging and diagnostics, which change no
state that matters; the constant tables, whose values appear as constants; the
application's screens; start-up and the construction of actors, which run once
before the loop; the test rigs under `targets/` and the host tools; the SDK and
the hardware beyond what the adapters use of them (external definitions `Edge`,
`Wake`, those of the radio in NetAdapter, the I2C device, fingers and weather).
Values of counters that no property reads are left out.
