-------------------------------- MODULE I2cBus --------------------------------
(***************************************************************************)
(* The I2C master that drives two GPIO lines by hand                       *)
(* (adapters/esp8266_rtos_sdk/components/ev_platform/ev_i2c_adapter.c),    *)
(* and a device on the bus, edge by edge.                                  *)
(*                                                                         *)
(* All callers share the application's task, so a transaction is one       *)
(* action and the bus mutex is never contended; transaction_active is      *)
(* TRUE only inside it.  What goes wrong in a transaction is chosen at its *)
(* start: the deadline passes while other tasks run, the device stretches  *)
(* the clock too long, the chip restarts in its middle, or SDA is held     *)
(* low from outside.  Counters and logs are left out.                      *)
(***************************************************************************)
EXTENDS Integers, Sequences

CONSTANTS Bits,            \* of a byte: 8
          Pulses,          \* EV_ESP8266_I2C_RECOVERY_PULSES
          Address,         \* external: the device's
          Addresses,       \* the addresses used
          Registers,       \* how many registers the device has
          Bytes,           \* the values written, and held by the registers
          MaxWrite,        \* bound: bytes in one write
          MaxRead,         \* bound: bytes in one read
          MaxRaise         \* bound: clock pulse at which a fault sets in

\* What follows a start round by round, as in a loop of the code.
Rounds(n, start, Round(_, _)) ==
    LET after[i \in 0..n] == IF i = 0 THEN start ELSE Round(after[i - 1], i)
    IN  after[n]

Weight[i \in 0..Bits] == IF i = 0 THEN 1 ELSE 2 * Weight[i - 1]
Byte == 0..(Weight[Bits] - 1)
BitOf(value, i) == (value \div Weight[Bits - i]) % 2

ASSUME I2cAssumption ==
    /\ Bits \in Nat \ {0, 1} /\ Pulses \in Nat /\ Pulses > Bits
    /\ Registers \in 1..Weight[Bits]
    /\ Address \in Addresses /\ Addresses \subseteq 0..(Weight[Bits - 1] - 1)
    /\ Bytes \subseteq Byte /\ Bytes # {}
    /\ MaxWrite \in Nat \ {0} /\ MaxRead \in Nat \ {0} /\ MaxRaise \in Nat

-----------------------------------------------------------------------------
(* The device (external): it answers to its address, takes a register       *)
(* number, then bytes for that register and the next ones, or sends them.   *)

Quiet(dev) == [dev EXCEPT !.mode = "idle", !.slot = "data", !.bits = 0, !.value = 0, !.low = FALSE]
Started(dev) == [Quiet(dev) EXCEPT !.mode = "address"]
Receives(dev) == dev.mode \in {"address", "pointer", "write"}

ClockRises(dev, sda) ==
    IF Receives(dev) /\ dev.slot = "data"
    THEN [dev EXCEPT !.value = 2 * @ + sda, !.bits = @ + 1]
    ELSE IF dev.mode = "read" /\ dev.slot = "data" THEN [dev EXCEPT !.bits = @ + 1]
    ELSE IF dev.mode = "read" /\ sda = 1 THEN Quiet(dev)
    ELSE dev

Following(reg) == (reg + 1) % Registers
Taken(dev) ==
    CASE dev.mode = "address" -> dev
      [] dev.mode = "pointer" -> [dev EXCEPT !.reg = dev.value % Registers]
      [] dev.mode = "write"   -> [dev EXCEPT !.mem[dev.reg] = dev.value, !.reg = Following(@)]

Sending(dev, value) ==
    [dev EXCEPT !.mode = "read", !.slot = "data", !.bits = 0, !.value = value,
                !.low = BitOf(value, 1) = 0, !.reg = Following(@)]

Acknowledged(dev) ==
    IF dev.mode = "read" \/ (dev.mode = "address" /\ dev.value % 2 = 1)
    THEN Sending(dev, dev.mem[dev.reg])
    ELSE [Quiet(dev) EXCEPT !.mode = IF dev.mode = "address" THEN "pointer" ELSE "write"]

ClockFalls(dev) ==
    IF dev.mode = "idle" THEN dev
    ELSE IF dev.slot = "ack" THEN Acknowledged(dev)
    ELSE IF dev.mode = "read"
    THEN IF dev.bits = Bits THEN [dev EXCEPT !.slot = "ack", !.low = FALSE]
         ELSE [dev EXCEPT !.low = BitOf(dev.value, dev.bits + 1) = 0]
    ELSE IF dev.bits < Bits THEN dev
    ELSE IF dev.mode = "address" /\ dev.value \div 2 # Address THEN Quiet(dev)
    ELSE [Taken(dev) EXCEPT !.slot = "ack", !.low = TRUE]

-----------------------------------------------------------------------------
(* The wires during a transaction: sda and scl say what the master drives   *)
(* low, held what the fault does, raises counts the clock pulses tried,     *)
(* got the bytes read.  Nothing happens any more once the chip is cut off.  *)

Faults == [kind : {"none"}, at : {0}, to : {0}]
          \cup [kind : {"late", "cut"}, at : 1..MaxRaise, to : {0}]
          \cup {f \in [kind : {"stretch"}, at : 1..MaxRaise, to : 1..(MaxRaise + 2)] :
                    f.to \in {f.at, MaxRaise + 2}}
          \cup [kind : {"sda"}, at : {0}, to : {0}]

Wires(dev, fault) ==
    [dev |-> dev, fault |-> fault, sda |-> FALSE, scl |-> FALSE, held |-> FALSE,
     raises |-> 0, status |-> "OK", cut |-> FALSE, found |-> FALSE, got |-> <<>>]

Sda(w) == IF w.sda \/ w.dev.low \/ w.fault.kind = "sda" THEN 0 ELSE 1
Scl(w) == IF w.scl \/ w.held THEN 0 ELSE 1
Ok(w) == w.status = "OK"
Fails(w, status) == IF w.cut THEN w ELSE [w EXCEPT !.status = status]

\* A change of SDA while the clock is high is a START or a STOP.
SetSda(w, low) ==
    LET after == [w EXCEPT !.sda = low]
    IN  IF w.cut THEN w
        ELSE IF Scl(w) = 0 \/ Sda(after) = Sda(w) THEN after
        ELSE [after EXCEPT !.dev = IF Sda(after) = 0 THEN Started(@) ELSE Quiet(@)]

SclRises(w) ==
    LET after == [w EXCEPT !.scl = FALSE, !.held = FALSE]
    IN  IF Scl(w) = 1 THEN after ELSE [after EXCEPT !.dev = ClockRises(@, Sda(w))]

DriveSda(w) == SetSda(w, TRUE)
ReleaseSda(w) == SetSda(w, FALSE)

\* ev_esp8266_i2c_wait_scl_high() after SCL was released.
WaitSclHigh(w) ==
    LET n == w.raises + 1
    IN  IF w.cut THEN w
        ELSE IF w.fault.kind = "cut" /\ n >= w.fault.at THEN [w EXCEPT !.cut = TRUE]
        ELSE IF w.fault.kind = "stretch" /\ Scl(w) = 0 /\ n \in w.fault.at..w.fault.to
        THEN [w EXCEPT !.raises = n, !.scl = FALSE, !.held = TRUE, !.status = "TIMEOUT"]
        ELSE [SclRises(w) EXCEPT !.raises = n]

\* The deadline is looked at before SCL is released.
RaiseScl(w) ==
    IF w.fault.kind = "late" /\ w.raises + 1 >= w.fault.at
    THEN Fails([w EXCEPT !.raises = @ + 1], "TIMEOUT")
    ELSE WaitSclHigh(w)

LowerScl(w) ==
    IF w.cut THEN w
    ELSE IF Scl(w) = 0 THEN [w EXCEPT !.scl = TRUE]
    ELSE [w EXCEPT !.scl = TRUE, !.dev = ClockFalls(@)]

\* SDA first; a stretched clock stays low.
ReleaseLines(w) ==
    LET freed == ReleaseSda(w)
    IN  IF w.cut THEN w ELSE IF w.held THEN [freed EXCEPT !.scl = FALSE] ELSE SclRises(freed)

-----------------------------------------------------------------------------
(* The adapter, from the wires up.  What follows a failed step is skipped.  *)

Then(w, Step(_)) == IF Ok(w) /\ ~w.cut THEN Step(w) ELSE w

\* Fault: all pulses are sent, also once SDA is seen high.
Fault_RecoveryPulse(w) == Then(RaiseScl(w), LowerScl)

\* One pulse of ev_esp8266_i2c_recover_bus(), unless SDA was seen high before.
RecoveryPulse(w) ==
    IF w.found THEN w
    ELSE Then(RaiseScl(w), LAMBDA x : IF Sda(x) = 1 THEN [x EXCEPT !.found = TRUE] ELSE LowerScl(x))

\* Fault: two pulses fewer.
Fault_Pulses == Pulses - 2

PulseCount == Pulses

Clocked(w) == Rounds(PulseCount, [w EXCEPT !.found = FALSE], LAMBDA x, i : Then(x, RecoveryPulse))

\* The pulses end in a STOP.
RecoverBus(w) ==
    Then(Clocked(w), LAMBDA x :
        LET raised == RaiseScl(DriveSda(x))
        IN  IF ~Ok(raised) THEN ReleaseLines(raised)
            ELSE LET stopped == ReleaseSda(raised)
                 IN  IF Sda(stopped) = 1 /\ Scl(stopped) = 1 THEN stopped
                     ELSE Fails(stopped, "BUS_LOCKED"))

FreeBus(w) == Then(w, LAMBDA x : IF Sda(x) = 1 THEN x ELSE RecoverBus(x))

PrepareBus(w) == FreeBus(WaitSclHigh(ReleaseSda(w)))

StartCondition(w) ==
    Then(w, LAMBDA x :
        Then(FreeBus(WaitSclHigh(ReleaseSda(x))), LAMBDA y : LowerScl(DriveSda(y))))

StopCondition(w) ==
    LET raised == RaiseScl(DriveSda(w))
        stopped == ReleaseSda(raised)
    IN  IF ~Ok(raised) \/ raised.cut THEN stopped
        ELSE IF Sda(stopped) = 1 THEN stopped ELSE Fails(stopped, "BUS_LOCKED")

WriteBit(w, bit) ==
    LET raised == RaiseScl(SetSda(w, bit = 0))
    IN  IF Ok(raised) THEN LowerScl(raised) ELSE ReleaseSda(raised)

WriteByte(w, value) ==
    LET sent == Rounds(Bits, w, LAMBDA x, i : Then(x, LAMBDA y : WriteBit(y, BitOf(value, i))))
    IN  Then(sent, LAMBDA x :
            Then(RaiseScl(ReleaseSda(x)), LAMBDA y :
                IF Sda(y) = 0 THEN LowerScl(y) ELSE Fails(LowerScl(y), "NACK")))

ReadBit(w) ==
    Then(RaiseScl(w), LAMBDA x :
        LowerScl([x EXCEPT !.got[Len(x.got)] = 2 * @ + Sda(x)]))

AckAfter(i, length) == i < length

ReadByte(w, ack) ==
    LET read == Rounds(Bits, [ReleaseSda(w) EXCEPT !.got = Append(@, 0)],
                       LAMBDA x, i : Then(x, ReadBit))
    IN  Then(read, LAMBDA x :
            LET raised == RaiseScl(SetSda(x, ack))
            IN  IF Ok(raised) THEN ReleaseSda(LowerScl(raised)) ELSE ReleaseSda(raised))

WriteBytes(w, values) ==
    Rounds(Len(values), w, LAMBDA x, i : Then(x, LAMBDA y : WriteByte(y, values[i])))

ReadBytes(w, length) ==
    Rounds(length, w, LAMBDA x, i : Then(x, LAMBDA y : ReadByte(y, AckAfter(i, length))))

\* Fault: the status of the STOP replaces the failure.
Fault_Finish(w, started) ==
    ReleaseLines(IF started THEN StopCondition([w EXCEPT !.status = "OK"]) ELSE w)

\* ev_esp8266_i2c_finish_locked(): a failure is kept, a STOP tried all the same.
Finish(w, started) ==
    LET stopped == IF started THEN StopCondition([w EXCEPT !.status = "OK"]) ELSE w
    IN  ReleaseLines(Fails(stopped, IF Ok(w) THEN stopped.status ELSE w.status))

(* ev_esp8266_i2c_write_stream(), write_regs() and read_regs().             *)
Begun(w) == StartCondition(PrepareBus(w))
Written(w, address, values) ==
    LET begun == Begun(w)
    IN  Finish(WriteBytes(begun, <<2 * address>> \o values), Ok(begun))
Read(w, address, reg, length) ==
    LET begun == Begun(w)
        asked == WriteBytes(StartCondition(WriteBytes(begun, <<2 * address, reg>>)), <<2 * address + 1>>)
    IN  Finish(ReadBytes(asked, length), Ok(begun))

-----------------------------------------------------------------------------
VARIABLES device,     \* external
          last        \* history: how the last transaction ended
busVars == <<device, last>>

None == [clean |-> TRUE, held |-> FALSE, ok |-> TRUE, true |-> TRUE]
Mem == [0..(Registers - 1) -> Bytes]
Asleep(mem) == [mode |-> "idle", slot |-> "data", bits |-> 0, value |-> 0, low |-> FALSE,
                reg |-> 0, mem |-> mem]

BusInit == device \in {Asleep(mem) : mem \in Mem} /\ last = None

\* What the device sees of the end: a stretched clock rises at last, and a
\* chip that restarts lets go of both lines in either order.
Endings(w) ==
    LET freed == [w EXCEPT !.cut = FALSE, !.fault.kind = "none"]
    IN  IF w.cut THEN {SclRises(SetSda(freed, FALSE)).dev, SetSda(SclRises(freed), FALSE).dev}
        ELSE {SclRises(freed).dev}

\* true: an answer OK told the truth about what was written or read.
Ends(address, fault, w, truth(_)) ==
    /\ device' \in Endings(w)
    /\ last' = [clean |-> fault.kind = "none" /\ address = Address,
                held |-> fault.kind = "sda",
                ok |-> Ok(w) /\ ~w.cut,
                true |-> Ok(w) /\ ~w.cut => truth(device')]

At(reg, i) == (reg + i - 1) % Registers

WriteRegs(address, reg, values, fault) ==
    LET w == Written(Wires(device, fault), address, <<reg>> \o values)
    IN  Ends(address, fault, w,
             LAMBDA dev : /\ address = Address
                          /\ \A i \in DOMAIN values : i + Registers > Len(values)
                                                       => dev.mem[At(reg, i)] = values[i])

\* Also what ev_i2c_scan() does to each address.
WriteStream(address, fault) ==
    LET w == Written(Wires(device, fault), address, <<>>)
    IN  Ends(address, fault, w, LAMBDA dev : address = Address)

ReadRegs(address, reg, length, fault) ==
    LET w == Read(Wires(device, fault), address, reg, length)
    IN  Ends(address, fault, w,
             LAMBDA dev : w.got = [i \in 1..length |-> device.mem[At(reg, i)]])

\* ev_esp8266_i2c_prepare_for_sleep(), and the check at the end of port_init().
PrepareForSleep(fault) ==
    LET w == ReleaseLines(PrepareBus(Wires(device, fault)))
        checked == Then(w, LAMBDA x : IF Sda(x) = 1 /\ Scl(x) = 1 THEN x ELSE Fails(x, "BUS_LOCKED"))
    IN  Ends(Address, fault, checked, LAMBDA dev : ~dev.low)

Values == UNION {[1..n -> Bytes] : n \in 1..MaxWrite}

BusNext ==
    \E fault \in Faults :
        \/ \E address \in Addresses, reg \in 0..(Registers - 1), values \in Values :
              WriteRegs(address, reg, values, fault)
        \/ \E address \in Addresses : WriteStream(address, fault)
        \/ \E address \in Addresses, reg \in 0..(Registers - 1), n \in 1..MaxRead :
              ReadRegs(address, reg, n, fault)
        \/ PrepareForSleep(fault)

BusSpec == BusInit /\ [][BusNext]_busVars

-----------------------------------------------------------------------------
BusTypeOK ==
    /\ device \in [mode : {"idle", "address", "pointer", "write", "read"}, slot : {"data", "ack"},
                   bits : 0..Bits, value : Byte, low : BOOLEAN,
                   reg : 0..(Registers - 1), mem : [0..(Registers - 1) -> Byte]]
    /\ last \in [clean : BOOLEAN, held : BOOLEAN, ok : BOOLEAN, true : BOOLEAN]

(***************************************************************************)
(* Wherever an earlier transaction was broken off - at any clock pulse, by *)
(* the deadline, a stretched clock, a held line or a restart of the chip - *)
(* the next one that meets no fault of its own succeeds: the pulses and    *)
(* the STOP free a device that still drives SDA.                           *)
(***************************************************************************)
CleanSucceeds == last.clean => last.ok

(***************************************************************************)
(* EV_I2C_OK tells the truth, whatever went wrong on the way: a write is   *)
(* in the registers, a read gave their contents, an address answered, a    *)
(* bus ready for sleep is free.                                            *)
(***************************************************************************)
OkIsTrue == last.true

(***************************************************************************)
(* A register changes only to a byte that was sent as a whole.  A byte     *)
(* that was broken off is never completed by the pulses that free the bus, *)
(* unless SDA is held low from outside meanwhile: they then clock zeros    *)
(* into the rest of it.                                                    *)
(***************************************************************************)
Whole == \A i \in DOMAIN device.mem :
            device'.mem[i] # device.mem[i] => device'.mem[i] \in Bytes \/ last'.held
NoTornByte == [][Whole]_busVars
=============================================================================
