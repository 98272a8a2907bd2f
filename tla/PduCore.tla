------------------------------- MODULE PduCore -------------------------------
(***************************************************************************)
(* The firmware of the K7NVH DC PDU: the endless main loop of              *)
(* K7NVH_DC_PDU.c, the watchdog interrupt that schedules its checks, the   *)
(* commands that switch ports, the current and voltage supervision, and    *)
(* the settings these keep in EEPROM.                                      *)
(*                                                                         *)
(* The loop is one thread: pc names the statement it is about to run and   *)
(* i is the port of the "for" it is in.  A step is one port of one loop,   *)
(* so that an interrupt, a change of the load or a loss of power can come  *)
(* between any two of them.                                                *)
(***************************************************************************)
EXTENDS Integers, FiniteSets

CONSTANTS
    PORT_CNT,         \* ports of the unit (8 in the code)
    VCTL_DELAY,       \* ticks between voltage polls (20)
    ICTL_DELAY,       \* ticks between current scans (1)
    TIMER_MOD,        \* where the tick counter wraps (2^32)
    PCYCLE_MAX_TIME,  \* longest PCYCLE, in seconds (30)
    VMAX,             \* highest threshold, in volts (40)
    Volts,            \* input voltages the ADC may report, in 1/100 V
    Loads,            \* sets of ports that may be over their limit together
    Commands,         \* commands the host may send
    BootBytes,        \* port default bytes a new unit may hold
    CycleBytes,       \* PCYCLE time bytes it may hold
    CutOffWords,      \* cutoff threshold words it may hold
    CutOnWords,       \* cuton threshold words it may hold
    MaxOutages        \* bound on the losses of power in a behaviour

Port == 0 .. PORT_CNT - 1

SwitchOps == {"PON", "POFF", "PCYCLE"}
PortOps   == SwitchOps \cup {"SETDEFON", "SETDEFOFF", "VCTLON", "VCTLOFF"}
VctlOps   == {"SETVCTLON", "SETVCTLOFF"}
ControlOps == {"RESET", "BOOTLOADER"}   \* Ctrl-] and Ctrl-^, single bytes
Ops == PortOps \cup VctlOps \cup ControlOps \cup {"SETCYCLE", "NONE"}

Word    == 0 .. 65535
Command == [op : Ops, pd : SUBSET Port, val : Word]
NoCommand == [op |-> "NONE", pd |-> {}, val |-> 0]

(* Bit numbers of PORT_STATE and PORT_BOOT_STATE: a bitmap is the set of its *)
(* ones.                                                                     *)
Enabled  == 0
Overload == 1
Vctl     == 2
Changing == 3
BootEnabled == 0
BootVctl    == 1

Bits   == 0 .. 7
Erased == Bits            \* an EEPROM byte that was never written: 255
ErasedByte == 255
ErasedWord == 65535

ASSUME PortAssumption == PORT_CNT \in 1 .. 8
ASSUME TimerAssumption ==
    /\ VCTL_DELAY \in Nat \ {0}
    /\ ICTL_DELAY \in Nat \ {0}
    /\ TIMER_MOD \in Nat \ {0}
ASSUME LimitAssumption ==
    /\ PCYCLE_MAX_TIME \in 1 .. 254
    /\ VMAX \in Nat
    /\ Volts \subseteq Nat
    /\ MaxOutages \in Nat
ASSUME LoadAssumption == {} \in Loads /\ Loads \subseteq SUBSET Port
ASSUME CommandAssumption ==
    /\ Commands \subseteq Command
    /\ \A c \in Commands : c.op # "NONE"
    /\ \A c \in Commands : c.op \in VctlOps => \E p \in Port : c.pd = {p}
ASSUME ImageAssumption ==
    /\ BootBytes \subseteq {Erased} \cup SUBSET {BootEnabled, BootVctl}
    /\ CycleBytes \subseteq (0 .. PCYCLE_MAX_TIME) \cup {ErasedByte}
    /\ CutOffWords \subseteq Word
    /\ CutOnWords \subseteq Word

VARIABLES
    pc, i, cmd, wait, voltage,              \* the thread and its locals
    lineOpen,                               \* DATA_IN holds part of a line
    PORT_STATE, PORT_BOOT_STATE,            \* RAM
    PORTB, PORTC, redLed,                   \* output pins
    timer, check_current, check_voltage,    \* written by the interrupt
    eeBoot, eeCycle, eeCutOff, eeCutOn,     \* EEPROM
    over,                                   \* ports drawing more than their limit
    outages                                 \* losses of power so far

thread == <<pc, i, cmd, wait, voltage>>
ram    == <<PORT_STATE, PORT_BOOT_STATE>>
pins   == <<PORTB, PORTC>>
sched  == <<timer, check_current, check_voltage>>
eeprom == <<eeBoot, eeCycle, eeCutOff, eeCutOn>>
env    == <<over, outages>>
vars   == <<thread, lineOpen, ram, pins, redLed, sched, eeprom, env>>

-----------------------------------------------------------------------------
(* Reading the EEPROM                                                      *)

ReadBoot(byte) == IF byte = Erased THEN {BootEnabled} ELSE byte

CycleTime == IF eeCycle > PCYCLE_MAX_TIME THEN 1 ELSE eeCycle

(* Mutant: an unset threshold is used as it is. *)
CutOffUnclamped(word) == word

CutOff(word) == IF word > VMAX * 100 THEN 0 ELSE word

CutOn(word) == IF word > VMAX * 100 THEN VMAX * 100 ELSE word

-----------------------------------------------------------------------------
(* Ports and pins                                                          *)

(* Mutant: the bits of PORTC in the order of the ports. *)
PinBitAscending(port) == IF port <= 3 THEN 4 + port ELSE port

PinBit(port) == IF port <= 3 THEN 4 + port ELSE 11 - port

SetBit(reg, bit, on) == IF on THEN reg \cup {bit} ELSE reg \ {bit}

(* Mutant: PORT_CTL leaves the overload mark alone. *)
CtlKeepsMark(bits, on) == SetBit(bits, Enabled, on)

(* Mutant: turning a port off forgets to clear its Enabled bit. *)
CtlNeverClears(bits, on) == (IF on THEN bits \cup {Enabled} ELSE bits) \ {Overload}

(* What PORT_CTL does to the port's bitmap. *)
Ctl(bits, on) == SetBit(bits, Enabled, on) \ {Overload}

(* What PORT_CTL does to the registers. *)
DrivePin(port, on) ==
    /\ PORTB' = IF port <= 3 THEN SetBit(PORTB, PinBit(port), on) ELSE PORTB
    /\ PORTC' = IF port > 3 THEN SetBit(PORTC, PinBit(port), on) ELSE PORTC

SetState(port, bits) == PORT_STATE' = [PORT_STATE EXCEPT ![port] = bits]

Powered(port) == PinBit(port) \in IF port <= 3 THEN PORTB ELSE PORTC

(* One turn of a loop over the ports that began at "again". *)
NextPort(again, next) ==
    IF i + 1 < PORT_CNT
    THEN pc' = again /\ i' = i + 1
    ELSE pc' = next  /\ i' = 0

-----------------------------------------------------------------------------
(* Power up *)

Init ==
    /\ pc = "boot" /\ i = 0 /\ cmd = NoCommand /\ wait = 0 /\ voltage = 0
    /\ lineOpen = FALSE
    /\ PORT_STATE = [p \in Port |-> {}]
    /\ PORT_BOOT_STATE = [p \in Port |-> {}]
    /\ PORTB = {} /\ PORTC = {} /\ redLed = FALSE
    /\ timer = 0 /\ check_current = FALSE /\ check_voltage = FALSE
    /\ eeBoot \in [Port -> BootBytes]
    /\ eeCycle \in CycleBytes
    /\ eeCutOff \in [Port -> CutOffWords]
    /\ eeCutOn \in [Port -> CutOnWords]
    /\ over = {} /\ outages = 0

(* Mutant: voltage control is not restored at boot. *)
BootBitsNoVctl(byte) == Ctl({}, BootEnabled \in byte)

(* The bitmap a port starts with, RAM being zero at power up. *)
BootBits(byte) ==
    Ctl({}, BootEnabled \in byte) \cup IF BootVctl \in byte THEN {Vctl} ELSE {}

(* Ports take their stored default; voltage control resumes where stored. *)
BootPort ==
    /\ pc = "boot"
    /\ LET byte == ReadBoot(eeBoot[i])
       IN  /\ PORT_BOOT_STATE' = [PORT_BOOT_STATE EXCEPT ![i] = byte]
           /\ DrivePin(i, BootEnabled \in byte)
           /\ SetState(i, BootBits(byte))
    /\ NextPort("boot", "read")
    /\ UNCHANGED <<cmd, wait, voltage, lineOpen, redLed, sched, eeprom, env>>

-----------------------------------------------------------------------------
(* Receiving *)

NoByte ==
    /\ pc = "read" /\ pc' = "current"
    /\ UNCHANGED <<i, cmd, wait, voltage, lineOpen, ram, pins, redLed, sched, eeprom, env>>

(* A byte that edits the line or a command that changes none of this state *)
(* (HELP, STATUS, PSTATUS, DEBUG, SETNAME, SETLIMIT, the calibrations, an  *)
(* unrecognised line): afterwards the line is open or not.                 *)
EditLine ==
    /\ pc = "read" /\ pc' = "current"
    /\ lineOpen' \in BOOLEAN
    /\ UNCHANGED <<i, cmd, wait, voltage, ram, pins, redLed, sched, eeprom, env>>

(* The byte that completes a command: a newline after a line, or a control *)
(* byte at any time.  pc becomes the command's name.                       *)
Receive ==
    /\ pc = "read"
    /\ cmd' \in {c \in Commands : lineOpen \/ c.op \in ControlOps}
    /\ pc' = cmd'.op
    /\ UNCHANGED <<i, wait, voltage, lineOpen, ram, pins, redLed, sched, eeprom, env>>

(* INPUT_Clear after the command. *)
EndCommand ==
    /\ pc = "clear" /\ pc' = "current"
    /\ cmd' = NoCommand
    /\ lineOpen' = FALSE
    /\ UNCHANGED <<i, wait, voltage, ram, pins, redLed, sched, eeprom, env>>

-----------------------------------------------------------------------------
(* PON, POFF, PCYCLE *)

(* Mutant: a manual command leaves voltage control on. *)
SetPortKeepsVctl(on) ==
    IF i \in cmd.pd
    THEN DrivePin(i, on) /\ SetState(i, Ctl(PORT_STATE[i], on))
    ELSE UNCHANGED <<pins, PORT_STATE>>

(* One port of PORT_Set_Ctl: voltage control yields to a manual command. *)
SetPort(on) ==
    IF i \in cmd.pd
    THEN DrivePin(i, on) /\ SetState(i, Ctl(PORT_STATE[i], on) \ {Vctl})
    ELSE UNCHANGED <<pins, PORT_STATE>>

PortSetCtl(at, on, next) ==
    /\ pc = at
    /\ SetPort(on)
    /\ NextPort(at, next)
    /\ UNCHANGED <<cmd, wait, voltage, lineOpen, PORT_BOOT_STATE, redLed, sched, eeprom, env>>

Pon       == PortSetCtl("PON", TRUE, "clear")
Poff      == PortSetCtl("POFF", FALSE, "clear")
PcycleOff == PortSetCtl("PCYCLE", FALSE, "pcwait")

(* Mutant: the second half of PCYCLE is forgotten. *)
PcycleNeverOn == PortSetCtl("pcon", FALSE, "clear")

PcycleOn  == PortSetCtl("pcon", TRUE, "clear")

(* The thread sleeps a second at a time; nothing is supervised meanwhile. *)
PcycleWait ==
    /\ pc = "pcwait"
    /\ IF wait < CycleTime
       THEN wait' = wait + 1 /\ pc' = pc
       ELSE wait' = 0 /\ pc' = "pcon"
    /\ UNCHANGED <<i, cmd, voltage, lineOpen, ram, pins, redLed, sched, eeprom, env>>

-----------------------------------------------------------------------------
(* Settings *)

(* Mutant: the boot state is kept in RAM only. *)
StoreBootRamOnly(byte) ==
    /\ PORT_BOOT_STATE' = [PORT_BOOT_STATE EXCEPT ![i] = byte]
    /\ eeBoot' = eeBoot

(* The RAM copy of the boot state is changed, then written out whole. *)
StoreBoot(byte) ==
    /\ PORT_BOOT_STATE' = [PORT_BOOT_STATE EXCEPT ![i] = byte]
    /\ eeBoot' = [eeBoot EXCEPT ![i] = byte]

SetDef ==
    /\ pc \in {"SETDEFON", "SETDEFOFF"}
    /\ IF i \in cmd.pd
       THEN StoreBoot(SetBit(PORT_BOOT_STATE[i], BootEnabled, pc = "SETDEFON"))
       ELSE UNCHANGED <<PORT_BOOT_STATE, eeBoot>>
    /\ NextPort(pc, "clear")
    /\ UNCHANGED <<cmd, wait, voltage, lineOpen, PORT_STATE, pins, redLed, sched,
                   eeCycle, eeCutOff, eeCutOn, env>>

SetVctlEnable ==
    /\ pc \in {"VCTLON", "VCTLOFF"}
    /\ IF i \in cmd.pd
       THEN /\ StoreBoot(SetBit(PORT_BOOT_STATE[i], BootVctl, pc = "VCTLON"))
            /\ SetState(i, SetBit(PORT_STATE[i], Vctl, pc = "VCTLON"))
       ELSE UNCHANGED <<ram, eeBoot>>
    /\ NextPort(pc, "clear")
    /\ UNCHANGED <<cmd, wait, voltage, lineOpen, pins, redLed, sched,
                   eeCycle, eeCutOff, eeCutOn, env>>

(* Mutant: one second too many is accepted. *)
CycleAcceptedOffByOne(val) == val <= PCYCLE_MAX_TIME + 1

CycleAccepted(val) == val <= PCYCLE_MAX_TIME

SetCycle ==
    /\ pc = "SETCYCLE" /\ pc' = "clear"
    /\ eeCycle' = IF CycleAccepted(cmd.val) THEN cmd.val % 256 ELSE eeCycle
    /\ UNCHANGED <<i, cmd, wait, voltage, lineOpen, ram, pins, redLed, sched,
                   eeBoot, eeCutOff, eeCutOn, env>>

(* The range check of SETVCTL: the voltage is cut to whole volts first. *)
VctlInRange(val) == val \div 100 <= VMAX

SetThreshold(words) ==
    [p \in Port |-> IF p \in cmd.pd /\ VctlInRange(cmd.val) THEN cmd.val ELSE words[p]]

SetVctl ==
    /\ pc \in VctlOps /\ pc' = "clear"
    /\ IF pc = "SETVCTLON"
       THEN eeCutOn' = SetThreshold(eeCutOn) /\ eeCutOff' = eeCutOff
       ELSE eeCutOff' = SetThreshold(eeCutOff) /\ eeCutOn' = eeCutOn
    /\ UNCHANGED <<i, cmd, wait, voltage, lineOpen, ram, pins, redLed, sched,
                   eeBoot, eeCycle, env>>

(* EEPROM_Reset, cell after cell in the order of the addresses: i counts the *)
(* boot bytes, the cycle byte, then the two words of every port.             *)
LastCell == 3 * PORT_CNT

EraseCell ==
    /\ pc = "RESET"
    /\ eeBoot' = [p \in Port |-> IF p = i THEN Erased ELSE eeBoot[p]]
    /\ eeCycle' = IF i = PORT_CNT THEN ErasedByte ELSE eeCycle
    /\ eeCutOff' = [p \in Port |-> IF p = i - PORT_CNT - 1 THEN ErasedWord ELSE eeCutOff[p]]
    /\ eeCutOn' = [p \in Port |-> IF p = i - 2 * PORT_CNT - 1 THEN ErasedWord ELSE eeCutOn[p]]
    /\ IF i < LastCell THEN i' = i + 1 /\ pc' = pc ELSE i' = 0 /\ pc' = "clear"
    /\ UNCHANGED <<cmd, wait, voltage, lineOpen, ram, pins, redLed, sched, env>>

-----------------------------------------------------------------------------
(* Current supervision *)

SkipScan ==
    /\ pc = "current" /\ ~check_current /\ pc' = "voltage"
    /\ UNCHANGED <<i, cmd, wait, voltage, lineOpen, ram, pins, redLed, sched, eeprom, env>>

StartScan ==
    /\ pc = "current" /\ check_current /\ pc' = "scan"
    /\ UNCHANGED <<i, cmd, wait, voltage, lineOpen, ram, pins, redLed, sched, eeprom, env>>

(* Mutant: a tripped port stays under voltage control. *)
TripKeepsVctl(bits) == Ctl(bits, FALSE) \cup {Overload}

Trip(bits) == (Ctl(bits, FALSE) \cup {Overload}) \ {Vctl}

(* Mutant: the last port is never measured. *)
OverLimitButLast(port) == port \in over /\ port < PORT_CNT - 1

(* PORT_Check_Current_Limit: the measured current against the stored limit. *)
OverLimit(port) == port \in over

(* One port of Check_Current_Limits. *)
ScanPort ==
    /\ pc = "scan"
    /\ IF OverLimit(i)
       THEN DrivePin(i, FALSE) /\ SetState(i, Trip(PORT_STATE[i]))
            /\ redLed' = TRUE /\ lineOpen' = FALSE
       ELSE UNCHANGED <<pins, PORT_STATE, redLed, lineOpen>>
    /\ NextPort("scan", "scanned")
    /\ UNCHANGED <<cmd, wait, voltage, PORT_BOOT_STATE, sched, eeprom, env>>

Overloaded == {p \in Port : Overload \in PORT_STATE[p]}

(* Mutant: the LED is judged by the loads, not by the marks. *)
LedFollowsLoad == redLed /\ over # {}

(* Mutant: the LED is never turned off. *)
LedStaysOn == redLed

(* The LED goes out once no port is marked. *)
LedAfterScan == redLed /\ Overloaded # {}

(* The flag is cleared after the scan: a tick that came during it is lost. *)
EndScan ==
    /\ pc = "scanned" /\ pc' = "voltage"
    /\ redLed' = LedAfterScan
    /\ check_current' = FALSE
    /\ UNCHANGED <<i, cmd, wait, voltage, lineOpen, ram, pins, timer, check_voltage, eeprom, env>>

-----------------------------------------------------------------------------
(* Voltage control *)

SkipPoll ==
    /\ pc = "voltage" /\ ~check_voltage /\ pc' = "read"
    /\ UNCHANGED <<i, cmd, wait, voltage, lineOpen, ram, pins, redLed, sched, eeprom, env>>

(* One sample of the input serves the whole poll. *)
StartPoll ==
    /\ pc = "voltage" /\ check_voltage /\ pc' = "poll"
    /\ voltage' \in Volts
    /\ UNCHANGED <<i, cmd, wait, lineOpen, ram, pins, redLed, sched, eeprom, env>>

Low(port)  == voltage < CutOff(eeCutOff[port])
High(port) == voltage > CutOn(eeCutOn[port])

Beyond(port) == IF Enabled \in PORT_STATE[port] THEN Low(port) ELSE High(port)

(* Mutant: a poll within the thresholds does not restart the count. *)
PollMarkKept(bits, beyond) == IF beyond THEN bits \cup {Changing} ELSE bits

(* Mutant: the mark of the first poll is lost. *)
PollMarkLost(bits, beyond) == bits \ {Changing}

(* The "changing" mark after a poll that does not switch the port. *)
PollMark(bits, beyond) == SetBit(bits, Changing, beyond)

(* One port of Check_Voltage_Cutoff: the first poll beyond a threshold marks *)
(* the port, the second goes on to switch it, any other takes the mark away. *)
PollPort ==
    /\ pc = "poll"
    /\ IF Vctl \in PORT_STATE[i] /\ Beyond(i) /\ Changing \in PORT_STATE[i]
       THEN pc' = "cut" /\ UNCHANGED <<i, PORT_STATE>>
       ELSE /\ IF Vctl \in PORT_STATE[i]
               THEN SetState(i, PollMark(PORT_STATE[i], Beyond(i)))
               ELSE UNCHANGED PORT_STATE
            /\ NextPort("poll", "polled")
    /\ UNCHANGED <<cmd, wait, voltage, lineOpen, PORT_BOOT_STATE, pins, redLed, sched, eeprom, env>>

Cut ==
    /\ pc = "cut" /\ pc' = "restore"
    /\ IF Low(i)
       THEN DrivePin(i, FALSE) /\ SetState(i, Ctl(PORT_STATE[i], FALSE))
       ELSE UNCHANGED <<pins, PORT_STATE>>
    /\ UNCHANGED <<i, cmd, wait, voltage, lineOpen, PORT_BOOT_STATE, redLed, sched, eeprom, env>>

Restore ==
    /\ pc = "restore"
    /\ IF High(i)
       THEN DrivePin(i, TRUE) /\ SetState(i, Ctl(PORT_STATE[i], TRUE) \ {Changing})
       ELSE SetState(i, PORT_STATE[i] \ {Changing}) /\ UNCHANGED pins
    /\ lineOpen' = FALSE
    /\ NextPort("poll", "polled")
    /\ UNCHANGED <<cmd, wait, voltage, PORT_BOOT_STATE, redLed, sched, eeprom, env>>

EndPoll ==
    /\ pc = "polled" /\ pc' = "read"
    /\ voltage' = 0
    /\ check_voltage' = FALSE
    /\ UNCHANGED <<i, cmd, wait, lineOpen, ram, pins, redLed, timer, check_current, eeprom, env>>

-----------------------------------------------------------------------------
(* The interrupt and the world outside *)

(* ISR(WDT_vect).  Nothing masks it, the bootloader included. *)
Tick ==
    /\ timer' = (timer + 1) % TIMER_MOD
    /\ check_voltage' = (check_voltage \/ timer' % VCTL_DELAY = 0)
    /\ check_current' = (check_current \/ timer' % ICTL_DELAY = 0)
    /\ UNCHANGED <<thread, lineOpen, ram, pins, redLed, eeprom, env>>

LoadChange ==
    /\ over' \in Loads
    /\ UNCHANGED <<thread, lineOpen, ram, pins, redLed, sched, eeprom, outages>>

(* Power fails and returns: only the EEPROM keeps its content. *)
PowerLoss ==
    /\ outages < MaxOutages /\ outages' = outages + 1
    /\ pc' = "boot" /\ i' = 0 /\ cmd' = NoCommand /\ wait' = 0 /\ voltage' = 0
    /\ lineOpen' = FALSE
    /\ PORT_STATE' = [p \in Port |-> {}]
    /\ PORT_BOOT_STATE' = [p \in Port |-> {}]
    /\ PORTB' = {} /\ PORTC' = {} /\ redLed' = FALSE
    /\ timer' = 0 /\ check_current' = FALSE /\ check_voltage' = FALSE
    /\ UNCHANGED <<eeprom, over>>

-----------------------------------------------------------------------------

RunCommand ==
    \/ Pon \/ Poff
    \/ PcycleOff \/ PcycleWait \/ PcycleOn
    \/ SetDef \/ SetVctlEnable \/ SetCycle \/ SetVctl \/ EraseCell
    \/ EndCommand

Supervise ==
    \/ SkipScan \/ StartScan \/ ScanPort \/ EndScan
    \/ SkipPoll \/ StartPoll \/ PollPort \/ Cut \/ Restore \/ EndPoll

(* A step of the main thread. *)
MainLoop == BootPort \/ NoByte \/ EditLine \/ Receive \/ RunCommand \/ Supervise

Next == MainLoop \/ Tick \/ LoadChange \/ PowerLoss

Spec == Init /\ [][Next]_vars

(* The thread never blocks for good (every wait in it is bounded) and the  *)
(* watchdog keeps interrupting; the host, the load and the mains promise   *)
(* nothing.                                                                *)
FairSpec == Spec /\ WF_vars(MainLoop) /\ WF_vars(Tick)

-----------------------------------------------------------------------------
(* Properties *)

Locations ==
    {"boot", "read", "clear", "pcwait", "pcon", "current", "scan", "scanned",
     "voltage", "poll", "cut", "restore", "polled"} \cup (Ops \ {"NONE"})

PortBits == {Enabled, Overload, Vctl, Changing}
BootBitSet == {BootEnabled, BootVctl}

ThreadOK ==
    /\ pc \in Locations
    /\ i \in 0 .. LastCell
    /\ pc # "RESET" => i \in Port
    /\ cmd \in Command
    /\ wait \in Nat
    /\ voltage \in Nat
    /\ lineOpen \in BOOLEAN

RamOK ==
    /\ PORT_STATE \in [Port -> SUBSET PortBits]
    /\ PORT_BOOT_STATE \in [Port -> SUBSET BootBitSet]

PinsOK == PORTB \subseteq Bits /\ PORTC \subseteq Bits /\ redLed \in BOOLEAN

SchedOK ==
    timer \in 0 .. TIMER_MOD - 1 /\ check_current \in BOOLEAN /\ check_voltage \in BOOLEAN

EepromOK ==
    /\ eeBoot \in [Port -> {Erased} \cup SUBSET BootBitSet]
    /\ eeCycle \in (0 .. PCYCLE_MAX_TIME) \cup {ErasedByte}
    /\ eeCutOff \in [Port -> Word]
    /\ eeCutOn \in [Port -> Word]

EnvOK == over \subseteq Port /\ outages \in 0 .. MaxOutages

(* Every variable keeps its range; i runs beyond the ports only over the   *)
(* cells of EEPROM_Reset.                                                  *)
TypeOK == ThreadOK /\ RamOK /\ PinsOK /\ SchedOK /\ EepromOK /\ EnvOK

(* P1EN .. P8EN of the header: the register and bit wired to each port.    *)
PxEN == << <<"B", 4>>, <<"B", 5>>, <<"B", 6>>, <<"B", 7>>,
           <<"C", 7>>, <<"C", 6>>, <<"C", 5>>, <<"C", 4>> >>

DrivenBits(reg) ==
    {b \in Bits : \E p \in Port : PxEN[p + 1] = <<reg, b>> /\ Enabled \in PORT_STATE[p]}

(* The output registers drive exactly the sockets whose state says Enabled: *)
(* the state that STATUS and PSTATUS report is the one on the pins, through *)
(* boot, commands, trips and voltage control.                               *)
PinsMatchState == PORTB = DrivenBits("B") /\ PORTC = DrivenBits("C")

(* A port that carries the overload mark is off, whoever acted on it last.  *)
OverloadMeansOff == \A p \in Port : Overload \in PORT_STATE[p] => ~Powered(p)

(* The red LED burns as long as some port carries the overload mark.        *)
OverloadShowsLed == Overloaded # {} => redLed

(* The socket of a port is on, by the pin table. *)
Driven(port) == PxEN[port + 1][2] \in IF PxEN[port + 1][1] = "B" THEN PORTB ELSE PORTC

Sockets  == {p \in Port : Driven(p)}
Governed == {p \in Port : Vctl \in PORT_STATE[p]}

Asked(command) == [op |-> command.op, pd |-> command.pd]

(* The firmware implements the policy of its sockets: through registers,    *)
(* bitmaps, scans and polls no port is switched, freed, marked or unmarked  *)
(* but by the one who may, and none through the command for another.        *)
Policy == INSTANCE PortPolicy WITH
    Ports <- Port, Requests <- {Asked(c) : c \in Commands}, None <- Asked(NoCommand),
    powered <- Sockets, tripped <- Overloaded, auto <- Governed,
    lit <- redLed, asked <- Asked(cmd), starting <- (pc = "boot")
ImplementsPolicy == Policy!Spec

(* What holds the three together, step by step: a register bit is set       *)
(* exactly for a port of that register whose state says Enabled.            *)
PinsAgree ==
    /\ \A b \in Bits : b \in PORTB <=>
           \E p \in Port : p <= 3 /\ b = PinBit(p) /\ Enabled \in PORT_STATE[p]
    /\ \A b \in Bits : b \in PORTC <=>
           \E p \in Port : p > 3 /\ b = PinBit(p) /\ Enabled \in PORT_STATE[p]

MarkedOff == \A p \in Port : Overload \in PORT_STATE[p] => Enabled \notin PORT_STATE[p]

PowerInv == PinsAgree /\ MarkedOff /\ OverloadShowsLed

(* Voltage control goes on to switch a port only against a threshold that   *)
(* somebody stored: with the erased words, or with one above VMAX, a powered *)
(* port is never cut, nor one that is off turned on, by a reading up to VMAX. *)
SwitchNeedsThreshold ==
    pc = "cut" /\ voltage <= VMAX * 100 =>
        IF Enabled \in PORT_STATE[i] THEN eeCutOff[i] \in 1 .. VMAX * 100
                                     ELSE eeCutOn[i] \in 0 .. VMAX * 100

Ordered(port) == CutOff(eeCutOff[port]) <= CutOn(eeCutOn[port])

(* The two statements that switch a port leave it, for ordered thresholds,  *)
(* off when the sample was below the cutoff and on when above the cuton.    *)
PollEndsRight ==
    [][pc = "restore" /\ pc' # "restore" /\ pc' # "boot" /\ Ordered(i) =>
          /\ Low(i) => Enabled \notin PORT_STATE'[i]
          /\ High(i) => Enabled \in PORT_STATE'[i]]_vars

(* A powered port that stays above its limit is turned off in the end,      *)
(* whatever the host keeps sending, unless it jumped to the bootloader.     *)
OverloadTrips ==
    \A p \in Port :
        (p \in over /\ Powered(p)) ~> (p \notin over \/ ~Powered(p) \/ pc = "BOOTLOADER")

(* Every port that PCYCLE turned off is powered again, or the unit rebooted. *)
PcycleRestores ==
    \A p \in Port : (pc = "pcwait" /\ p \in cmd.pd) ~> (Powered(p) \/ pc = "boot")

(* The red LED goes out after the last overload mark is gone.               *)
LedGoesOut ==
    (Overloaded = {}) ~> (~redLed \/ Overloaded # {} \/ pc = "BOOTLOADER")

(* A port under voltage control with ordered thresholds whose input stays   *)
(* below the cutoff ends up off, and one whose input stays above the cuton  *)
(* ends up on.                                                              *)
VoltageControlSettles ==
    \A p \in Port :
        /\ <>[](Vctl \in PORT_STATE[p] /\ Ordered(p) /\ \A v \in Volts : v < CutOff(eeCutOff[p]))
              => <>[](~Powered(p) \/ pc = "BOOTLOADER")
        /\ <>[](Vctl \in PORT_STATE[p] /\ Ordered(p) /\ \A v \in Volts : v > CutOn(eeCutOn[p]))
              => <>[](Powered(p) \/ pc = "BOOTLOADER")
=============================================================================
