---------------------------- MODULE PduCoreProofs ----------------------------
(***************************************************************************)
(* Proofs about PduCore, for every number of ports and every value of the  *)
(* other constants that its assumptions allow.                             *)
(***************************************************************************)
EXTENDS PduCore, TLAPS

-----------------------------------------------------------------------------
(* Lemmas about the helpers *)

(* A smaller set of values makes a smaller set of functions.               *)
LEMMA FunctionRange ==
    ASSUME NEW S, NEW A, NEW B, A \subseteq B, NEW f \in [S -> A]
    PROVE  f \in [S -> B]
OBVIOUS

(* One turn of a loop over the ports keeps the thread's types.             *)
LEMMA NextPortType ==
    ASSUME ThreadOK, i \in Port,
           NEW again \in Locations, NEW next \in Locations, NextPort(again, next),
           next # "RESET" \/ i + 1 < PORT_CNT,
           UNCHANGED <<cmd, wait, voltage>>, lineOpen' \in BOOLEAN
    PROVE  ThreadOK'
<1>1. i' \in Port /\ pc' \in Locations
  BY PortAssumption DEF NextPort, Port, PortAssumption
<1>2. i' \in 0 .. LastCell
  BY <1>1, PortAssumption DEF Port, LastCell, PortAssumption
<1> QED BY <1>1, <1>2 DEF ThreadOK

(* PORT_CTL keeps a bitmap a bitmap.                                       *)
LEMMA CtlType ==
    ASSUME NEW bits \in SUBSET PortBits, NEW on
    PROVE  Ctl(bits, on) \in SUBSET PortBits
BY DEF Ctl, SetBit, PortBits

(* PORT_CTL keeps the registers registers.                                 *)
LEMMA DrivePinType ==
    ASSUME NEW port \in Port, NEW on, PinsOK, DrivePin(port, on), redLed' \in BOOLEAN
    PROVE  PinsOK'
<1>1. PinBit(port) \in Bits
  BY PortAssumption DEF PinBit, Port, Bits, PortAssumption
<1> QED BY <1>1 DEF DrivePin, SetBit, PinsOK

(* A new bitmap for one port keeps the RAM's types.                        *)
LEMMA SetStateType ==
    ASSUME RamOK, NEW port \in Port, NEW bits \in SUBSET PortBits, SetState(port, bits),
           PORT_BOOT_STATE' \in [Port -> SUBSET BootBitSet]
    PROVE  RamOK'
BY DEF SetState, RamOK

(* The stored boot byte is read as a boot state.                           *)
LEMMA ReadBootType ==
    ASSUME NEW byte \in {Erased} \cup SUBSET BootBitSet
    PROVE  ReadBoot(byte) \in SUBSET BootBitSet
BY DEF ReadBoot, BootBitSet

(* ... and starts the port with a bitmap.                                  *)
LEMMA BootBitsType ==
    ASSUME NEW byte PROVE BootBits(byte) \in SUBSET PortBits
BY DEF BootBits, Ctl, SetBit, PortBits

(* Storing a boot state keeps the types of both its copies.                *)
LEMMA StoreBootType ==
    ASSUME RamOK, EepromOK, i \in Port, NEW byte \in SUBSET BootBitSet, StoreBoot(byte)
    PROVE  /\ PORT_BOOT_STATE' \in [Port -> SUBSET BootBitSet]
           /\ eeBoot' \in [Port -> {Erased} \cup SUBSET BootBitSet]
BY DEF StoreBoot, RamOK, EepromOK

-----------------------------------------------------------------------------
(* Type correctness *)

LEMMA InitType == Init => TypeOK
<1> SUFFICES ASSUME Init PROVE TypeOK
  OBVIOUS
<1>1. ThreadOK
  <2>1. i \in 0 .. LastCell /\ i \in Port
    BY PortAssumption DEF Init, LastCell, Port, PortAssumption
  <2>2. cmd \in Command
    BY DEF Init, NoCommand, Command, Ops, Word
  <2> QED BY <2>1, <2>2 DEF Init, ThreadOK, Locations
<1>2. RamOK
  <2>1. {} \in SUBSET PortBits /\ {} \in SUBSET BootBitSet
    OBVIOUS
  <2> QED BY <2>1 DEF Init, RamOK
<1>3. PinsOK
  BY DEF Init, PinsOK
<1>4. SchedOK
  <2>1. 0 \in 0 .. TIMER_MOD - 1
    BY TimerAssumption DEF TimerAssumption
  <2> QED BY <2>1 DEF Init, SchedOK
<1>5. EepromOK
  <2>1. eeBoot \in [Port -> {Erased} \cup SUBSET BootBitSet]
    BY FunctionRange, ImageAssumption DEF Init, ImageAssumption, BootBitSet
  <2>2. eeCutOff \in [Port -> Word] /\ eeCutOn \in [Port -> Word]
    BY FunctionRange, ImageAssumption DEF Init, ImageAssumption
  <2> QED BY <2>1, <2>2, ImageAssumption DEF Init, EepromOK, ImageAssumption
<1>6. EnvOK
  BY LimitAssumption DEF Init, EnvOK, LimitAssumption
<1> QED BY <1>1, <1>2, <1>3, <1>4, <1>5, <1>6 DEF TypeOK

(* The boot loop and the bytes that arrive.                                *)
LEMMA InputType ==
    ASSUME TypeOK, BootPort \/ NoByte \/ EditLine \/ Receive
    PROVE  TypeOK'
<1> USE DEF TypeOK
<1>1. CASE BootPort
  <2> USE <1>1
  <2>1. i \in Port
    BY DEF ThreadOK, BootPort
  <2>2. ThreadOK'
    BY <2>1, NextPortType DEF BootPort, Locations, ThreadOK
  <2>3. ReadBoot(eeBoot[i]) \in SUBSET BootBitSet
    BY <2>1, ReadBootType DEF EepromOK
  <2>4. PORT_BOOT_STATE' \in [Port -> SUBSET BootBitSet]
    BY <2>1, <2>3 DEF BootPort, RamOK
  <2>5. RamOK'
    BY <2>1, <2>4, BootBitsType, SetStateType DEF BootPort
  <2>6. PinsOK'
    BY <2>1, DrivePinType DEF BootPort, PinsOK
  <2>7. SchedOK' /\ EepromOK' /\ EnvOK'
    BY DEF BootPort, sched, eeprom, env, SchedOK, EepromOK, EnvOK
  <2> QED BY <2>2, <2>5, <2>6, <2>7
<1>2. CASE NoByte \/ EditLine \/ Receive
  <2> USE <1>2
  <2>1. CASE Receive
    <3>1. cmd' \in Command /\ cmd'.op # "NONE" /\ pc' = cmd'.op
      BY <2>1, CommandAssumption DEF Receive, CommandAssumption
    <3>2. pc' \in Locations
      BY <3>1 DEF Locations, Command
    <3> QED BY <2>1, <3>1, <3>2 DEF Receive, ThreadOK, ram, pins, sched, eeprom, env,
                                    RamOK, PinsOK, SchedOK, EepromOK, EnvOK
  <2>2. CASE NoByte \/ EditLine
    BY <2>2 DEF NoByte, EditLine, ThreadOK, Locations, ram, pins, sched, eeprom, env,
                RamOK, PinsOK, SchedOK, EepromOK, EnvOK
  <2> QED BY <2>1, <2>2
<1> QED BY <1>1, <1>2

(* The commands that switch ports.                                         *)
LEMMA SwitchType ==
    ASSUME TypeOK, Pon \/ Poff \/ PcycleOff \/ PcycleOn
    PROVE  TypeOK'
<1> USE DEF TypeOK
<1>1. PICK at \in {"PON", "POFF", "PCYCLE", "pcon"}, on \in BOOLEAN, next \in {"clear", "pcwait"} :
          PortSetCtl(at, on, next)
  BY DEF Pon, Poff, PcycleOff, PcycleOn
<1>2. i \in Port
  BY <1>1 DEF ThreadOK, PortSetCtl
<1>3. at \in Locations /\ next \in Locations /\ next # "RESET"
  BY DEF Locations, Ops, PortOps, SwitchOps
<1>4. ThreadOK'
  BY <1>1, <1>2, <1>3, NextPortType DEF PortSetCtl, ThreadOK
<1>5. RamOK' /\ PinsOK'
  <2>1. CASE i \in cmd.pd
    <3>1. DrivePin(i, on) /\ SetState(i, Ctl(PORT_STATE[i], on) \ {Vctl})
      BY <1>1, <2>1 DEF PortSetCtl, SetPort
    <3>2. PORT_STATE[i] \in SUBSET PortBits
      BY <1>2 DEF RamOK
    <3>3. Ctl(PORT_STATE[i], on) \ {Vctl} \in SUBSET PortBits
      BY <3>2, CtlType
    <3>4. RamOK'
      BY <1>1, <1>2, <3>1, <3>3, SetStateType DEF PortSetCtl, RamOK
    <3>5. PinsOK'
      BY <1>1, <1>2, <3>1, DrivePinType DEF PortSetCtl, PinsOK
    <3> QED BY <3>4, <3>5
  <2>2. CASE i \notin cmd.pd
    BY <1>1, <2>2 DEF PortSetCtl, SetPort, pins, RamOK, PinsOK
  <2> QED BY <2>1, <2>2
<1>6. SchedOK' /\ EepromOK' /\ EnvOK'
  BY <1>1 DEF PortSetCtl, sched, eeprom, env, SchedOK, EepromOK, EnvOK
<1> QED BY <1>4, <1>5, <1>6

(* The rest of the commands.                                               *)
LEMMA SettingsType ==
    ASSUME TypeOK,
           PcycleWait \/ SetDef \/ SetVctlEnable \/ SetCycle \/ SetVctl \/ EraseCell \/ EndCommand
    PROVE  TypeOK'
<1> USE DEF TypeOK
<1>1. CASE PcycleWait
  BY <1>1 DEF PcycleWait, ThreadOK, Locations, ram, pins, sched, eeprom, env, RamOK, PinsOK,
              SchedOK, EepromOK, EnvOK
<1>7. CASE EndCommand
  <2>1. NoCommand \in Command
    BY DEF NoCommand, Command, Ops, Word
  <2> QED BY <1>7, <2>1 DEF EndCommand, ThreadOK, Locations, ram, pins, sched,
                            eeprom, env, RamOK, PinsOK, SchedOK, EepromOK, EnvOK
<1>2. CASE SetDef
  <2> USE <1>2
  <2>1. i \in Port /\ "clear" \in Locations
    BY DEF ThreadOK, SetDef, Locations
  <2>2. ThreadOK'
    BY <2>1, NextPortType DEF SetDef, ThreadOK
  <2>3. SetBit(PORT_BOOT_STATE[i], BootEnabled, pc = "SETDEFON") \in SUBSET BootBitSet
    BY <2>1 DEF RamOK, SetBit, BootBitSet
  <2>4. /\ PORT_BOOT_STATE' \in [Port -> SUBSET BootBitSet]
        /\ eeBoot' \in [Port -> {Erased} \cup SUBSET BootBitSet]
    BY <2>1, <2>3, StoreBootType DEF SetDef, RamOK, EepromOK
  <2>5. RamOK' /\ EepromOK'
    BY <2>4 DEF SetDef, RamOK, EepromOK
  <2> QED BY <2>2, <2>5 DEF SetDef, pins, sched, env, PinsOK, SchedOK, EnvOK
<1>3. CASE SetVctlEnable
  <2> USE <1>3
  <2>1. i \in Port /\ "clear" \in Locations
    BY DEF ThreadOK, SetVctlEnable, Locations
  <2>2. ThreadOK'
    BY <2>1, NextPortType DEF SetVctlEnable, ThreadOK
  <2>3. SetBit(PORT_BOOT_STATE[i], BootVctl, pc = "VCTLON") \in SUBSET BootBitSet
    BY <2>1 DEF RamOK, SetBit, BootBitSet
  <2>4. /\ PORT_BOOT_STATE' \in [Port -> SUBSET BootBitSet]
        /\ eeBoot' \in [Port -> {Erased} \cup SUBSET BootBitSet]
    BY <2>1, <2>3, StoreBootType DEF SetVctlEnable, RamOK, EepromOK, ram
  <2>5. SetBit(PORT_STATE[i], Vctl, pc = "VCTLON") \in SUBSET PortBits
    BY <2>1 DEF RamOK, SetBit, PortBits
  <2>6. RamOK'
    BY <2>1, <2>4, <2>5, SetStateType DEF SetVctlEnable, RamOK, ram
  <2>7. EepromOK'
    BY <2>4 DEF SetVctlEnable, EepromOK
  <2> QED BY <2>2, <2>6, <2>7 DEF SetVctlEnable, pins, sched, env, PinsOK, SchedOK, EnvOK
<1>4. CASE SetCycle
  <2>1. eeCycle' \in (0 .. PCYCLE_MAX_TIME) \cup {ErasedByte}
    <3>1. cmd.val \in Nat
      <4>1. cmd.val \in Word
        BY DEF ThreadOK, Command
      <4>2. \A w \in Word : w \in Nat
        BY DEF Word
      <4> QED BY <4>1, <4>2
    <3>2. ASSUME cmd.val <= PCYCLE_MAX_TIME
          PROVE  cmd.val % 256 \in 0 .. PCYCLE_MAX_TIME
      <4>1. cmd.val \in 0 .. 255
        BY <3>1, <3>2, LimitAssumption DEF LimitAssumption
      <4>2. cmd.val % 256 = cmd.val
        BY <4>1
      <4> QED BY <3>1, <3>2, <4>2, LimitAssumption DEF LimitAssumption
    <3> QED BY <1>4, <3>2 DEF SetCycle, CycleAccepted, EepromOK
  <2> QED BY <1>4, <2>1 DEF SetCycle, ThreadOK, Locations, ram, pins, sched, env,
                            RamOK, PinsOK, SchedOK, EepromOK, EnvOK
<1>5. CASE SetVctl
  <2>1. ASSUME NEW words \in [Port -> Word]
        PROVE  SetThreshold(words) \in [Port -> Word]
    BY DEF SetThreshold, ThreadOK, Command
  <2>2. eeCutOff' \in [Port -> Word] /\ eeCutOn' \in [Port -> Word]
    BY <1>5, <2>1 DEF SetVctl, EepromOK
  <2> QED BY <1>5, <2>2 DEF SetVctl, VctlOps, ThreadOK, Locations, ram, pins, sched, env,
                            RamOK, PinsOK, SchedOK, EepromOK, EnvOK
<1>6. CASE EraseCell
  <2> USE <1>6
  <2>1. 0 \in Port
    BY PortAssumption DEF Port, PortAssumption
  <2>2. i' \in 0 .. LastCell /\ (pc' = "RESET" \/ (pc' = "clear" /\ i' \in Port))
    BY <2>1, PortAssumption DEF EraseCell, ThreadOK, LastCell, PortAssumption
  <2>3. ThreadOK'
    BY <2>2 DEF EraseCell, ThreadOK, Locations
  <2>4. eeBoot' \in [Port -> {Erased} \cup SUBSET BootBitSet]
    BY DEF EraseCell, EepromOK
  <2>5. eeCutOff' \in [Port -> Word] /\ eeCutOn' \in [Port -> Word]
    <3>1. ErasedWord \in Word
      BY DEF Word, ErasedWord
    <3> QED BY <3>1 DEF EraseCell, EepromOK
  <2>6. EepromOK'
    BY <2>4, <2>5 DEF EraseCell, EepromOK
  <2> QED BY <2>3, <2>6 DEF EraseCell, ram, pins, sched, env, RamOK, PinsOK, SchedOK, EnvOK
<1> QED BY <1>1, <1>2, <1>3, <1>4, <1>5, <1>6, <1>7

(* The supervision of current and voltage.                                 *)
LEMMA SuperviseType == ASSUME TypeOK, Supervise PROVE TypeOK'
<1> USE DEF TypeOK
<1>1. CASE SkipScan \/ StartScan \/ SkipPoll
  BY <1>1 DEF SkipScan, StartScan, SkipPoll, ThreadOK, Locations, ram, pins, sched, eeprom,
              env, RamOK, PinsOK, SchedOK, EepromOK, EnvOK
<1>7. CASE EndScan
  <2>1. ThreadOK' /\ RamOK' /\ EepromOK' /\ EnvOK'
    BY <1>7 DEF EndScan, ThreadOK, Locations, ram, eeprom, env, RamOK, EepromOK, EnvOK
  <2>2. redLed' \in BOOLEAN
    BY <1>7 DEF EndScan, LedAfterScan, PinsOK
  <2> QED BY <1>7, <2>1, <2>2 DEF EndScan, pins, PinsOK, SchedOK
<1>8. CASE EndPoll
  BY <1>8 DEF EndPoll, ThreadOK, Locations, ram, pins, eeprom, env, RamOK, PinsOK, SchedOK,
              EepromOK, EnvOK
<1>2. CASE StartPoll
  <2>1. voltage' \in Nat
    BY <1>2, LimitAssumption DEF StartPoll, LimitAssumption
  <2> QED BY <1>2, <2>1 DEF StartPoll, ThreadOK, Locations, ram, pins, sched, eeprom, env,
                            RamOK, PinsOK, SchedOK, EepromOK, EnvOK
<1>3. CASE ScanPort
  <2> USE <1>3
  <2>1. i \in Port /\ "scan" \in Locations /\ "scanned" \in Locations
    BY DEF ThreadOK, ScanPort, Locations
  <2>2. lineOpen' \in BOOLEAN /\ redLed' \in BOOLEAN
    BY DEF ScanPort, ThreadOK, PinsOK
  <2>3. ThreadOK'
    BY <2>1, <2>2, NextPortType DEF ScanPort, ThreadOK
  <2>4. RamOK' /\ PinsOK'
    <3>1. CASE OverLimit(i)
      <4>1. DrivePin(i, FALSE) /\ SetState(i, Trip(PORT_STATE[i]))
        BY <3>1 DEF ScanPort
      <4>2. Trip(PORT_STATE[i]) \in SUBSET PortBits
        BY <2>1 DEF Trip, Ctl, SetBit, PortBits, RamOK
      <4>3. RamOK'
        BY <2>1, <4>1, <4>2, SetStateType DEF ScanPort, RamOK
      <4> QED BY <2>1, <2>2, <4>1, <4>3, DrivePinType
    <3>2. CASE ~OverLimit(i)
      BY <3>2 DEF ScanPort, pins, RamOK, PinsOK
    <3> QED BY <3>1, <3>2
  <2> QED BY <2>3, <2>4 DEF ScanPort, sched, eeprom, env, SchedOK, EepromOK, EnvOK
<1>4. CASE PollPort
  <2> USE <1>4
  <2>1. i \in Port /\ {"poll", "polled", "cut"} \subseteq Locations
    BY DEF ThreadOK, PollPort, Locations
  <2>2. ThreadOK'
    BY <2>1, NextPortType DEF PollPort, ThreadOK
  <2>3. PollMark(PORT_STATE[i], Beyond(i)) \in SUBSET PortBits
    BY <2>1 DEF PollMark, SetBit, RamOK, PortBits
  <2>4. RamOK'
    BY <2>1, <2>3, SetStateType DEF PollPort, RamOK
  <2> QED BY <2>2, <2>4 DEF PollPort, pins, sched, eeprom, env, PinsOK, SchedOK, EepromOK, EnvOK
<1>5. CASE Cut
  <2> USE <1>5
  <2>1. i \in Port
    BY DEF ThreadOK, Cut
  <2>2. ThreadOK'
    BY <2>1 DEF Cut, ThreadOK, Locations
  <2>3. Ctl(PORT_STATE[i], FALSE) \in SUBSET PortBits
    BY <2>1, CtlType DEF RamOK
  <2>4. RamOK'
    BY <2>1, <2>3, SetStateType DEF Cut, RamOK
  <2>5. PinsOK'
    BY <2>1, DrivePinType DEF Cut, pins, PinsOK
  <2> QED BY <2>2, <2>4, <2>5 DEF Cut, sched, eeprom, env, SchedOK, EepromOK, EnvOK
<1>6. CASE Restore
  <2> USE <1>6
  <2>1. i \in Port /\ {"poll", "polled"} \subseteq Locations
    BY DEF ThreadOK, Restore, Locations
  <2>2. ThreadOK'
    BY <2>1, NextPortType DEF Restore, ThreadOK
  <2>3. /\ Ctl(PORT_STATE[i], TRUE) \ {Changing} \in SUBSET PortBits
        /\ PORT_STATE[i] \ {Changing} \in SUBSET PortBits
    BY <2>1, CtlType DEF RamOK
  <2>4. RamOK'
    BY <2>1, <2>3, SetStateType DEF Restore, RamOK
  <2>5. PinsOK'
    BY <2>1, DrivePinType DEF Restore, pins, PinsOK
  <2> QED BY <2>2, <2>4, <2>5 DEF Restore, sched, eeprom, env, SchedOK, EepromOK, EnvOK
<1> QED BY <1>1, <1>2, <1>3, <1>4, <1>5, <1>6, <1>7, <1>8 DEF Supervise

(* The interrupt, the load, the mains, and a step that changes nothing.    *)
LEMMA OutsideType ==
    ASSUME TypeOK, Tick \/ LoadChange \/ PowerLoss \/ UNCHANGED vars
    PROVE  TypeOK'
<1> USE DEF TypeOK
<1>1. CASE Tick
  <2>1. SchedOK'
    BY <1>1, TimerAssumption DEF Tick, SchedOK, TimerAssumption
  <2> QED BY <1>1, <2>1 DEF Tick, thread, ram, pins, eeprom, env, ThreadOK, RamOK, PinsOK,
                            EepromOK, EnvOK
<1>2. CASE LoadChange
  BY <1>2, LoadAssumption DEF LoadChange, LoadAssumption, thread, ram, pins, sched, eeprom,
     ThreadOK, RamOK, PinsOK, SchedOK, EepromOK, EnvOK
<1>3. CASE PowerLoss
  <2>1. ThreadOK'
    <3>1. NoCommand \in Command
      BY DEF NoCommand, Command, Ops, Word
    <3>2. 0 \in Port /\ 0 \in 0 .. LastCell
      BY PortAssumption DEF Port, LastCell, PortAssumption
    <3> QED BY <1>3, <3>1, <3>2 DEF PowerLoss, ThreadOK, Locations
  <2>2. RamOK'
    <3>1. {} \in SUBSET PortBits /\ {} \in SUBSET BootBitSet
      OBVIOUS
    <3> QED BY <1>3, <3>1 DEF PowerLoss, RamOK
  <2>3. 0 \in 0 .. TIMER_MOD - 1
    BY TimerAssumption DEF TimerAssumption
  <2>4. SchedOK' /\ PinsOK'
    BY <1>3, <2>3 DEF PowerLoss, SchedOK, PinsOK
  <2>5. EnvOK'
    BY <1>3, LimitAssumption DEF PowerLoss, EnvOK, LimitAssumption
  <2> QED BY <1>3, <2>1, <2>2, <2>4, <2>5 DEF PowerLoss, eeprom, EepromOK
<1>4. CASE UNCHANGED vars
  BY <1>4 DEF vars, thread, ram, pins, sched, eeprom, env, ThreadOK, RamOK, PinsOK, SchedOK,
     EepromOK, EnvOK
<1> QED BY <1>1, <1>2, <1>3, <1>4

LEMMA NextType == TypeOK /\ [Next]_vars => TypeOK'
BY InputType, SwitchType, SettingsType, SuperviseType, OutsideType
   DEF Next, MainLoop, RunCommand

(* Every reachable state has the types TypeOK lists, whatever the number of *)
(* ports, the commands, the stored image and the number of power losses.    *)
THEOREM TypeCorrect == Spec => []TypeOK
BY InitType, NextType, PTL DEF Spec

-----------------------------------------------------------------------------
(* Pins, marks and the LED *)

(* Two ports of one register have different bits.                          *)
LEMMA PinBitInjective ==
    ASSUME NEW p \in Port, NEW q \in Port, p <= 3 <=> q <= 3, PinBit(p) = PinBit(q)
    PROVE  p = q
BY PortAssumption DEF PinBit, Port, PortAssumption

(* A port that is driven to a level and told so keeps the pins in step.    *)
LEMMA DriveAgrees ==
    ASSUME RamOK, PinsAgree, NEW port \in Port, NEW on \in BOOLEAN, NEW bits,
           DrivePin(port, on), SetState(port, bits), on <=> Enabled \in bits
    PROVE  PinsAgree'
<1>1. /\ PORT_STATE'[port] = bits
      /\ \A p \in Port : p # port => PORT_STATE'[p] = PORT_STATE[p]
  BY DEF SetState, RamOK
<1>2. \A p \in Port : (p <= 3) = ~(p > 3)
  BY PortAssumption DEF Port, PortAssumption
<1>3. CASE port <= 3
  <2>1. PORTB' = SetBit(PORTB, PinBit(port), on) /\ PORTC' = PORTC
    BY <1>2, <1>3 DEF DrivePin
  <2>2. \A b \in Bits : b \in PORTB' <=>
           \E p \in Port : p <= 3 /\ b = PinBit(p) /\ Enabled \in PORT_STATE'[p]
    BY <1>1, <1>3, <2>1, PinBitInjective DEF SetBit, PinsAgree
  <2>3. \A b \in Bits : b \in PORTC' <=>
           \E p \in Port : p > 3 /\ b = PinBit(p) /\ Enabled \in PORT_STATE'[p]
    BY <1>1, <1>2, <1>3, <2>1 DEF PinsAgree
  <2> QED BY <2>2, <2>3 DEF PinsAgree, PinBit
<1>4. CASE port > 3
  <2>1. PORTC' = SetBit(PORTC, PinBit(port), on) /\ PORTB' = PORTB
    BY <1>2, <1>4 DEF DrivePin
  <2>2. \A b \in Bits : b \in PORTC' <=>
           \E p \in Port : p > 3 /\ b = PinBit(p) /\ Enabled \in PORT_STATE'[p]
    BY <1>1, <1>2, <1>4, <2>1, PinBitInjective DEF SetBit, PinsAgree
  <2>3. \A b \in Bits : b \in PORTB' <=>
           \E p \in Port : p <= 3 /\ b = PinBit(p) /\ Enabled \in PORT_STATE'[p]
    BY <1>1, <1>2, <1>4, <2>1 DEF PinsAgree
  <2> QED BY <2>2, <2>3 DEF PinsAgree, PinBit
<1> QED BY <1>2, <1>3, <1>4

(* One port changes: the pins follow, and a mark comes with the LED.       *)
LEMMA PortUpdate ==
    ASSUME RamOK, PowerInv, NEW port \in Port, NEW bits, SetState(port, bits),
           \/ \E on \in BOOLEAN : DrivePin(port, on) /\ (on <=> Enabled \in bits)
           \/ UNCHANGED pins /\ (Enabled \in bits <=> Enabled \in PORT_STATE[port]),
           Overload \in bits => Enabled \notin bits,
           Overload \in bits => Overload \in PORT_STATE[port] \/ redLed',
           redLed => redLed'
    PROVE  PowerInv'
<1>1. /\ PORT_STATE'[port] = bits
      /\ \A p \in Port : p # port => PORT_STATE'[p] = PORT_STATE[p]
  BY DEF SetState, RamOK
<1>2. PinsAgree'
  <2>1. CASE \E on \in BOOLEAN : DrivePin(port, on) /\ (on <=> Enabled \in bits)
    BY <2>1, DriveAgrees DEF PowerInv
  <2>2. CASE UNCHANGED pins /\ (Enabled \in bits <=> Enabled \in PORT_STATE[port])
    BY <1>1, <2>2 DEF pins, PowerInv, PinsAgree, PinBit
  <2> QED BY <2>1, <2>2
<1>3. MarkedOff'
  BY <1>1 DEF PowerInv, MarkedOff
<1>4. OverloadShowsLed'
  BY <1>1 DEF PowerInv, OverloadShowsLed, Overloaded
<1> QED BY <1>2, <1>3, <1>4 DEF PowerInv

(* Nothing changes that the three speak of.                                *)
LEMMA PowerFrame ==
    ASSUME PowerInv, UNCHANGED <<PORT_STATE, pins, redLed>>
    PROVE  PowerInv'
BY DEF PowerInv, PinsAgree, PinBit, MarkedOff, OverloadShowsLed, Overloaded, pins

LEMMA PowerInit == Init => PowerInv
BY DEF Init, PowerInv, PinsAgree, MarkedOff, OverloadShowsLed, Overloaded

LEMMA PowerNext == TypeOK /\ PowerInv /\ [Next]_vars => PowerInv'
<1> SUFFICES ASSUME TypeOK, PowerInv, [Next]_vars PROVE PowerInv'
  OBVIOUS
<1>ram. RamOK /\ (pc # "RESET" => i \in Port)
  BY DEF TypeOK, ThreadOK
<1>1. CASE BootPort
  <2>1. /\ i \in Port
        /\ DrivePin(i, BootEnabled \in ReadBoot(eeBoot[i]))
        /\ SetState(i, BootBits(ReadBoot(eeBoot[i])))
        /\ redLed' = redLed
    BY <1>1, <1>ram DEF BootPort
  <2>2. /\ BootEnabled \in ReadBoot(eeBoot[i]) <=> Enabled \in BootBits(ReadBoot(eeBoot[i]))
        /\ Overload \notin BootBits(ReadBoot(eeBoot[i]))
    BY DEF BootBits, Ctl, SetBit, Enabled, Overload, Vctl, BootEnabled
  <2>3. (BootEnabled \in ReadBoot(eeBoot[i])) \in BOOLEAN
    OBVIOUS
  <2> QED BY <2>1, <2>2, <2>3, <1>ram, PortUpdate
<1>2. CASE Pon \/ Poff \/ PcycleOff \/ PcycleOn
  <2>1. PICK at \in {"PON", "POFF", "PCYCLE", "pcon"}, on \in BOOLEAN, next \in {"clear", "pcwait"} :
            PortSetCtl(at, on, next)
    BY <1>2 DEF Pon, Poff, PcycleOff, PcycleOn
  <2>2. i \in Port /\ redLed' = redLed
    BY <2>1, <1>ram DEF PortSetCtl
  <2>3. CASE i \in cmd.pd
    <3>1. DrivePin(i, on) /\ SetState(i, Ctl(PORT_STATE[i], on) \ {Vctl})
      BY <2>1, <2>3 DEF PortSetCtl, SetPort
    <3>2. /\ on <=> Enabled \in Ctl(PORT_STATE[i], on) \ {Vctl}
          /\ Overload \notin Ctl(PORT_STATE[i], on) \ {Vctl}
      BY DEF Ctl, SetBit, Enabled, Overload, Vctl
    <3> QED BY <2>2, <3>1, <3>2, <1>ram, PortUpdate
  <2>4. CASE i \notin cmd.pd
    BY <2>1, <2>2, <2>4, PowerFrame DEF PortSetCtl, SetPort
  <2> QED BY <2>3, <2>4
<1>3. CASE SetVctlEnable
  <2>1. i \in Port /\ UNCHANGED pins /\ redLed' = redLed
    BY <1>3, <1>ram DEF SetVctlEnable
  <2>2. CASE i \in cmd.pd
    <3>1. SetState(i, SetBit(PORT_STATE[i], Vctl, pc = "VCTLON"))
      BY <1>3, <2>2 DEF SetVctlEnable
    <3>2. /\ Enabled \in SetBit(PORT_STATE[i], Vctl, pc = "VCTLON") <=> Enabled \in PORT_STATE[i]
          /\ Overload \in SetBit(PORT_STATE[i], Vctl, pc = "VCTLON") <=> Overload \in PORT_STATE[i]
      BY DEF SetBit, Enabled, Overload, Vctl
    <3> QED BY <2>1, <3>1, <3>2, <1>ram, PortUpdate DEF PowerInv, MarkedOff
  <2>3. CASE i \notin cmd.pd
    BY <1>3, <2>1, <2>3, PowerFrame DEF SetVctlEnable, ram
  <2> QED BY <2>2, <2>3
<1>4. CASE ScanPort
  <2>1. i \in Port
    BY <1>4, <1>ram DEF ScanPort
  <2>2. CASE OverLimit(i)
    <3>1. DrivePin(i, FALSE) /\ SetState(i, Trip(PORT_STATE[i])) /\ redLed'
      BY <1>4, <2>2 DEF ScanPort
    <3>2. Enabled \notin Trip(PORT_STATE[i])
      BY DEF Trip, Ctl, SetBit, Enabled, Overload, Vctl
    <3> QED BY <2>1, <3>1, <3>2, <1>ram, PortUpdate
  <2>3. CASE ~OverLimit(i)
    BY <1>4, <2>3, PowerFrame DEF ScanPort
  <2> QED BY <2>2, <2>3
<1>5. CASE EndScan
  <2>1. UNCHANGED <<PORT_STATE, pins>> /\ redLed' = (redLed /\ Overloaded # {})
    BY <1>5 DEF EndScan, LedAfterScan, ram
  <2>2. OverloadShowsLed'
    BY <2>1 DEF PowerInv, OverloadShowsLed, Overloaded
  <2> QED BY <2>1, <2>2 DEF PowerInv, PinsAgree, PinBit, MarkedOff, pins
<1>6. CASE PollPort
  <2>1. i \in Port /\ UNCHANGED pins /\ redLed' = redLed
    BY <1>6, <1>ram DEF PollPort
  <2>2. CASE SetState(i, PollMark(PORT_STATE[i], Beyond(i)))
    <3>1. /\ Enabled \in PollMark(PORT_STATE[i], Beyond(i)) <=> Enabled \in PORT_STATE[i]
          /\ Overload \in PollMark(PORT_STATE[i], Beyond(i)) <=> Overload \in PORT_STATE[i]
      BY DEF PollMark, SetBit, Enabled, Overload, Changing
    <3> QED BY <2>1, <2>2, <3>1, <1>ram, PortUpdate DEF PowerInv, MarkedOff
  <2>3. CASE UNCHANGED PORT_STATE
    BY <2>1, <2>3, PowerFrame
  <2> QED BY <1>6, <2>2, <2>3 DEF PollPort
<1>7. CASE Cut
  <2>1. i \in Port /\ redLed' = redLed
    BY <1>7, <1>ram DEF Cut
  <2>2. CASE Low(i)
    <3>1. DrivePin(i, FALSE) /\ SetState(i, Ctl(PORT_STATE[i], FALSE))
      BY <1>7, <2>2 DEF Cut
    <3>2. Enabled \notin Ctl(PORT_STATE[i], FALSE) /\ Overload \notin Ctl(PORT_STATE[i], FALSE)
      BY DEF Ctl, SetBit
    <3> QED BY <2>1, <3>1, <3>2, <1>ram, PortUpdate
  <2>3. CASE ~Low(i)
    BY <1>7, <2>1, <2>3, PowerFrame DEF Cut
  <2> QED BY <2>2, <2>3
<1>8. CASE Restore
  <2>1. i \in Port /\ redLed' = redLed
    BY <1>8, <1>ram DEF Restore
  <2>2. CASE High(i)
    <3>1. DrivePin(i, TRUE) /\ SetState(i, Ctl(PORT_STATE[i], TRUE) \ {Changing})
      BY <1>8, <2>2 DEF Restore
    <3>2. /\ Enabled \in Ctl(PORT_STATE[i], TRUE) \ {Changing}
          /\ Overload \notin Ctl(PORT_STATE[i], TRUE) \ {Changing}
      BY DEF Ctl, SetBit, Enabled, Overload, Changing
    <3> QED BY <2>1, <3>1, <3>2, <1>ram, PortUpdate
  <2>3. CASE ~High(i)
    <3>1. SetState(i, PORT_STATE[i] \ {Changing}) /\ UNCHANGED pins
      BY <1>8, <2>3 DEF Restore
    <3>2. /\ Enabled \in PORT_STATE[i] \ {Changing} <=> Enabled \in PORT_STATE[i]
          /\ Overload \in PORT_STATE[i] \ {Changing} <=> Overload \in PORT_STATE[i]
      BY DEF Enabled, Overload, Changing
    <3> QED BY <2>1, <3>1, <3>2, <1>ram, PortUpdate DEF PowerInv, MarkedOff
  <2> QED BY <2>2, <2>3
<1>9. CASE PowerLoss
  BY <1>9 DEF PowerLoss, PowerInv, PinsAgree, MarkedOff, OverloadShowsLed, Overloaded
<1>10. CASE \/ NoByte \/ EditLine \/ Receive \/ PcycleWait \/ SetDef \/ SetCycle \/ SetVctl
            \/ EraseCell \/ EndCommand \/ SkipScan \/ StartScan \/ SkipPoll \/ StartPoll
            \/ EndPoll \/ Tick \/ LoadChange \/ UNCHANGED vars
  <2>1. UNCHANGED <<PORT_STATE, pins, redLed>>
    BY <1>10 DEF NoByte, EditLine, Receive, PcycleWait, SetDef, SetCycle, SetVctl, EraseCell,
       EndCommand, SkipScan, StartScan, SkipPoll, StartPoll, EndPoll, Tick, LoadChange, vars, ram
  <2> QED BY <2>1, PowerFrame
<1> QED
  BY <1>1, <1>2, <1>3, <1>4, <1>5, <1>6, <1>7, <1>8, <1>9, <1>10
     DEF Next, MainLoop, RunCommand, Supervise

(* The pins agree with the port states, a marked port is off and the red    *)
(* LED shows a mark, through every command, trip, poll and reboot.          *)
THEOREM PowerCorrect == Spec => []PowerInv
<1>1. TypeOK /\ PowerInv /\ [Next]_vars => (TypeOK /\ PowerInv)'
  BY NextType, PowerNext
<1> QED BY InitType, PowerInit, <1>1, PTL DEF Spec

(* A port's pin tells its state.                                           *)
LEMMA PoweredIffEnabled ==
    ASSUME PinsAgree, NEW p \in Port
    PROVE  Powered(p) <=> Enabled \in PORT_STATE[p]
<1>1. \A q \in Port : (q <= 3) = ~(q > 3)
  BY PortAssumption DEF Port, PortAssumption
<1>2. PinBit(p) \in Bits
  BY PortAssumption DEF PinBit, Port, Bits, PortAssumption
<1> QED BY <1>1, <1>2, PinBitInjective DEF PinsAgree, Powered

(* A port that carries the overload mark is off, for any number of ports,   *)
(* any commands, loads and voltages: OverloadMeansOff.                      *)
THEOREM OverloadedPortsAreOff == Spec => []OverloadMeansOff
<1>1. PowerInv => OverloadMeansOff
  BY PoweredIffEnabled DEF PowerInv, MarkedOff, OverloadMeansOff
<1> QED BY <1>1, PowerCorrect, PTL

(* The red LED burns while some port carries the overload mark.             *)
THEOREM OverloadIsShown == Spec => []OverloadShowsLed
<1>1. PowerInv => OverloadShowsLed
  BY DEF PowerInv
<1> QED BY <1>1, PowerCorrect, PTL

(* The arithmetic of PORT_CTL hits the pins that the header names.          *)
LEMMA PinTable ==
    ASSUME NEW p \in Port
    PROVE  PxEN[p + 1] = IF p <= 3 THEN <<"B", PinBit(p)>> ELSE <<"C", PinBit(p)>>
<1>1. p \in {0, 1, 2, 3, 4, 5, 6, 7}
  BY PortAssumption DEF Port, PortAssumption
<1> QED BY <1>1 DEF PxEN, PinBit

(* The registers drive exactly the sockets whose state says Enabled, by the *)
(* pin table of the header: PinsMatchState.                                 *)
THEOREM PinsShowState == Spec => []PinsMatchState
<1>1. PinsOK /\ PinsAgree => PinsMatchState
  <2> SUFFICES ASSUME PinsOK, PinsAgree PROVE PinsMatchState
    OBVIOUS
  <2>1. \A p \in Port : /\ p <= 3 \/ p > 3
                        /\ ~(p <= 3 /\ p > 3)
                        /\ PinBit(p) \in Bits
    BY PortAssumption DEF Port, PortAssumption, PinBit, Bits
  <2>pair. \A x, y : /\ <<"B", x>> # <<"C", y>>
                     /\ <<"B", x>> = <<"B", y>> <=> x = y
                     /\ <<"C", x>> = <<"C", y>> <=> x = y
    OBVIOUS
  <2>2. ASSUME NEW p \in Port, NEW b \in Bits
        PROVE  /\ PxEN[p + 1] = <<"B", b>> <=> p <= 3 /\ b = PinBit(p)
               /\ PxEN[p + 1] = <<"C", b>> <=> p > 3 /\ b = PinBit(p)
    <3>1. CASE p <= 3
      <4>1. PxEN[p + 1] = <<"B", PinBit(p)>>
        BY <3>1, PinTable
      <4>2. ~(p > 3)
        BY <2>1, <3>1
      <4> QED BY <3>1, <4>1, <4>2, <2>pair
    <3>2. CASE p > 3
      <4>1. ~(p <= 3)
        BY <2>1, <3>2
      <4>2. PxEN[p + 1] = <<"C", PinBit(p)>>
        BY <4>1, PinTable
      <4> QED BY <3>2, <4>1, <4>2, <2>pair
    <3> QED BY <2>1, <3>1, <3>2
  <2>4. PORTB = DrivenBits("B")
    BY <2>1, <2>2 DEF PinsAgree, DrivenBits, PinsOK
  <2>5. PORTC = DrivenBits("C")
    BY <2>1, <2>2 DEF PinsAgree, DrivenBits, PinsOK
  <2> QED BY <2>4, <2>5 DEF PinsMatchState
<1>2. TypeOK /\ PowerInv => PinsMatchState
  BY <1>1 DEF PowerInv, TypeOK
<1> QED BY <1>2, TypeCorrect, PowerCorrect, PTL

-----------------------------------------------------------------------------
(* Thresholds *)

(* Only a poll leads to the statements that switch a port.                 *)
LEMMA WhereSwitchesStart ==
    ASSUME TypeOK, [Next]_vars
    PROVE  /\ pc' = "cut" => PollPort \/ (pc = "cut" /\ UNCHANGED <<i, voltage, PORT_STATE, eeprom>>)
           /\ pc' = "restore" =>
                  Cut \/ (pc = "restore" /\ UNCHANGED <<i, voltage, PORT_STATE, eeprom>>)
           /\ pc = "restore" /\ pc' \notin {"restore", "boot"} => Restore
<1>1. CASE Receive
  <2>1. pc = "read" /\ pc' = cmd'.op /\ cmd'.op \in Ops
    BY <1>1, CommandAssumption DEF Receive, CommandAssumption, Command
  <2>2. pc' # "cut" /\ pc' # "restore"
    BY <2>1 DEF Ops, PortOps, SwitchOps, VctlOps, ControlOps
  <2> QED BY <2>1, <2>2
<1>2. CASE BootPort \/ Pon \/ Poff \/ PcycleOff \/ PcycleOn \/ SetDef \/ SetVctlEnable
  BY <1>2 DEF BootPort, Pon, Poff, PcycleOff, PcycleOn, PortSetCtl, SetDef, SetVctlEnable, NextPort
<1>3. CASE ScanPort \/ PollPort \/ Cut \/ Restore
  BY <1>3 DEF ScanPort, PollPort, Cut, Restore, NextPort
<1>4. CASE NoByte \/ EditLine \/ PcycleWait \/ EndCommand \/ SetCycle \/ SetVctl \/ EraseCell
  BY <1>4 DEF NoByte, EditLine, PcycleWait, EndCommand, SetCycle, SetVctl, VctlOps, EraseCell
<1>5. CASE SkipScan \/ StartScan \/ EndScan \/ SkipPoll \/ StartPoll \/ EndPoll
  BY <1>5 DEF SkipScan, StartScan, EndScan, SkipPoll, StartPoll, EndPoll
<1>6. CASE Tick \/ LoadChange \/ UNCHANGED vars
  BY <1>6 DEF Tick, LoadChange, vars, thread, ram
<1>7. CASE PowerLoss
  BY <1>7 DEF PowerLoss
<1> QED
  BY <1>1, <1>2, <1>3, <1>4, <1>5, <1>6, <1>7 DEF Next, MainLoop, RunCommand, Supervise

(* What the readers of the thresholds return, and from which words.        *)
LEMMA ThresholdsClamped ==
    ASSUME NEW word \in Word
    PROVE  /\ CutOff(word) \in 0 .. VMAX * 100 /\ CutOn(word) \in 0 .. VMAX * 100
           /\ CutOff(word) # 0 => word \in 1 .. VMAX * 100
           /\ CutOn(word) # VMAX * 100 => word \in 0 .. VMAX * 100
<1>1. word \in Nat /\ VMAX * 100 \in Nat
  BY LimitAssumption DEF LimitAssumption, Word
<1> QED BY <1>1 DEF CutOff, CutOn

(* Voltage control goes on to switch a port only against a threshold that   *)
(* was stored, whatever the words in EEPROM: SwitchNeedsThreshold.          *)
THEOREM SwitchesNeedThresholds == Spec => []SwitchNeedsThreshold
<1>1. Init => SwitchNeedsThreshold
  BY DEF Init, SwitchNeedsThreshold
<1>2. TypeOK /\ SwitchNeedsThreshold /\ [Next]_vars => SwitchNeedsThreshold'
  <2> SUFFICES ASSUME TypeOK, SwitchNeedsThreshold, [Next]_vars, pc' = "cut",
                      voltage' <= VMAX * 100
               PROVE  IF Enabled \in PORT_STATE'[i'] THEN eeCutOff'[i'] \in 1 .. VMAX * 100
                                                     ELSE eeCutOn'[i'] \in 0 .. VMAX * 100
    BY DEF SwitchNeedsThreshold
  <2>1. CASE PollPort
    <3>1. Beyond(i) /\ UNCHANGED <<i, voltage, PORT_STATE, eeCutOff, eeCutOn>>
      BY <2>1 DEF PollPort, NextPort, eeprom
    <3>2. i \in Port /\ voltage \in Nat /\ eeCutOff[i] \in Word /\ eeCutOn[i] \in Word
      BY <2>1 DEF PollPort, TypeOK, ThreadOK, EepromOK
    <3>3. VMAX * 100 \in Nat
      BY LimitAssumption DEF LimitAssumption
    <3>4. CASE Enabled \in PORT_STATE[i]
      <4>1. CutOff(eeCutOff[i]) # 0
        BY <3>1, <3>2, <3>4, ThresholdsClamped DEF Beyond, Low
      <4> QED BY <3>1, <3>2, <3>4, <4>1, ThresholdsClamped
    <3>5. CASE Enabled \notin PORT_STATE[i]
      <4>1. CutOn(eeCutOn[i]) # VMAX * 100
        BY <3>1, <3>2, <3>3, <3>5 DEF Beyond, High
      <4> QED BY <3>1, <3>2, <3>5, <4>1, ThresholdsClamped
    <3> QED BY <3>4, <3>5
  <2>2. CASE pc = "cut" /\ UNCHANGED <<i, voltage, PORT_STATE, eeprom>>
    BY <2>2 DEF SwitchNeedsThreshold, eeprom
  <2> QED BY <2>1, <2>2, WhereSwitchesStart
<1> QED BY <1>1, <1>2, TypeCorrect, PTL DEF Spec

(* After the first of the two statements a port below its cutoff is off.   *)
CutDone == pc = "restore" /\ Low(i) => Enabled \notin PORT_STATE[i]

LEMMA CutDoneNext == TypeOK /\ CutDone /\ [Next]_vars => CutDone'
<1> SUFFICES ASSUME TypeOK, CutDone, [Next]_vars, pc' = "restore", Low(i)'
             PROVE  Enabled \notin PORT_STATE'[i']
  BY DEF CutDone
<1>1. CASE Cut
  <2>1. i \in Port /\ UNCHANGED <<i, voltage, eeCutOff>> /\ PORT_STATE \in [Port -> SUBSET PortBits]
    BY <1>1 DEF Cut, TypeOK, ThreadOK, RamOK, eeprom
  <2>2. Low(i)
    BY <2>1 DEF Low, CutOff
  <2>3. SetState(i, Ctl(PORT_STATE[i], FALSE))
    BY <1>1, <2>2 DEF Cut
  <2>4. PORT_STATE'[i] = (PORT_STATE[i] \ {Enabled}) \ {Overload}
    BY <2>1, <2>3 DEF SetState, Ctl, SetBit
  <2> QED BY <2>1, <2>4
<1>2. CASE pc = "restore" /\ UNCHANGED <<i, voltage, PORT_STATE, eeprom>>
  BY <1>2 DEF CutDone, Low, CutOff, eeprom
<1> QED BY <1>1, <1>2, WhereSwitchesStart

(* With ordered thresholds a poll that switches a port leaves it off below  *)
(* its cutoff and on above its cuton: PollEndsRight.                        *)
THEOREM PollsEndRight == Spec => PollEndsRight
<1>1. Init => CutDone
  BY DEF Init, CutDone
<1>2. TypeOK /\ CutDone /\ [Next]_vars =>
          [pc = "restore" /\ pc' # "restore" /\ pc' # "boot" /\ Ordered(i) =>
              /\ Low(i) => Enabled \notin PORT_STATE'[i]
              /\ High(i) => Enabled \in PORT_STATE'[i]]_vars
  <2> SUFFICES ASSUME TypeOK, CutDone, [Next]_vars,
                      pc = "restore", pc' # "restore", pc' # "boot", Ordered(i)
               PROVE  /\ Low(i) => Enabled \notin PORT_STATE'[i]
                      /\ High(i) => Enabled \in PORT_STATE'[i]
    OBVIOUS
  <2>1. Restore
    BY WhereSwitchesStart
  <2>2. /\ i \in Port /\ voltage \in Nat /\ PORT_STATE \in [Port -> SUBSET PortBits]
        /\ eeCutOff[i] \in Word /\ eeCutOn[i] \in Word
    BY <2>1 DEF Restore, TypeOK, ThreadOK, RamOK, EepromOK
  <2>3. CutOff(eeCutOff[i]) \in Int /\ CutOn(eeCutOn[i]) \in Int
    BY <2>2, LimitAssumption, ThresholdsClamped DEF LimitAssumption
  <2>4. ASSUME Low(i) PROVE Enabled \notin PORT_STATE'[i]
    <3>1. ~High(i)
      BY <2>2, <2>3, <2>4 DEF Low, High, Ordered
    <3>2. PORT_STATE'[i] = PORT_STATE[i] \ {Changing}
      BY <2>1, <2>2, <3>1 DEF Restore, SetState
    <3> QED BY <2>4, <3>2 DEF CutDone
  <2>5. ASSUME High(i) PROVE Enabled \in PORT_STATE'[i]
    <3>1. PORT_STATE'[i] = ((PORT_STATE[i] \cup {Enabled}) \ {Overload}) \ {Changing}
      BY <2>1, <2>2, <2>5 DEF Restore, SetState, Ctl, SetBit
    <3> QED BY <3>1 DEF Enabled, Overload, Changing
  <2> QED BY <2>4, <2>5
<1> QED BY <1>1, <1>2, CutDoneNext, TypeCorrect, PTL DEF Spec, PollEndsRight

-----------------------------------------------------------------------------
(* The policy of the sockets *)

(* The command that runs is the one that was received.                     *)
CommandInv ==
    /\ pc \in PortOps => cmd.op = pc
    /\ pc \in {"pcwait", "pcon"} => cmd.op = "PCYCLE"

(* Voltage control goes on to switch only a port it is in charge of.       *)
ChargeInv == pc \in {"cut", "restore"} => Vctl \in PORT_STATE[i]

LEMMA CommandNext == TypeOK /\ CommandInv /\ [Next]_vars => CommandInv'
<1> SUFFICES ASSUME TypeOK, CommandInv, [Next]_vars PROVE CommandInv'
  OBVIOUS
<1> USE DEF CommandInv, PortOps, SwitchOps
<1>1. CASE Receive
  <2>1. pc' = cmd'.op /\ cmd'.op \in Ops
    BY <1>1, CommandAssumption DEF Receive, CommandAssumption, Command
  <2> QED BY <2>1 DEF Ops, VctlOps, ControlOps
<1>2. CASE BootPort \/ NoByte \/ EditLine \/ EndCommand \/ PowerLoss
  BY <1>2 DEF BootPort, NoByte, EditLine, EndCommand, PowerLoss, NextPort
<1>3. CASE Pon \/ Poff \/ PcycleOff \/ PcycleOn \/ PcycleWait
  BY <1>3 DEF Pon, Poff, PcycleOff, PcycleOn, PcycleWait, PortSetCtl, NextPort
<1>4. CASE SetDef \/ SetVctlEnable \/ SetCycle \/ SetVctl \/ EraseCell
  BY <1>4 DEF SetDef, SetVctlEnable, SetCycle, SetVctl, EraseCell, NextPort
<1>5. CASE SkipScan \/ StartScan \/ ScanPort \/ EndScan
  BY <1>5 DEF SkipScan, StartScan, ScanPort, EndScan, NextPort
<1>6. CASE SkipPoll \/ StartPoll \/ PollPort \/ Cut \/ Restore \/ EndPoll
  BY <1>6 DEF SkipPoll, StartPoll, PollPort, Cut, Restore, EndPoll, NextPort
<1>7. CASE Tick \/ LoadChange \/ UNCHANGED vars
  BY <1>7 DEF Tick, LoadChange, vars, thread
<1> QED
  BY <1>1, <1>2, <1>3, <1>4, <1>5, <1>6, <1>7 DEF Next, MainLoop, RunCommand, Supervise

LEMMA ChargeNext == TypeOK /\ ChargeInv /\ [Next]_vars => ChargeInv'
<1> SUFFICES ASSUME TypeOK, ChargeInv, [Next]_vars, pc' \in {"cut", "restore"}
             PROVE  Vctl \in PORT_STATE'[i']
  BY DEF ChargeInv
<1>1. CASE PollPort
  <2>1. pc' = "cut" => Vctl \in PORT_STATE[i] /\ UNCHANGED <<i, PORT_STATE>>
    BY <1>1 DEF PollPort, NextPort
  <2>2. pc' # "restore"
    BY <1>1 DEF PollPort, NextPort
  <2> QED BY <2>1, <2>2
<1>2. CASE Cut
  <2>1. i \in Port /\ Vctl \in PORT_STATE[i] /\ i' = i /\ PORT_STATE \in [Port -> SUBSET PortBits]
    BY <1>2 DEF Cut, TypeOK, ThreadOK, RamOK, ChargeInv
  <2>2. PORT_STATE'[i] = (PORT_STATE[i] \ {Enabled}) \ {Overload} \/ PORT_STATE'[i] = PORT_STATE[i]
    BY <1>2, <2>1 DEF Cut, SetState, Ctl, SetBit
  <2> QED BY <2>1, <2>2 DEF Vctl, Enabled, Overload
<1>3. CASE pc \in {"cut", "restore"} /\ UNCHANGED <<i, PORT_STATE>>
  BY <1>3 DEF ChargeInv
<1> QED BY <1>1, <1>2, <1>3, WhereSwitchesStart

(* The sockets by the pin table are the ports whose state says Enabled.    *)
On == {p \in Port : Enabled \in PORT_STATE[p]}
SocketsInv == Sockets = On

LEMMA DrivenAreOn == PinsAgree => SocketsInv
<1> SUFFICES ASSUME PinsAgree PROVE SocketsInv
  OBVIOUS
<1>1. ASSUME NEW p \in Port PROVE Driven(p) <=> Enabled \in PORT_STATE[p]
  <2>1. \A x : <<"B", x>>[1] = "B" /\ <<"B", x>>[2] = x /\ <<"C", x>>[1] # "B" /\ <<"C", x>>[2] = x
    OBVIOUS
  <2>2. CASE p <= 3
    <3>1. PxEN[p + 1][1] = "B" /\ PxEN[p + 1][2] = PinBit(p)
      <4>1. PxEN[p + 1] = <<"B", PinBit(p)>>
        BY <2>2, PinTable
      <4> QED BY <2>1, <4>1, Zenon
    <3>2. Driven(p) <=> Powered(p)
      BY <2>2, <3>1 DEF Driven, Powered
    <3> QED BY <3>2, PoweredIffEnabled
  <2>3. CASE ~(p <= 3)
    <3>1. PxEN[p + 1][1] # "B" /\ PxEN[p + 1][2] = PinBit(p)
      <4>1. PxEN[p + 1] = <<"C", PinBit(p)>>
        BY <2>3, PinTable
      <4> QED BY <2>1, <4>1, Zenon
    <3>2. Driven(p) <=> Powered(p)
      BY <2>3, <3>1 DEF Driven, Powered
    <3> QED BY <3>2, PoweredIffEnabled
  <2> QED BY <2>2, <2>3
<1> QED BY <1>1 DEF SocketsInv, Sockets, On

PolicyInv == TypeOK /\ PowerInv /\ CommandInv /\ ChargeInv /\ SocketsInv

LEMMA PolicyInvariant == Spec => []PolicyInv
<1>1. Init => CommandInv /\ ChargeInv
  BY DEF Init, CommandInv, ChargeInv, PortOps, SwitchOps
<1>2. TypeOK /\ CommandInv /\ ChargeInv /\ [Next]_vars => (TypeOK /\ CommandInv /\ ChargeInv)'
  BY NextType, CommandNext, ChargeNext
<1>3. PowerInv => SocketsInv
  BY DrivenAreOn DEF PowerInv
<1> QED BY <1>1, <1>2, <1>3, InitType, PowerCorrect, PTL DEF Spec, PolicyInv

(* One port's bitmap changes: so do the three sets, at that port only.     *)
LEMMA SetsFollow ==
    ASSUME RamOK, SocketsInv, SocketsInv', NEW port \in Port, NEW bits, SetState(port, bits)
    PROVE  /\ Sockets' = Policy!Put(Sockets, port, Enabled \in bits)
           /\ Overloaded' = Policy!Put(Overloaded, port, Overload \in bits)
           /\ Governed' = Policy!Put(Governed, port, Vctl \in bits)
<1>1. /\ PORT_STATE'[port] = bits
      /\ \A p \in Port : p # port => PORT_STATE'[p] = PORT_STATE[p]
  BY DEF SetState, RamOK
<1>2. On' = Policy!Put(On, port, Enabled \in bits)
  BY <1>1 DEF On, Policy!Put
<1>3. Overloaded' = Policy!Put(Overloaded, port, Overload \in bits)
  BY <1>1 DEF Overloaded, Policy!Put
<1>4. Governed' = Policy!Put(Governed, port, Vctl \in bits)
  BY <1>1 DEF Governed, Policy!Put
<1> QED BY <1>2, <1>3, <1>4 DEF SocketsInv

(* What leaves the bitmaps alone leaves the sets alone.                    *)
LEMMA SetsStay ==
    ASSUME SocketsInv, SocketsInv', UNCHANGED PORT_STATE
    PROVE  UNCHANGED <<Sockets, Overloaded, Governed>>
BY DEF SocketsInv, On, Overloaded, Governed

(* Putting in what is there, or taking out what is not, changes nothing.   *)
LEMMA PutSame ==
    ASSUME NEW S, NEW p, NEW in, p \in S <=> in
    PROVE  Policy!Put(S, p, in) = S
BY DEF Policy!Put

(* Neither does a new mark of a poll.                                      *)
LEMMA SameBits ==
    ASSUME RamOK, SocketsInv, SocketsInv', NEW port \in Port, NEW bits, SetState(port, bits),
           (Enabled \in bits) = (Enabled \in PORT_STATE[port]),
           (Overload \in bits) = (Overload \in PORT_STATE[port]),
           (Vctl \in bits) = (Vctl \in PORT_STATE[port])
    PROVE  UNCHANGED <<Sockets, Overloaded, Governed>>
<1>1. /\ PORT_STATE'[port] = bits
      /\ \A p \in Port : p # port => PORT_STATE'[p] = PORT_STATE[p]
  BY DEF SetState, RamOK
<1> QED BY <1>1 DEF SocketsInv, On, Overloaded, Governed

(* Every step of the firmware is one of the policy, or none.               *)
LEMMA PolicyStep ==
    PolicyInv /\ PolicyInv' /\ [Next]_vars => [Policy!Next]_(Policy!policy)
<1> SUFFICES ASSUME PolicyInv, PolicyInv', [Next]_vars PROVE [Policy!Next]_(Policy!policy)
  OBVIOUS
<1>inv. /\ RamOK /\ SocketsInv /\ SocketsInv' /\ CommandInv /\ ChargeInv
        /\ pc # "RESET" => i \in Port
        /\ over \subseteq Port /\ over' \subseteq Port
  BY DEF PolicyInv, TypeOK, ThreadOK, EnvOK
<1>1. CASE BootPort
  <2>1. /\ i \in Port /\ pc = "boot"
        /\ SetState(i, BootBits(ReadBoot(eeBoot[i])))
        /\ UNCHANGED <<redLed, cmd, over>>
    BY <1>1, <1>inv DEF BootPort, env
  <2> DEFINE bits == BootBits(ReadBoot(eeBoot[i]))
  <2>2. /\ Sockets' = Policy!Put(Sockets, i, Enabled \in bits)
        /\ Overloaded' = Policy!Put(Overloaded, i, Overload \in bits)
        /\ Governed' = Policy!Put(Governed, i, Vctl \in bits)
    BY <1>inv, <2>1, SetsFollow
  <2>3. (Overload \in bits) = FALSE
    BY DEF BootBits, Ctl, SetBit, Enabled, Overload, Vctl
  <2>4. Overloaded' = Overloaded \ {i}
    BY <2>2, <2>3 DEF Policy!Put
  <2> HIDE DEF bits
  <2>5. Policy!Switch(i, Enabled \in bits)
    BY <2>2, <2>4 DEF Policy!Switch
  <2>6. \E on, control \in BOOLEAN :
            Policy!Switch(i, on) /\ Governed' = Policy!Put(Governed, i, control)
    <3>1. (Enabled \in bits) \in BOOLEAN /\ (Vctl \in bits) \in BOOLEAN
      OBVIOUS
    <3> QED BY <2>2, <2>5, <3>1, Zenon
  <2>7. Policy!Start(i)
    BY <2>1, <2>6 DEF Policy!Start
  <2> QED BY <2>1, <2>7 DEF Policy!Next
<1>2. CASE Pon \/ Poff \/ PcycleOff \/ PcycleOn
  <2>1. PICK at \in {"PON", "POFF", "PCYCLE", "pcon"}, on \in BOOLEAN, next \in {"clear", "pcwait"} :
            /\ PortSetCtl(at, on, next)
            /\ on => at \in {"PON", "pcon"}
            /\ ~on => at \in {"POFF", "PCYCLE"}
    BY <1>2 DEF Pon, Poff, PcycleOff, PcycleOn
  <2>2. /\ i \in Port /\ UNCHANGED <<redLed, cmd, over>> /\ pc = at
        /\ (pc' = "boot") = (pc = "boot")
    BY <2>1, <1>inv DEF PortSetCtl, NextPort, env
  <2>3. CASE i \in cmd.pd
    <3> DEFINE bits == Ctl(PORT_STATE[i], on) \ {Vctl}
    <3>1. SetState(i, bits)
      BY <2>1, <2>3 DEF PortSetCtl, SetPort
    <3>2. (Enabled \in bits) = on /\ (Overload \in bits) = FALSE /\ (Vctl \in bits) = FALSE
      BY DEF Ctl, SetBit, Enabled, Overload, Vctl
    <3>3. /\ Sockets' = Policy!Put(Sockets, i, on)
          /\ Overloaded' = Policy!Put(Overloaded, i, FALSE)
          /\ Governed' = Policy!Put(Governed, i, FALSE)
      <4> HIDE DEF bits
      <4> QED BY <1>inv, <2>2, <3>1, <3>2, SetsFollow
    <3>4. Policy!Switch(i, on) /\ Governed' = Governed \ {i}
      BY <3>3 DEF Policy!Switch, Policy!Put
    <3>5. /\ i \in Asked(cmd).pd /\ Asked(cmd).op = cmd.op
      BY <2>3 DEF Asked
    <3>6. cmd.op = IF at = "pcon" THEN "PCYCLE" ELSE at
      BY <1>inv, <2>2 DEF CommandInv, PortOps, SwitchOps
    <3>7. CASE on
      <4>1. Asked(cmd).op \in {"PON", "PCYCLE"} /\ Policy!Switch(i, TRUE)
        BY <2>1, <3>4, <3>5, <3>6, <3>7
      <4>2. Policy!Manual(i)
        BY <2>2, <3>4, <3>5, <4>1 DEF Policy!Manual
      <4> QED BY <2>2, <4>2 DEF Policy!Next
    <3>8. CASE ~on
      <4>1. Asked(cmd).op \in {"POFF", "PCYCLE"} /\ Policy!Switch(i, FALSE)
        BY <2>1, <3>4, <3>5, <3>6, <3>8
      <4>2. Policy!Manual(i)
        BY <2>2, <3>4, <3>5, <4>1 DEF Policy!Manual
      <4> QED BY <2>2, <4>2 DEF Policy!Next
    <3> QED BY <3>7, <3>8
  <2>4. CASE i \notin cmd.pd
    <3>1. UNCHANGED PORT_STATE
      BY <2>1, <2>4 DEF PortSetCtl, SetPort
    <3> QED BY <1>inv, <2>2, <3>1, SetsStay DEF Policy!policy
  <2> QED BY <2>3, <2>4
<1>3. CASE SetVctlEnable
  <2>1. /\ i \in Port /\ UNCHANGED <<redLed, cmd, over>> /\ pc \in {"VCTLON", "VCTLOFF"}
        /\ (pc' = "boot") = (pc = "boot")
    BY <1>3, <1>inv DEF SetVctlEnable, NextPort, env
  <2>2. CASE i \in cmd.pd
    <3> DEFINE bits == SetBit(PORT_STATE[i], Vctl, pc = "VCTLON")
    <3>1. SetState(i, bits)
      BY <1>3, <2>2 DEF SetVctlEnable
    <3>2. /\ (Enabled \in bits) = (Enabled \in PORT_STATE[i])
          /\ (Overload \in bits) = (Overload \in PORT_STATE[i])
          /\ (Vctl \in bits) = (pc = "VCTLON")
      BY DEF SetBit, Enabled, Overload, Vctl
    <3>3. /\ Sockets' = Policy!Put(Sockets, i, Enabled \in PORT_STATE[i])
          /\ Overloaded' = Policy!Put(Overloaded, i, Overload \in PORT_STATE[i])
          /\ Governed' = Policy!Put(Governed, i, pc = "VCTLON")
      <4> HIDE DEF bits
      <4> QED BY <1>inv, <2>1, <3>1, <3>2, SetsFollow
    <3>4. /\ Enabled \in PORT_STATE[i] <=> i \in Sockets
          /\ Overload \in PORT_STATE[i] <=> i \in Overloaded
      BY <1>inv, <2>1 DEF SocketsInv, On, Overloaded
    <3>5. Sockets' = Sockets /\ Overloaded' = Overloaded
      BY <3>3, <3>4, PutSame
    <3>6. cmd.op = pc /\ i \in Asked(cmd).pd /\ Asked(cmd).op = cmd.op
      BY <1>inv, <2>1, <2>2 DEF CommandInv, PortOps, SwitchOps, Asked
    <3>7. Policy!Entrust(i)
      BY <2>1, <3>3, <3>5, <3>6 DEF Policy!Entrust, Policy!Put
    <3> QED BY <2>1, <3>7 DEF Policy!Next
  <2>3. CASE i \notin cmd.pd
    <3>1. UNCHANGED PORT_STATE
      BY <1>3, <2>3 DEF SetVctlEnable, ram
    <3> QED BY <1>inv, <2>1, <3>1, SetsStay DEF Policy!policy
  <2> QED BY <2>2, <2>3
<1>4. CASE ScanPort
  <2>1. /\ i \in Port /\ UNCHANGED <<cmd, over>> /\ (pc' = "boot") = (pc = "boot")
    BY <1>4, <1>inv DEF ScanPort, NextPort, env
  <2>2. CASE OverLimit(i)
    <3> DEFINE bits == Trip(PORT_STATE[i])
    <3>1. SetState(i, bits) /\ redLed' = TRUE /\ i \in over
      BY <1>4, <2>2 DEF ScanPort, OverLimit
    <3>2. (Enabled \in bits) = FALSE /\ (Overload \in bits) = TRUE /\ (Vctl \in bits) = FALSE
      BY DEF Trip, Ctl, SetBit, Enabled, Overload, Vctl
    <3>3. /\ Sockets' = Policy!Put(Sockets, i, FALSE)
          /\ Overloaded' = Policy!Put(Overloaded, i, TRUE)
          /\ Governed' = Policy!Put(Governed, i, FALSE)
      <4> HIDE DEF bits
      <4> QED BY <1>inv, <2>1, <3>1, <3>2, SetsFollow
    <3>4. Policy!Trip(i)
      BY <2>1, <3>1, <3>3 DEF Policy!Trip, Policy!Put
    <3> QED BY <2>1, <3>4 DEF Policy!Next
  <2>3. CASE ~OverLimit(i)
    <3>1. UNCHANGED <<PORT_STATE, redLed>>
      BY <1>4, <2>3 DEF ScanPort
    <3> QED BY <1>inv, <2>1, <3>1, SetsStay DEF Policy!policy
  <2> QED BY <2>2, <2>3
<1>5. CASE EndScan
  <2>1. /\ UNCHANGED <<PORT_STATE, cmd, over>> /\ redLed' = (redLed /\ Overloaded # {})
        /\ (pc' = "boot") = (pc = "boot") /\ redLed \in BOOLEAN
    BY <1>5 DEF EndScan, LedAfterScan, ram, env, PolicyInv, TypeOK, PinsOK
  <2>2. UNCHANGED <<Sockets, Overloaded, Governed>>
    BY <1>inv, <2>1, SetsStay
  <2>3. CASE Overloaded = {}
    <3>1. Policy!Dim
      BY <2>1, <2>2, <2>3 DEF Policy!Dim
    <3> QED BY <3>1 DEF Policy!Next
  <2>4. CASE Overloaded # {}
    BY <2>1, <2>2, <2>4 DEF Policy!policy
  <2> QED BY <2>3, <2>4
<1>6. CASE PollPort
  <2>1. /\ i \in Port /\ UNCHANGED <<redLed, cmd, over>> /\ (pc' = "boot") = (pc = "boot")
    BY <1>6, <1>inv DEF PollPort, NextPort, env
  <2>2. CASE SetState(i, PollMark(PORT_STATE[i], Beyond(i)))
    <3> DEFINE bits == PollMark(PORT_STATE[i], Beyond(i))
    <3>1. /\ (Enabled \in bits) = (Enabled \in PORT_STATE[i])
          /\ (Overload \in bits) = (Overload \in PORT_STATE[i])
          /\ (Vctl \in bits) = (Vctl \in PORT_STATE[i])
      BY DEF PollMark, SetBit, Enabled, Overload, Vctl, Changing
    <3>2. UNCHANGED <<Sockets, Overloaded, Governed>>
      <4> HIDE DEF bits
      <4> SUFFICES ASSUME SetState(i, bits) PROVE UNCHANGED <<Sockets, Overloaded, Governed>>
        BY <2>2 DEF bits
      <4> QED BY <1>inv, <2>1, <3>1, SameBits
    <3> QED BY <2>1, <3>2 DEF Policy!policy
  <2>3. CASE UNCHANGED PORT_STATE
    BY <1>inv, <2>1, <2>3, SetsStay DEF Policy!policy
  <2> QED BY <1>6, <2>2, <2>3 DEF PollPort
<1>7. CASE Cut \/ Restore
  <2>1. /\ i \in Port /\ UNCHANGED <<redLed, cmd, over>> /\ (pc' = "boot") = (pc = "boot")
        /\ Vctl \in PORT_STATE[i]
    BY <1>7, <1>inv DEF Cut, Restore, NextPort, env, ChargeInv
  <2>2. CASE Cut /\ ~Low(i)
    <3>1. UNCHANGED PORT_STATE
      BY <2>2 DEF Cut
    <3> QED BY <1>inv, <2>1, <3>1, SetsStay DEF Policy!policy
  <2>3. CASE Restore /\ ~High(i)
    <3> DEFINE bits == PORT_STATE[i] \ {Changing}
    <3>1. SetState(i, bits)
      BY <2>3 DEF Restore
    <3>2. /\ (Enabled \in bits) = (Enabled \in PORT_STATE[i])
          /\ (Overload \in bits) = (Overload \in PORT_STATE[i])
          /\ (Vctl \in bits) = (Vctl \in PORT_STATE[i])
      BY DEF Enabled, Overload, Vctl, Changing
    <3>3. UNCHANGED <<Sockets, Overloaded, Governed>>
      <4> HIDE DEF bits
      <4> QED BY <1>inv, <2>1, <3>1, <3>2, SameBits
    <3> QED BY <2>1, <3>3 DEF Policy!policy
  <2>4. ASSUME NEW on \in BOOLEAN, NEW bits, SetState(i, bits), (Enabled \in bits) = on,
               (Overload \in bits) = FALSE, Vctl \in bits
        PROVE  Policy!Automatic(i)
    <3>1. /\ Sockets' = Policy!Put(Sockets, i, on)
          /\ Overloaded' = Policy!Put(Overloaded, i, FALSE)
          /\ Governed' = Policy!Put(Governed, i, Vctl \in bits)
      BY <1>inv, <2>1, <2>4, SetsFollow
    <3>2. i \in Governed
      BY <2>1 DEF Governed
    <3>3. Governed' = Governed
      BY <2>4, <3>1, <3>2, PutSame
    <3>4. Policy!Switch(i, on)
      BY <3>1 DEF Policy!Switch, Policy!Put
    <3> QED BY <2>1, <3>2, <3>3, <3>4 DEF Policy!Automatic
  <2>5. CASE Cut /\ Low(i)
    <3> DEFINE bits == Ctl(PORT_STATE[i], FALSE)
    <3>1. SetState(i, bits)
      BY <2>5 DEF Cut
    <3>2. (Enabled \in bits) = FALSE /\ (Overload \in bits) = FALSE /\ Vctl \in bits
      BY <2>1 DEF Ctl, SetBit, Enabled, Overload, Vctl
    <3> HIDE DEF bits
    <3>3. Policy!Automatic(i)
      BY <2>4, <3>1, <3>2
    <3> QED BY <2>1, <3>3 DEF Policy!Next
  <2>6. CASE Restore /\ High(i)
    <3> DEFINE bits == Ctl(PORT_STATE[i], TRUE) \ {Changing}
    <3>1. SetState(i, bits)
      BY <2>6 DEF Restore
    <3>2. (Enabled \in bits) = TRUE /\ (Overload \in bits) = FALSE /\ Vctl \in bits
      BY <2>1 DEF Ctl, SetBit, Enabled, Overload, Vctl, Changing
    <3> HIDE DEF bits
    <3>3. Policy!Automatic(i)
      BY <2>4, <3>1, <3>2
    <3> QED BY <2>1, <3>3 DEF Policy!Next
  <2> QED BY <1>7, <2>2, <2>3, <2>5, <2>6
<1>8. CASE Receive \/ EndCommand
  <2>1. /\ UNCHANGED <<PORT_STATE, redLed, over>> /\ pc # "boot"
        /\ cmd' \in Commands \cup {NoCommand}
    BY <1>8 DEF Receive, EndCommand, ram, env
  <2>2. pc' # "boot"
    <3>1. CASE Receive
      <4>1. pc' \in Ops
        BY <3>1, CommandAssumption DEF Receive, CommandAssumption, Command
      <4> QED BY <4>1 DEF Ops, PortOps, SwitchOps, VctlOps, ControlOps
    <3>2. CASE EndCommand
      BY <3>2 DEF EndCommand
    <3> QED BY <1>8, <3>1, <3>2
  <2>3. Asked(cmd)' \in {Asked(c) : c \in Commands} \cup {Asked(NoCommand)}
    BY <2>1 DEF Asked
  <2>4. UNCHANGED <<Sockets, Overloaded, Governed>>
    BY <1>inv, <2>1, SetsStay
  <2>5. Policy!Ask
    BY <2>1, <2>2, <2>3, <2>4 DEF Policy!Ask
  <2> QED BY <2>5 DEF Policy!Next
<1>9. CASE LoadChange
  <2>1. UNCHANGED <<PORT_STATE, redLed, cmd, pc>>
    BY <1>9 DEF LoadChange, ram, thread
  <2>2. UNCHANGED <<Sockets, Overloaded, Governed>>
    BY <1>inv, <2>1, SetsStay
  <2>3. Policy!Load
    BY <1>inv, <2>1, <2>2 DEF Policy!Load
  <2> QED BY <2>3 DEF Policy!Next
<1>10. CASE PowerLoss
  <2>1. /\ pc' = "boot" /\ cmd' = NoCommand /\ redLed' = FALSE /\ over' = over
        /\ PORT_STATE' = [p \in Port |-> {}]
    BY <1>10 DEF PowerLoss
  <2>2. Sockets' = {} /\ Overloaded' = {} /\ Governed' = {}
    BY <1>inv, <2>1 DEF SocketsInv, On, Overloaded, Governed
  <2>3. Policy!PowerLoss
    BY <2>1, <2>2 DEF Policy!PowerLoss, Policy!Off, Asked
  <2> QED BY <2>3 DEF Policy!Next
<1>11. CASE \/ NoByte \/ EditLine \/ PcycleWait \/ SetDef \/ SetCycle \/ SetVctl \/ EraseCell
            \/ SkipScan \/ StartScan \/ SkipPoll \/ StartPoll \/ EndPoll \/ Tick \/ UNCHANGED vars
  <2>1. UNCHANGED <<PORT_STATE, redLed, cmd, over>> /\ (pc' = "boot") = (pc = "boot")
    BY <1>11 DEF NoByte, EditLine, PcycleWait, SetDef, SetCycle, SetVctl, VctlOps, EraseCell,
       SkipScan, StartScan, SkipPoll, StartPoll, EndPoll, Tick, NextPort, vars, thread, ram, env
  <2>2. UNCHANGED <<Sockets, Overloaded, Governed>>
    BY <1>inv, <2>1, SetsStay
  <2> QED BY <2>1, <2>2 DEF Policy!policy, Asked
<1> QED
  BY <1>1, <1>2, <1>3, <1>4, <1>5, <1>6, <1>7, <1>8, <1>9, <1>10, <1>11
     DEF Next, MainLoop, RunCommand, Supervise

(* The firmware implements the policy of its sockets, for any number of     *)
(* ports, any commands, loads, voltages and losses of power:                *)
(* ImplementsPolicy.                                                        *)
THEOREM FirmwareFollowsPolicy == Spec => ImplementsPolicy
<1>1. Init => Policy!Init
  <2> SUFFICES ASSUME Init PROVE Policy!Init
    OBVIOUS
  <2>1. PowerInv
    BY PowerInit
  <2>2. Sockets = {} /\ Overloaded = {} /\ Governed = {}
    BY <2>1, DrivenAreOn DEF Init, PowerInv, SocketsInv, On, Overloaded, Governed
  <2> QED BY <2>2 DEF Init, Policy!Init, Policy!Off, Asked
<1> QED
  BY <1>1, PolicyInvariant, PolicyStep, PTL DEF Spec, ImplementsPolicy, Policy!Spec

-----------------------------------------------------------------------------
(* Who switches a socket, and who takes back a trip *)

(* The command under way switches the socket to this level.                 *)
Commanded(p, on) == p \in cmd.pd /\ cmd.op \in {IF on THEN "PON" ELSE "POFF", "PCYCLE"}

(* Power is off or the defaults are being set.                              *)
PoweringUp == pc = "boot" \/ pc' = "boot"

MayTurnOn(p)  == PoweringUp \/ Commanded(p, TRUE) \/ p \in Governed
MayTurnOff(p) == PoweringUp \/ Commanded(p, FALSE) \/ p \in Governed \/ p \in over

(* What a step does to a socket somebody had the right to.                  *)
ByRight(p) ==
    /\ p \in Sockets' /\ p \notin Sockets => MayTurnOn(p)
    /\ p \in Sockets /\ p \notin Sockets' => MayTurnOff(p)
    /\ p \in Overloaded' /\ p \notin Overloaded => p \in over /\ p \notin Sockets' /\ redLed'
    /\ p \in Overloaded /\ p \notin Overloaded' =>
          PoweringUp \/ Commanded(p, TRUE) \/ Commanded(p, FALSE) \/ p \in Governed

(* The policy in the terms of the firmware: a socket goes on only by a      *)
(* command for it, by voltage control in charge of it, or at power up; it   *)
(* goes off by the same or by an overload of its own, which is shown; and   *)
(* nothing else takes back a trip, so the loop that counts ports, the pin   *)
(* table and the two supervisions never touch a neighbour.                  *)
THEOREM NobodyElseSwitches == Spec => [][\A p \in Port : ByRight(p)]_vars
<1>1. ASSUME [Policy!Next]_(Policy!policy), NEW p \in Port PROVE ByRight(p)
  <2> USE DEF ByRight, MayTurnOn, MayTurnOff
  <2>1. CASE Policy!PowerLoss
    <3>1. /\ pc' = "boot" /\ Overloaded' = {}
      BY <2>1 DEF Policy!PowerLoss, Policy!Off
    <3> QED BY <3>1 DEF PoweringUp
  <2>2. CASE UNCHANGED Policy!policy
    BY <2>2 DEF Policy!policy
  <2>3. CASE Policy!Dim \/ Policy!Ask \/ Policy!Load
    BY <2>3 DEF Policy!Dim, Policy!Ask, Policy!Load
  <2>4. ASSUME NEW q \in Port, Policy!Start(q) PROVE ByRight(p)
    BY <2>4 DEF Policy!Start, Policy!Switch, PoweringUp
  <2>5. ASSUME NEW q \in Port, Policy!Manual(q) PROVE ByRight(p)
    BY <2>5 DEF Policy!Manual, Policy!Switch, Policy!Put, Asked, Commanded
  <2>6. ASSUME NEW q \in Port, Policy!Entrust(q) PROVE ByRight(p)
    BY <2>6 DEF Policy!Entrust
  <2>7. ASSUME NEW q \in Port, Policy!Automatic(q) PROVE ByRight(p)
    BY <2>7 DEF Policy!Automatic, Policy!Switch, Policy!Put
  <2>8. ASSUME NEW q \in Port, Policy!Trip(q) PROVE ByRight(p)
    BY <2>8 DEF Policy!Trip
  <2> QED BY <1>1, <2>1, <2>2, <2>3, <2>4, <2>5, <2>6, <2>7, <2>8 DEF Policy!Next
<1>2. PolicyInv /\ PolicyInv' /\ [Next]_vars => \A p \in Port : ByRight(p)
  BY <1>1, PolicyStep
<1> QED BY <1>2, PolicyInvariant, PTL DEF Spec
=============================================================================
