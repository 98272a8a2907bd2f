-------------------------- MODULE PduHistoryProofs --------------------------
(***************************************************************************)
(* Proofs about PduHistory: who is in charge of a port, what the EEPROM    *)
(* holds and how many polls stand behind a switch, for every value of the  *)
(* constants.                                                              *)
(***************************************************************************)
EXTENDS PduHistory, PduCoreProofs

-----------------------------------------------------------------------------
(* The history restricts nothing *)

LEMMA HNextIsNext == [HNext]_hvars => [Next]_vars
<1>1. HNext => Next
  BY DEF HNext, HBootPort, HSetDef, HSetVctlEnable, HEraseCell, HScanPort, HPollPort,
         HPowerLoss, HOther, Next, MainLoop, RunCommand, Supervise
<1>2. UNCHANGED hvars => UNCHANGED vars
  BY DEF hvars
<1> QED BY <1>1, <1>2

(* Every behaviour with history is a behaviour of the firmware's model, so  *)
(* what holds of PduCore holds here.                                        *)
THEOREM HistoryOnlyRecords == HSpec => Spec
<1>1. HInit => Init
  BY DEF HInit
<1> QED BY <1>1, HNextIsNext, PTL DEF HSpec, Spec

(* The facts about PduCore that the proofs below use.                       *)
CoreInv == TypeOK /\ PowerInv

LEMMA CoreHolds == HSpec => []CoreInv
BY HistoryOnlyRecords, TypeCorrect, PowerCorrect, PTL DEF CoreInv

-----------------------------------------------------------------------------
(* Types of the history *)

HistOK ==
    /\ order \in [Port -> {"free", "on", "off"}]
    /\ streak \in [Port -> 0 .. 2]
    /\ since \in [Port -> 0 .. 2]
    /\ want \in [Port -> SUBSET BootBitSet]
    /\ wiped \in BOOLEAN

LEMMA UpTo2Type == \A n \in 0 .. 2 : UpTo2(n + 1) \in 1 .. 2
BY DEF UpTo2

LEMMA LevelType == \A on : Level(on) \in {"free", "on", "off"}
BY DEF Level

LEMMA BootOrderType == \A byte : BootOrder(byte) \in {"free", "on", "off"}
BY LevelType DEF BootOrder

LEMMA StoredBootType ==
    ASSUME EepromOK PROVE [p \in Port |-> ReadBoot(eeBoot[p])] \in [Port -> SUBSET BootBitSet]
BY ReadBootType DEF EepromOK

LEMMA HistInit == HInit => HistOK
<1> SUFFICES ASSUME HInit PROVE HistOK
  OBVIOUS
<1>1. EepromOK
  BY InitType DEF HInit, TypeOK
<1>2. want \in [Port -> SUBSET BootBitSet]
  BY <1>1, StoredBootType DEF HInit
<1>3. 0 \in 0 .. 2
  OBVIOUS
<1> QED BY <1>2, <1>3 DEF HInit, HistOK

LEMMA HistNext == CoreInv /\ HistOK /\ [HNext]_hvars => HistOK'
<1> SUFFICES ASSUME CoreInv, HistOK, [HNext]_hvars PROVE HistOK'
  OBVIOUS
<1> USE DEF HistOK
<1>1. CASE HBootPort
  BY <1>1, BootOrderType DEF HBootPort
<1>2. CASE \E on \in BOOLEAN : HSwitch(on)
  BY <1>2, LevelType DEF HSwitch
<1>3. CASE HSetDef
  <2>1. ASSUME NEW b \in SUBSET BootBitSet, NEW on PROVE SetBit(b, BootEnabled, on) \in SUBSET BootBitSet
    BY DEF SetBit, BootBitSet
  <2>2. want' \in [Port -> SUBSET BootBitSet]
    BY <1>3, <2>1 DEF HSetDef
  <2> QED BY <1>3, <2>2 DEF HSetDef
<1>4. CASE HSetVctlEnable
  <2>1. ASSUME NEW b \in SUBSET BootBitSet, NEW on PROVE SetBit(b, BootVctl, on) \in SUBSET BootBitSet
    BY DEF SetBit, BootBitSet
  <2>2. want' \in [Port -> SUBSET BootBitSet]
    BY <1>4, <2>1 DEF HSetVctlEnable
  <2>3. order' \in [Port -> {"free", "on", "off"}]
    BY <1>4, LevelType DEF HSetVctlEnable
  <2>4. since' \in [Port -> 0 .. 2]
    BY <1>4 DEF HSetVctlEnable
  <2> QED BY <1>4, <2>2, <2>3, <2>4 DEF HSetVctlEnable
<1>5. CASE HEraseCell
  <2>1. {BootEnabled} \in SUBSET BootBitSet
    BY DEF BootBitSet
  <2>2. want' \in [Port -> SUBSET BootBitSet]
    BY <1>5, <2>1 DEF HEraseCell
  <2> QED BY <1>5, <2>2 DEF HEraseCell
<1>6. CASE HScanPort
  BY <1>6 DEF HScanPort
<1>7. CASE HPollPort
  <2>1. \A n \in 0 .. 2 : UpTo2(n + 1) \in 0 .. 2
    BY UpTo2Type
  <2>2. 0 \in 0 .. 2
    OBVIOUS
  <2>3. streak' \in [Port -> 0 .. 2]
    BY <1>7, <2>1, <2>2 DEF HPollPort
  <2>4. since' \in [Port -> 0 .. 2]
    BY <1>7, <2>1, <2>2 DEF HPollPort
  <2> QED BY <1>7, <2>3, <2>4 DEF HPollPort
<1>8. CASE HPowerLoss
  <2>1. want' \in [Port -> SUBSET BootBitSet]
    BY <1>8, StoredBootType DEF HPowerLoss, CoreInv, TypeOK
  <2>2. 0 \in 0 .. 2
    OBVIOUS
  <2> QED BY <1>8, <2>1, <2>2 DEF HPowerLoss
<1>9. CASE HOther \/ UNCHANGED hvars
  BY <1>9 DEF HOther, hvars, hist
<1> QED BY <1>1, <1>2, <1>3, <1>4, <1>5, <1>6, <1>7, <1>8, <1>9 DEF HNext

(* Every reachable state, history included, has the types of HTypeOK.       *)
THEOREM HistoryTypeCorrect == HSpec => []HTypeOK
<1>1. HSpec => []HistOK
  BY HistInit, HistNext, CoreHolds, PTL DEF HSpec
<1>2. HistOK /\ CoreInv => HTypeOK
  BY DEF HistOK, CoreInv, HTypeOK, BootBitSet
<1> QED BY <1>1, <1>2, CoreHolds, PTL

-----------------------------------------------------------------------------
(* What the EEPROM holds *)

LEMMA SettingsInit == HInit => SettingsInv
BY PortAssumption DEF HInit, Init, SettingsInv, SettingsDurable, Port, PortAssumption

(* The boot state that is stored is read back as it is.                    *)
LEMMA ReadBack == ASSUME NEW b \in SUBSET BootBitSet PROVE ReadBoot(b) = b
<1>1. 7 \notin b /\ 7 \in Erased
  BY DEF BootBitSet, BootEnabled, BootVctl, Erased, Bits
<1> QED BY <1>1 DEF ReadBoot

(* A command that stores the boot state of one port, and tells so.         *)
LEMMA StoreKeepsSettings ==
    ASSUME RamOK, EepromOK, HistOK, SettingsInv, pc # "boot", i \in Port, pc' # "boot",
           NEW bit \in BootBitSet, NEW on \in BOOLEAN,
           StoreBoot(SetBit(PORT_BOOT_STATE[i], bit, on)),
           want' = [want EXCEPT ![i] = SetBit(@, bit, on)], wiped' = wiped
    PROVE  SettingsInv'
<1> DEFINE byte == SetBit(PORT_BOOT_STATE[i], bit, on)
<1>1. byte \in SUBSET BootBitSet
  BY DEF RamOK, SetBit
<1>2. ReadBoot(byte) = byte
  BY <1>1, ReadBack
<1>3. ~wiped => byte = SetBit(want[i], bit, on)
  BY DEF SettingsInv
<1>4. /\ eeBoot'[i] = byte /\ PORT_BOOT_STATE'[i] = byte /\ want'[i] = SetBit(want[i], bit, on)
      /\ \A p \in Port : p # i => /\ eeBoot'[p] = eeBoot[p]
                                  /\ PORT_BOOT_STATE'[p] = PORT_BOOT_STATE[p]
                                  /\ want'[p] = want[p]
  BY DEF StoreBoot, RamOK, EepromOK, HistOK
<1>5. SettingsDurable'
  BY <1>2, <1>3, <1>4 DEF SettingsInv, SettingsDurable, ReadBoot
<1>6. ~wiped' => \A p \in Port : PORT_BOOT_STATE'[p] = want'[p]
  BY <1>3, <1>4 DEF SettingsInv
<1> QED BY <1>5, <1>6 DEF SettingsInv

LEMMA SettingsFrame ==
    ASSUME SettingsInv, UNCHANGED <<PORT_BOOT_STATE, eeBoot, want, wiped>>,
           pc = "boot" => pc' = "boot" /\ i' = i, pc' = "boot" => pc = "boot"
    PROVE  SettingsInv'
BY DEF SettingsInv, SettingsDurable, ReadBoot

LEMMA SettingsNext ==
    CoreInv /\ HistOK /\ SettingsInv /\ [HNext]_hvars => SettingsInv'
<1> SUFFICES ASSUME CoreInv, HistOK, SettingsInv, [HNext]_hvars PROVE SettingsInv'
  OBVIOUS
<1>type. RamOK /\ EepromOK /\ (pc # "RESET" => i \in Port)
  BY DEF CoreInv, TypeOK, ThreadOK
<1>1. CASE HBootPort
  <2>1. /\ pc = "boot" /\ i \in Port /\ UNCHANGED <<eeBoot, want, wiped>>
        /\ PORT_BOOT_STATE' = [PORT_BOOT_STATE EXCEPT ![i] = ReadBoot(eeBoot[i])]
        /\ NextPort("boot", "read")
    BY <1>1, <1>type DEF HBootPort, BootPort, eeprom
  <2>2. ~wiped /\ \A p \in Port : ReadBoot(eeBoot[p]) = want[p]
    BY <2>1 DEF SettingsInv, SettingsDurable
  <2>3. \A p \in Port : p <= i => PORT_BOOT_STATE'[p] = want[p]
    <3>1. \A p \in Port : p <= i => p = i \/ p < i
      BY <2>1 DEF Port
    <3> QED BY <1>type, <2>1, <2>2, <3>1 DEF SettingsInv, RamOK
  <2>4. \A p \in Port : (pc' = "boot" => p < i') => p <= i
    BY <2>1, PortAssumption DEF NextPort, Port, PortAssumption
  <2>5. SettingsDurable'
    BY <2>1, <2>2 DEF SettingsDurable, ReadBoot
  <2> QED BY <2>1, <2>2, <2>3, <2>4, <2>5 DEF SettingsInv
<1>2. CASE HSetDef \/ HSetVctlEnable
  <2>1. /\ i \in Port /\ pc # "boot" /\ wiped' = wiped
        /\ pc \in {"SETDEFON", "SETDEFOFF", "VCTLON", "VCTLOFF"}
        /\ pc' \in {pc, "clear"}
    BY <1>2, <1>type DEF HSetDef, HSetVctlEnable, SetDef, SetVctlEnable, NextPort
  <2>2. CASE i \in cmd.pd
    <3>1. PICK bit \in BootBitSet, on \in BOOLEAN :
              /\ StoreBoot(SetBit(PORT_BOOT_STATE[i], bit, on))
              /\ want' = [want EXCEPT ![i] = SetBit(@, bit, on)]
      BY <1>2, <2>2 DEF HSetDef, HSetVctlEnable, SetDef, SetVctlEnable, BootBitSet
    <3>2. pc' # "boot"
      BY <2>1
    <3> QED BY <1>type, <2>1, <3>1, <3>2, StoreKeepsSettings
  <2>3. CASE i \notin cmd.pd
    <3>1. UNCHANGED <<PORT_BOOT_STATE, eeBoot, want>>
      BY <1>2, <2>3 DEF HSetDef, HSetVctlEnable, SetDef, SetVctlEnable, ram
    <3>2. pc' # "boot"
      BY <2>1
    <3> QED BY <2>1, <3>1, <3>2, SettingsFrame
  <2> QED BY <2>2, <2>3
<1>3. CASE HEraseCell
  <2>1. wiped' /\ pc' # "boot"
    BY <1>3 DEF HEraseCell, EraseCell
  <2> QED BY <2>1 DEF SettingsInv, SettingsDurable
<1>4. CASE HPowerLoss
  <2>1. /\ ~wiped' /\ eeBoot' = eeBoot /\ i' = 0 /\ pc' = "boot"
        /\ want' = IF wiped THEN [p \in Port |-> ReadBoot(eeBoot[p])] ELSE want
    BY <1>4 DEF HPowerLoss, PowerLoss, eeprom
  <2>2. SettingsDurable'
    BY <2>1 DEF SettingsInv, SettingsDurable, ReadBoot
  <2>3. \A p \in Port : ~(p < i')
    BY <2>1 DEF Port
  <2> QED BY <2>1, <2>2, <2>3 DEF SettingsInv
<1>5. CASE \/ (Pon \/ PcycleOn) /\ HSwitch(TRUE)
           \/ (Poff \/ PcycleOff) /\ HSwitch(FALSE)
  <2>1. UNCHANGED <<PORT_BOOT_STATE, eeBoot, want, wiped>> /\ pc # "boot" /\ pc' # "boot"
    BY <1>5 DEF Pon, Poff, PcycleOn, PcycleOff, PortSetCtl, HSwitch, NextPort, eeprom
  <2> QED BY <2>1, SettingsFrame
<1>6. CASE HScanPort \/ HPollPort
  <2>1. UNCHANGED <<PORT_BOOT_STATE, eeBoot, want, wiped>> /\ pc # "boot" /\ pc' # "boot"
    BY <1>6 DEF HScanPort, HPollPort, ScanPort, PollPort, NextPort, eeprom
  <2> QED BY <2>1, SettingsFrame
<1>7. CASE HOther
  <2>1. UNCHANGED <<want, wiped>>
    BY <1>7 DEF HOther, hist
  <2>2. CASE Tick \/ LoadChange
    BY <2>1, <2>2, SettingsFrame DEF Tick, LoadChange, thread, ram, eeprom
  <2>3. CASE Receive
    <3>1. pc = "read" /\ UNCHANGED <<PORT_BOOT_STATE, eeBoot>>
      BY <2>3 DEF Receive, ram, eeprom
    <3>2. pc' # "boot"
      BY <2>3, CommandAssumption
         DEF Receive, CommandAssumption, Command, Ops, PortOps, SwitchOps, VctlOps, ControlOps
    <3> QED BY <2>1, <3>1, <3>2, SettingsFrame
  <2>4. CASE \/ NoByte \/ EditLine \/ PcycleWait \/ SetCycle \/ SetVctl \/ EndCommand
             \/ SkipScan \/ StartScan \/ EndScan \/ SkipPoll \/ StartPoll \/ Cut \/ Restore
             \/ EndPoll
    <3>1. UNCHANGED <<PORT_BOOT_STATE, eeBoot>> /\ pc # "boot" /\ pc' # "boot"
      BY <2>4 DEF NoByte, EditLine, PcycleWait, SetCycle, SetVctl, VctlOps, EndCommand, SkipScan,
         StartScan, EndScan, SkipPoll, StartPoll, Cut, Restore, EndPoll, NextPort, ram, eeprom
    <3> QED BY <2>1, <3>1, SettingsFrame
  <2> QED BY <1>7, <2>2, <2>3, <2>4 DEF HOther
<1>8. CASE UNCHANGED hvars
  BY <1>8, SettingsFrame DEF hvars, vars, hist, thread, ram, eeprom
<1> QED BY <1>1, <1>2, <1>3, <1>4, <1>5, <1>6, <1>7, <1>8 DEF HNext

LEMMA HistHolds == HSpec => [](CoreInv /\ HistOK)
BY HistInit, HistNext, CoreHolds, PTL DEF HSpec

LEMMA SettingsHold == HSpec => []SettingsInv
BY SettingsInit, SettingsNext, HistHolds, PTL DEF HSpec

(* Until the EEPROM is reset, it holds for every port the boot settings the *)
(* host was told are stored, through any sequence of commands and any       *)
(* number of power losses between any two steps: SettingsDurable.           *)
THEOREM StoredSettingsLast == HSpec => []SettingsDurable
<1>1. SettingsInv => SettingsDurable
  BY DEF SettingsInv
<1> QED BY <1>1, SettingsHold, PTL

-----------------------------------------------------------------------------
(* Who is in charge of a port *)

(* One port gets a new bitmap and, maybe, a new order; the two agree.      *)
LEMMA AuthorityUpdate ==
    ASSUME RamOK, HistOK, AuthorityInv, NEW port \in Port, NEW bits, SetState(port, bits),
           NEW o \in {"free", "on", "off"}, order' = [order EXCEPT ![port] = o],
           Vctl \in bits <=> o = "free",
           o = "on" => Enabled \in bits,
           o = "off" => Enabled \notin bits,
           pc' \in {"cut", "restore"} => Vctl \in PORT_STATE'[i']
    PROVE  AuthorityInv'
<1>1. /\ PORT_STATE'[port] = bits /\ order'[port] = o
      /\ \A p \in Port : p # port => PORT_STATE'[p] = PORT_STATE[p] /\ order'[p] = order[p]
  BY DEF SetState, RamOK, HistOK
<1> QED BY <1>1 DEF AuthorityInv

(* One port gets a new bitmap; whoever is in charge of it stays so.         *)
LEMMA AuthorityKept ==
    ASSUME RamOK, HistOK, AuthorityInv, NEW port \in Port, NEW bits, SetState(port, bits),
           order' = order,
           Vctl \in bits <=> Vctl \in PORT_STATE[port],
           order[port] # "free" => (Enabled \in bits <=> Enabled \in PORT_STATE[port]),
           pc' \in {"cut", "restore"} => Vctl \in PORT_STATE'[i']
    PROVE  AuthorityInv'
<1>1. /\ PORT_STATE'[port] = bits
      /\ \A p \in Port : p # port => PORT_STATE'[p] = PORT_STATE[p]
  BY DEF SetState, RamOK
<1> QED BY <1>1 DEF AuthorityInv, HistOK

LEMMA AuthorityFrame ==
    ASSUME AuthorityInv, UNCHANGED <<PORT_STATE, order>>,
           pc' \notin {"cut", "restore"} \/ (pc' = pc /\ i' = i)
    PROVE  AuthorityInv'
BY DEF AuthorityInv

LEMMA AuthorityInit == HInit => AuthorityInv
BY DEF HInit, Init, AuthorityInv

LEMMA AuthorityNext ==
    CoreInv /\ HistOK /\ SettingsInv /\ AuthorityInv /\ [HNext]_hvars => AuthorityInv'
<1> SUFFICES ASSUME CoreInv, HistOK, SettingsInv, AuthorityInv, [HNext]_hvars
             PROVE  AuthorityInv'
  OBVIOUS
<1> USE DEF Enabled, Overload, Vctl, Changing
<1>type. RamOK /\ (pc # "RESET" => i \in Port)
  BY DEF CoreInv, TypeOK, ThreadOK
<1>1. CASE HBootPort
  <2>1. /\ pc = "boot" /\ i \in Port
        /\ SetState(i, BootBits(ReadBoot(eeBoot[i])))
        /\ order' = [order EXCEPT ![i] = BootOrder(want[i])]
        /\ pc' \notin {"cut", "restore"}
    BY <1>1, <1>type DEF HBootPort, BootPort, NextPort
  <2>2. ReadBoot(eeBoot[i]) = want[i]
    BY <2>1 DEF SettingsInv, SettingsDurable
  <2>3. /\ Vctl \in BootBits(want[i]) <=> BootOrder(want[i]) = "free"
        /\ BootOrder(want[i]) = "on" => Enabled \in BootBits(want[i])
        /\ BootOrder(want[i]) = "off" => Enabled \notin BootBits(want[i])
    BY DEF BootBits, BootOrder, Level, Ctl, SetBit
  <2> QED BY <1>type, <2>1, <2>2, <2>3, BootOrderType, AuthorityUpdate
<1>2. CASE \/ (Pon \/ PcycleOn) /\ HSwitch(TRUE)
           \/ (Poff \/ PcycleOff) /\ HSwitch(FALSE)
  <2>1. PICK on \in BOOLEAN : HSwitch(on) /\ SetPort(on)
    BY <1>2 DEF Pon, Poff, PcycleOn, PcycleOff, PortSetCtl
  <2>2. i \in Port /\ pc' \notin {"cut", "restore"}
    BY <1>2, <1>type DEF Pon, Poff, PcycleOn, PcycleOff, PortSetCtl, NextPort
  <2>3. CASE i \in cmd.pd
    <3>1. /\ SetState(i, Ctl(PORT_STATE[i], on) \ {Vctl})
          /\ order' = [order EXCEPT ![i] = Level(on)]
      BY <2>1, <2>3 DEF SetPort, HSwitch
    <3>2. /\ Vctl \notin Ctl(PORT_STATE[i], on) \ {Vctl}
          /\ Level(on) = "on" => Enabled \in Ctl(PORT_STATE[i], on) \ {Vctl}
          /\ Level(on) = "off" => Enabled \notin Ctl(PORT_STATE[i], on) \ {Vctl}
          /\ Level(on) \in {"on", "off"}
      BY DEF Ctl, SetBit, Level
    <3> QED BY <1>type, <2>2, <3>1, <3>2, AuthorityUpdate
  <2>4. CASE i \notin cmd.pd
    BY <2>1, <2>2, <2>4, AuthorityFrame DEF SetPort, HSwitch
  <2> QED BY <2>3, <2>4
<1>3. CASE HSetVctlEnable
  <2>1. i \in Port /\ pc \in {"VCTLON", "VCTLOFF"} /\ pc' \notin {"cut", "restore"}
    BY <1>3, <1>type DEF HSetVctlEnable, SetVctlEnable, NextPort
  <2>2. CASE i \in cmd.pd
    <3> DEFINE bits == SetBit(PORT_STATE[i], Vctl, pc = "VCTLON")
               o == IF pc = "VCTLON" THEN "free"
                    ELSE IF order[i] = "free" THEN Level(Powered(i)) ELSE order[i]
    <3>1. SetState(i, bits) /\ order' = [order EXCEPT ![i] = o]
      BY <1>3, <2>2 DEF HSetVctlEnable, SetVctlEnable
    <3>2. Powered(i) <=> Enabled \in PORT_STATE[i]
      BY <2>1, PoweredIffEnabled DEF CoreInv, PowerInv
    <3>3. o \in {"free", "on", "off"}
      BY <2>1, LevelType DEF HistOK
    <3>4. /\ Vctl \in bits <=> o = "free"
          /\ o = "on" => Enabled \in bits
          /\ o = "off" => Enabled \notin bits
      BY <2>1, <3>2 DEF SetBit, Level, AuthorityInv
    <3> HIDE DEF bits, o
    <3> QED BY <1>type, <2>1, <3>1, <3>3, <3>4, AuthorityUpdate
  <2>3. CASE i \notin cmd.pd
    BY <1>3, <2>1, <2>3, AuthorityFrame DEF HSetVctlEnable, SetVctlEnable, ram
  <2> QED BY <2>2, <2>3
<1>4. CASE HScanPort
  <2>1. i \in Port /\ pc' \notin {"cut", "restore"}
    BY <1>4, <1>type DEF HScanPort, ScanPort, NextPort
  <2>2. CASE i \in over
    <3>1. SetState(i, Trip(PORT_STATE[i])) /\ order' = [order EXCEPT ![i] = "off"]
      BY <1>4, <2>2 DEF HScanPort, ScanPort, OverLimit
    <3>2. Vctl \notin Trip(PORT_STATE[i]) /\ Enabled \notin Trip(PORT_STATE[i])
      BY DEF Trip, Ctl, SetBit
    <3> QED BY <1>type, <2>1, <3>1, <3>2, AuthorityUpdate
  <2>3. CASE i \notin over
    BY <1>4, <2>1, <2>3, AuthorityFrame DEF HScanPort, ScanPort, OverLimit
  <2> QED BY <2>2, <2>3
<1>5. CASE HPollPort
  <2>1. i \in Port /\ order' = order
    BY <1>5, <1>type DEF HPollPort, PollPort
  <2>2. CASE pc' = "cut" /\ UNCHANGED <<i, PORT_STATE>> /\ Vctl \in PORT_STATE[i]
    BY <2>1, <2>2 DEF AuthorityInv
  <2>3. CASE pc' \notin {"cut", "restore"} /\ UNCHANGED PORT_STATE
    BY <2>1, <2>3, AuthorityFrame
  <2>4. CASE pc' \notin {"cut", "restore"} /\ SetState(i, PollMark(PORT_STATE[i], Beyond(i)))
    <3>1. /\ Vctl \in PollMark(PORT_STATE[i], Beyond(i)) <=> Vctl \in PORT_STATE[i]
          /\ Enabled \in PollMark(PORT_STATE[i], Beyond(i)) <=> Enabled \in PORT_STATE[i]
      BY DEF PollMark, SetBit
    <3> QED BY <1>type, <2>1, <2>4, <3>1, AuthorityKept
  <2> QED BY <1>5, <2>2, <2>3, <2>4 DEF HPollPort, PollPort, NextPort
<1>6. CASE HPowerLoss
  BY <1>6 DEF HPowerLoss, PowerLoss, AuthorityInv
<1>7. CASE HOther
  <2>1. order' = order
    BY <1>7 DEF HOther, hist
  <2>2. CASE Cut
    <3>1. i \in Port /\ i' = i /\ Vctl \in PORT_STATE[i] /\ order[i] = "free"
      BY <2>2, <1>type DEF Cut, AuthorityInv
    <3>2. CASE Low(i)
      <4>1. SetState(i, Ctl(PORT_STATE[i], FALSE))
        BY <2>2, <3>2 DEF Cut
      <4>2. Vctl \in Ctl(PORT_STATE[i], FALSE)
        BY <3>1 DEF Ctl, SetBit
      <4>3. Vctl \in PORT_STATE'[i']
        BY <1>type, <3>1, <4>1, <4>2 DEF SetState, RamOK
      <4> QED BY <1>type, <2>1, <3>1, <4>1, <4>2, <4>3, AuthorityKept
    <3>3. CASE ~Low(i)
      <4>1. UNCHANGED PORT_STATE
        BY <2>2, <3>3 DEF Cut
      <4> QED BY <2>1, <3>1, <4>1 DEF AuthorityInv
    <3> QED BY <3>2, <3>3
  <2>3. CASE Restore
    <3>1. /\ i \in Port /\ Vctl \in PORT_STATE[i] /\ order[i] = "free"
          /\ pc' \notin {"cut", "restore"}
      BY <2>3, <1>type DEF Restore, NextPort, AuthorityInv
    <3>2. CASE High(i)
      <4>1. SetState(i, Ctl(PORT_STATE[i], TRUE) \ {Changing})
        BY <2>3, <3>2 DEF Restore
      <4>2. Vctl \in Ctl(PORT_STATE[i], TRUE) \ {Changing}
        BY <3>1 DEF Ctl, SetBit
      <4> QED BY <1>type, <2>1, <3>1, <4>1, <4>2, AuthorityKept
    <3>3. CASE ~High(i)
      <4>1. SetState(i, PORT_STATE[i] \ {Changing})
        BY <2>3, <3>3 DEF Restore
      <4>2. Vctl \in PORT_STATE[i] \ {Changing}
        BY <3>1
      <4> QED BY <1>type, <2>1, <3>1, <4>1, <4>2, AuthorityKept
    <3> QED BY <3>2, <3>3
  <2>4. CASE \/ NoByte \/ EditLine \/ Receive \/ PcycleWait \/ SetCycle \/ SetVctl \/ EndCommand
             \/ SkipScan \/ StartScan \/ EndScan \/ SkipPoll \/ StartPoll \/ EndPoll
    <3>1. UNCHANGED PORT_STATE
      BY <2>4 DEF NoByte, EditLine, Receive, PcycleWait, SetCycle, SetVctl, EndCommand, SkipScan,
         StartScan, EndScan, SkipPoll, StartPoll, EndPoll, ram
    <3>2. pc' \notin {"cut", "restore"}
      BY <2>4, CommandAssumption DEF NoByte, EditLine, Receive, PcycleWait, SetCycle, SetVctl,
         EndCommand, SkipScan, StartScan, EndScan, SkipPoll, StartPoll, EndPoll,
         CommandAssumption, Command, Ops, PortOps, SwitchOps, VctlOps, ControlOps
    <3> QED BY <2>1, <3>1, <3>2, AuthorityFrame
  <2>5. CASE Tick \/ LoadChange
    BY <2>1, <2>5, AuthorityFrame DEF Tick, LoadChange, thread, ram
  <2> QED BY <1>7, <2>2, <2>3, <2>4, <2>5 DEF HOther
<1>8. CASE HSetDef \/ HEraseCell
  <2>1. UNCHANGED <<PORT_STATE, order>> /\ pc' \notin {"cut", "restore"}
    BY <1>8 DEF HSetDef, HEraseCell, SetDef, EraseCell, NextPort, ram
  <2> QED BY <2>1, AuthorityFrame
<1>9. CASE UNCHANGED hvars
  BY <1>9, AuthorityFrame DEF hvars, vars, hist, thread, ram
<1> QED BY <1>1, <1>2, <1>3, <1>4, <1>5, <1>6, <1>7, <1>8, <1>9 DEF HNext

LEMMA AuthorityHolds == HSpec => []AuthorityInv
BY AuthorityInit, AuthorityNext, HistHolds, SettingsHold, PTL DEF HSpec

(* Voltage control is on for exactly the ports that were handed to it and   *)
(* not taken back by a manual action or a trip: VctlAuthority.              *)
THEOREM ManualWins == HSpec => []VctlAuthority
<1>1. AuthorityInv => VctlAuthority
  BY DEF AuthorityInv, VctlAuthority
<1> QED BY <1>1, AuthorityHolds, PTL

(* A port that was given an order is powered or not as the order says,      *)
(* whatever the supervision does meanwhile: OrdersObeyed.                   *)
THEOREM PortsObey == HSpec => []OrdersObeyed
<1>1. CoreInv /\ AuthorityInv => OrdersObeyed
  BY PoweredIffEnabled DEF CoreInv, PowerInv, AuthorityInv, OrdersObeyed
<1> QED BY <1>1, AuthorityHolds, CoreHolds, PTL

-----------------------------------------------------------------------------
(* How many polls stand behind a switch *)

LEMMA PollInit == HInit => PollInv
BY DEF HInit, Init, PollInv, TwoPollsOnceSettled

(* A port gets a bitmap in which no mark is new unless a poll stands behind it. *)
LEMMA PollUpdate ==
    ASSUME RamOK, PollInv, NEW port \in Port, NEW bits, SetState(port, bits),
           UNCHANGED <<streak, since>>,
           Vctl \in bits /\ Changing \in bits =>
               Vctl \in PORT_STATE[port] /\ Changing \in PORT_STATE[port],
           pc' \notin {"cut", "restore"} \/ (pc \in {"cut", "restore"} /\ i' = i)
    PROVE  PollInv'
<1>1. /\ PORT_STATE'[port] = bits
      /\ \A p \in Port : p # port => PORT_STATE'[p] = PORT_STATE[p]
  BY DEF SetState, RamOK
<1>2. TwoPollsOnceSettled'
  BY DEF PollInv, TwoPollsOnceSettled
<1> QED BY <1>1, <1>2 DEF PollInv

LEMMA PollFrame ==
    ASSUME PollInv, UNCHANGED <<PORT_STATE, streak, since>>,
           pc' \notin {"cut", "restore"} \/ (pc \in {"cut", "restore"} /\ i' = i)
    PROVE  PollInv'
BY DEF PollInv, TwoPollsOnceSettled

LEMMA PollNext == CoreInv /\ HistOK /\ PollInv /\ [HNext]_hvars => PollInv'
<1> SUFFICES ASSUME CoreInv, HistOK, PollInv, [HNext]_hvars PROVE PollInv'
  OBVIOUS
<1> USE DEF Enabled, Overload, Vctl, Changing
<1>type. RamOK /\ (pc # "RESET" => i \in Port)
  BY DEF CoreInv, TypeOK, ThreadOK
<1>1. CASE HPollPort
  <2>1. /\ i \in Port
        /\ streak' = [streak EXCEPT ![i] = IF Beyond(i) THEN UpTo2(@ + 1) ELSE 0]
        /\ since' = [since EXCEPT ![i] = IF Vctl \in PORT_STATE[i] THEN UpTo2(@ + 1) ELSE 0]
    BY <1>1, <1>type DEF HPollPort, PollPort
  <2>2. /\ streak'[i] = IF Beyond(i) THEN UpTo2(streak[i] + 1) ELSE 0
        /\ since'[i] = IF Vctl \in PORT_STATE[i] THEN UpTo2(since[i] + 1) ELSE 0
        /\ \A p \in Port : p # i => streak'[p] = streak[p] /\ since'[p] = since[p]
        /\ streak[i] \in 0 .. 2 /\ since[i] \in 0 .. 2
    BY <2>1 DEF HistOK
  <2>3. CASE /\ pc' = "cut" /\ i' = i /\ PORT_STATE' = PORT_STATE
             /\ Vctl \in PORT_STATE[i] /\ Beyond(i) /\ Changing \in PORT_STATE[i]
    <3>1. streak'[i] = UpTo2(streak[i] + 1) /\ since'[i] = UpTo2(since[i] + 1)
      BY <2>2, <2>3
    <3>2. since[i] > 0 => streak[i] > 0
      BY <2>1, <2>3 DEF PollInv
    <3>3. since'[i] = 2 => streak'[i] = 2
      BY <2>2, <3>1, <3>2 DEF UpTo2
    <3>4. streak'[i] > 0
      BY <2>2, <3>1 DEF UpTo2
    <3>5. \A p \in Port : Vctl \in PORT_STATE'[p] /\ Changing \in PORT_STATE'[p] /\ since'[p] > 0
                             => streak'[p] > 0
      BY <2>2, <2>3, <3>4 DEF PollInv
    <3> QED BY <2>3, <3>3, <3>5 DEF PollInv, TwoPollsOnceSettled
  <2>4. CASE pc' # "cut"
    <3>1. pc' \notin {"cut", "restore"}
      BY <1>1, <2>4 DEF HPollPort, PollPort, NextPort
    <3>2. CASE Vctl \in PORT_STATE[i]
      <4>1. SetState(i, PollMark(PORT_STATE[i], Beyond(i)))
        BY <1>1, <2>4, <3>2 DEF HPollPort, PollPort
      <4>2. /\ PORT_STATE'[i] = PollMark(PORT_STATE[i], Beyond(i))
            /\ \A p \in Port : p # i => PORT_STATE'[p] = PORT_STATE[p]
        BY <1>type, <2>1, <4>1 DEF SetState, RamOK
      <4>3. Changing \in PORT_STATE'[i] => Beyond(i)
        BY <4>2 DEF PollMark, SetBit
      <4>4. Changing \in PORT_STATE'[i] => streak'[i] > 0
        <5>1. \A n \in 0 .. 2 : UpTo2(n + 1) > 0
          BY DEF UpTo2
        <5> QED BY <2>2, <4>3, <5>1
      <4>5. \A p \in Port :
               Vctl \in PORT_STATE'[p] /\ Changing \in PORT_STATE'[p] /\ since'[p] > 0
                  => streak'[p] > 0
        BY <2>2, <4>2, <4>4 DEF PollInv
      <4> QED BY <3>1, <4>5 DEF PollInv, TwoPollsOnceSettled
    <3>3. CASE Vctl \notin PORT_STATE[i]
      <4>1. PORT_STATE' = PORT_STATE
        BY <1>1, <3>3 DEF HPollPort, PollPort
      <4>2. \A p \in Port :
               Vctl \in PORT_STATE'[p] /\ Changing \in PORT_STATE'[p] /\ since'[p] > 0
                  => streak'[p] > 0
        BY <2>2, <3>3, <4>1 DEF PollInv
      <4> QED BY <3>1, <4>2 DEF PollInv, TwoPollsOnceSettled
    <3> QED BY <3>2, <3>3
  <2>5. PollPort
    BY <1>1 DEF HPollPort
  <2>6. CASE Vctl \in PORT_STATE[i] /\ Beyond(i) /\ Changing \in PORT_STATE[i]
    <3>1. pc' = "cut" /\ UNCHANGED <<i, PORT_STATE>>
      BY <2>5, <2>6 DEF PollPort
    <3> QED BY <2>3, <2>6, <3>1
  <2>7. CASE ~(Vctl \in PORT_STATE[i] /\ Beyond(i) /\ Changing \in PORT_STATE[i])
    <3>1. NextPort("poll", "polled")
      BY <2>5, <2>7 DEF PollPort
    <3> QED BY <2>4, <3>1 DEF NextPort
  <2> QED BY <2>6, <2>7
<1>2. CASE HSetVctlEnable
  <2>1. i \in Port /\ streak' = streak /\ pc' \notin {"cut", "restore"}
    BY <1>2, <1>type DEF HSetVctlEnable, SetVctlEnable, NextPort
  <2>2. CASE i \in cmd.pd
    <3>1. /\ SetState(i, SetBit(PORT_STATE[i], Vctl, pc = "VCTLON"))
          /\ since' = [since EXCEPT ![i] = IF Vctl \in PORT_STATE[i] THEN @ ELSE 0]
      BY <1>2, <2>2 DEF HSetVctlEnable, SetVctlEnable
    <3>2. /\ PORT_STATE'[i] = SetBit(PORT_STATE[i], Vctl, pc = "VCTLON")
          /\ \A p \in Port : p # i => PORT_STATE'[p] = PORT_STATE[p] /\ since'[p] = since[p]
          /\ since'[i] = IF Vctl \in PORT_STATE[i] THEN since[i] ELSE 0
      BY <1>type, <2>1, <3>1 DEF SetState, RamOK, HistOK
    <3>3. \A p \in Port :
             Vctl \in PORT_STATE'[p] /\ Changing \in PORT_STATE'[p] /\ since'[p] > 0
                => streak'[p] > 0
      BY <2>1, <3>2 DEF PollInv, SetBit
    <3> QED BY <2>1, <3>3 DEF PollInv, TwoPollsOnceSettled
  <2>3. CASE i \notin cmd.pd
    BY <1>2, <2>1, <2>3, PollFrame DEF HSetVctlEnable, SetVctlEnable, ram
  <2> QED BY <2>2, <2>3
<1>3. CASE HBootPort
  <2>1. /\ i \in Port /\ UNCHANGED <<streak, since>> /\ pc' \notin {"cut", "restore"}
        /\ SetState(i, BootBits(ReadBoot(eeBoot[i])))
    BY <1>3, <1>type DEF HBootPort, BootPort, NextPort
  <2>2. Changing \notin BootBits(ReadBoot(eeBoot[i]))
    BY DEF BootBits, Ctl, SetBit
  <2> QED BY <1>type, <2>1, <2>2, PollUpdate
<1>4. CASE \/ (Pon \/ PcycleOn) /\ HSwitch(TRUE)
           \/ (Poff \/ PcycleOff) /\ HSwitch(FALSE)
  <2>1. PICK on \in BOOLEAN : HSwitch(on) /\ SetPort(on)
    BY <1>4 DEF Pon, Poff, PcycleOn, PcycleOff, PortSetCtl
  <2>2. i \in Port /\ pc' \notin {"cut", "restore"} /\ UNCHANGED <<streak, since>>
    BY <1>4, <1>type DEF Pon, Poff, PcycleOn, PcycleOff, PortSetCtl, NextPort, HSwitch
  <2>3. Vctl \notin Ctl(PORT_STATE[i], on) \ {Vctl}
    OBVIOUS
  <2> QED BY <1>type, <2>1, <2>2, <2>3, PollUpdate, PollFrame DEF SetPort
<1>5. CASE HScanPort
  <2>1. i \in Port /\ pc' \notin {"cut", "restore"} /\ UNCHANGED <<streak, since>>
    BY <1>5, <1>type DEF HScanPort, ScanPort, NextPort
  <2>2. SetState(i, Trip(PORT_STATE[i])) \/ UNCHANGED PORT_STATE
    BY <1>5 DEF HScanPort, ScanPort
  <2>3. Vctl \notin Trip(PORT_STATE[i])
    BY DEF Trip
  <2> QED BY <1>type, <2>1, <2>2, <2>3, PollUpdate, PollFrame
<1>6. CASE HPowerLoss
  BY <1>6 DEF HPowerLoss, PowerLoss, PollInv, TwoPollsOnceSettled
<1>7. CASE HOther
  <2>1. UNCHANGED <<streak, since>>
    BY <1>7 DEF HOther, hist
  <2>2. CASE Cut
    <3>1. i \in Port /\ i' = i /\ pc = "cut"
      BY <2>2, <1>type DEF Cut
    <3>2. SetState(i, Ctl(PORT_STATE[i], FALSE)) \/ UNCHANGED PORT_STATE
      BY <2>2 DEF Cut
    <3>3. Vctl \in Ctl(PORT_STATE[i], FALSE) /\ Changing \in Ctl(PORT_STATE[i], FALSE)
             => Vctl \in PORT_STATE[i] /\ Changing \in PORT_STATE[i]
      BY DEF Ctl, SetBit
    <3> QED BY <1>type, <2>1, <3>1, <3>2, <3>3, PollUpdate, PollFrame
  <2>3. CASE Restore
    <3>1. i \in Port /\ pc' \notin {"cut", "restore"}
      BY <2>3, <1>type DEF Restore, NextPort
    <3>2. \/ SetState(i, Ctl(PORT_STATE[i], TRUE) \ {Changing})
          \/ SetState(i, PORT_STATE[i] \ {Changing})
      BY <2>3 DEF Restore
    <3>3. Changing \notin Ctl(PORT_STATE[i], TRUE) \ {Changing}
      OBVIOUS
    <3> QED BY <1>type, <2>1, <3>1, <3>2, <3>3, PollUpdate
  <2>4. CASE \/ NoByte \/ EditLine \/ Receive \/ PcycleWait \/ SetCycle \/ SetVctl \/ EndCommand
             \/ SkipScan \/ StartScan \/ EndScan \/ SkipPoll \/ StartPoll \/ EndPoll
    <3>1. UNCHANGED PORT_STATE
      BY <2>4 DEF NoByte, EditLine, Receive, PcycleWait, SetCycle, SetVctl, EndCommand, SkipScan,
         StartScan, EndScan, SkipPoll, StartPoll, EndPoll, ram
    <3>2. pc' \notin {"cut", "restore"}
      BY <2>4, CommandAssumption DEF NoByte, EditLine, Receive, PcycleWait, SetCycle, SetVctl,
         EndCommand, SkipScan, StartScan, EndScan, SkipPoll, StartPoll, EndPoll,
         CommandAssumption, Command, Ops, PortOps, SwitchOps, VctlOps, ControlOps
    <3> QED BY <2>1, <3>1, <3>2, PollFrame
  <2>5. CASE Tick \/ LoadChange
    <3>1. UNCHANGED <<pc, i, PORT_STATE>>
      BY <2>5 DEF Tick, LoadChange, thread, ram
    <3> QED BY <2>1, <3>1 DEF PollInv, TwoPollsOnceSettled
  <2> QED BY <1>7, <2>2, <2>3, <2>4, <2>5 DEF HOther
<1>8. CASE HSetDef \/ HEraseCell
  <2>1. UNCHANGED <<PORT_STATE, streak, since>> /\ pc' \notin {"cut", "restore"}
    BY <1>8 DEF HSetDef, HEraseCell, SetDef, EraseCell, NextPort, ram
  <2> QED BY <2>1, PollFrame
<1>9. CASE UNCHANGED hvars
  <2>1. UNCHANGED <<pc, i, PORT_STATE, streak, since>>
    BY <1>9 DEF hvars, vars, hist, thread, ram
  <2> QED BY <2>1 DEF PollInv, TwoPollsOnceSettled
<1> QED BY <1>1, <1>2, <1>3, <1>4, <1>5, <1>6, <1>7, <1>8, <1>9 DEF HNext

(* Voltage control that has been on for two polls switches a port only when *)
(* the last two polls in a row found it beyond its thresholds, whatever     *)
(* commands, trips, threshold changes and power losses came between.        *)
THEOREM TwoPollsBehindASwitch == HSpec => []TwoPollsOnceSettled
<1>1. HSpec => []PollInv
  BY PollInit, PollNext, HistHolds, PTL DEF HSpec
<1>2. PollInv => TwoPollsOnceSettled
  BY DEF PollInv
<1> QED BY <1>1, <1>2, PTL
=============================================================================
