----------------------------- MODULE PduHistory -----------------------------
(***************************************************************************)
(* PduCore with history variables, and what they let us say: who is in     *)
(* charge of a port, how many polls in a row stood behind a switch, and    *)
(* which settings the host was told are stored.  The history only records: *)
(* it restricts no step of PduCore.                                        *)
(***************************************************************************)
EXTENDS PduCore

VARIABLES
    order,    \* [Port -> {"free", "on", "off"}]: the last order a port was given
    streak,   \* polls in a row, up to now, that found the port beyond (at most 2)
    since,    \* polls of the port since its voltage control came on (at most 2)
    want,     \* boot settings the host has been told are stored
    wiped     \* the EEPROM was reset since power up

hist  == <<order, streak, since, want, wiped>>
hvars == <<vars, hist>>

UpTo2(n) == IF n < 2 THEN n ELSE 2

Level(on) == IF on THEN "on" ELSE "off"

BootOrder(byte) == IF BootVctl \in byte THEN "free" ELSE Level(BootEnabled \in byte)

HInit ==
    /\ Init
    /\ want = [p \in Port |-> ReadBoot(eeBoot[p])]
    /\ order = [p \in Port |-> "off"]
    /\ streak = [p \in Port |-> 0]
    /\ since = [p \in Port |-> 0]
    /\ wiped = FALSE

(* A boot obeys what the host stored. *)
HBootPort ==
    /\ BootPort
    /\ order' = [order EXCEPT ![i] = BootOrder(want[i])]
    /\ UNCHANGED <<streak, since, want, wiped>>

HSwitch(on) ==
    /\ order' = IF i \in cmd.pd THEN [order EXCEPT ![i] = Level(on)] ELSE order
    /\ UNCHANGED <<streak, since, want, wiped>>

HSetDef ==
    /\ SetDef
    /\ want' = IF i \in cmd.pd
               THEN [want EXCEPT ![i] = SetBit(@, BootEnabled, pc = "SETDEFON")]
               ELSE want
    /\ UNCHANGED <<order, streak, since, wiped>>

(* VCTLON frees the port; VCTLOFF leaves it as it is until it is ordered. *)
HSetVctlEnable ==
    /\ SetVctlEnable
    /\ IF i \in cmd.pd
       THEN /\ want' = [want EXCEPT ![i] = SetBit(@, BootVctl, pc = "VCTLON")]
            /\ order' = [order EXCEPT ![i] =
                            IF pc = "VCTLON" THEN "free"
                            ELSE IF @ = "free" THEN Level(Powered(i)) ELSE @]
            /\ since' = [since EXCEPT ![i] = IF Vctl \in PORT_STATE[i] THEN @ ELSE 0]
       ELSE UNCHANGED <<want, order, since>>
    /\ UNCHANGED <<streak, wiped>>

HEraseCell ==
    /\ EraseCell
    /\ wiped' = TRUE
    /\ want' = [p \in Port |-> IF p = i THEN {BootEnabled} ELSE want[p]]
    /\ UNCHANGED <<order, streak, since>>

HScanPort ==
    /\ ScanPort
    /\ order' = IF i \in over THEN [order EXCEPT ![i] = "off"] ELSE order
    /\ UNCHANGED <<streak, since, want, wiped>>

(* A poll counts whether or not voltage control looks at the port. *)
HPollPort ==
    /\ PollPort
    /\ streak' = [streak EXCEPT ![i] = IF Beyond(i) THEN UpTo2(@ + 1) ELSE 0]
    /\ since' = [since EXCEPT ![i] = IF Vctl \in PORT_STATE[i] THEN UpTo2(@ + 1) ELSE 0]
    /\ UNCHANGED <<order, want, wiped>>

HPowerLoss ==
    /\ PowerLoss
    /\ order' = [p \in Port |-> "off"]
    /\ streak' = [p \in Port |-> 0]
    /\ since' = [p \in Port |-> 0]
    /\ want' = IF wiped THEN [p \in Port |-> ReadBoot(eeBoot[p])] ELSE want
    /\ wiped' = FALSE

HOther ==
    /\ \/ NoByte \/ EditLine \/ Receive \/ PcycleWait \/ SetCycle \/ SetVctl \/ EndCommand
       \/ SkipScan \/ StartScan \/ EndScan
       \/ SkipPoll \/ StartPoll \/ Cut \/ Restore \/ EndPoll
       \/ Tick \/ LoadChange
    /\ UNCHANGED hist

HNext ==
    \/ HBootPort
    \/ (Pon \/ PcycleOn) /\ HSwitch(TRUE)
    \/ (Poff \/ PcycleOff) /\ HSwitch(FALSE)
    \/ HSetDef \/ HSetVctlEnable \/ HEraseCell
    \/ HScanPort \/ HPollPort
    \/ HPowerLoss
    \/ HOther

HSpec == HInit /\ [][HNext]_hvars

-----------------------------------------------------------------------------
(* Properties *)

HTypeOK ==
    /\ TypeOK
    /\ order \in [Port -> {"free", "on", "off"}]
    /\ streak \in [Port -> 0 .. 2] /\ since \in [Port -> 0 .. 2]
    /\ want \in [Port -> SUBSET {BootEnabled, BootVctl}]
    /\ wiped \in BOOLEAN

(* A port does what it was told last: by PON, POFF or PCYCLE, by a trip, by *)
(* its boot default, or by VCTLOFF (stay as you are); only a port that was  *)
(* handed to voltage control since may differ.                              *)
OrdersObeyed ==
    \A p \in Port : /\ order[p] = "on" => Powered(p)
                    /\ order[p] = "off" => ~Powered(p)

(* Voltage control is on for exactly the ports that were handed to it and   *)
(* that no manual action and no trip took back (README.md on VCTLON), across *)
(* reboots too.                                                             *)
VctlAuthority == \A p \in Port : Vctl \in PORT_STATE[p] <=> order[p] = "free"

(* A port that has been under voltage control for two polls is switched     *)
(* only when the last two polls in a row found it beyond its thresholds.    *)
TwoPollsOnceSettled ==
    pc \in {"cut", "restore"} /\ since[i] = 2 => streak[i] = 2

(* The same, for every switch: what README.md says of voltage control.      *)
TwoPolls == pc = "cut" => streak[i] = 2

(* The EEPROM holds, for every port, the boot settings the host was told    *)
(* are stored, through any loss of power; a reset by Ctrl-] aside.          *)
SettingsDurable == ~wiped => \A p \in Port : ReadBoot(eeBoot[p]) = want[p]

(* The same with Ctrl-], which sets every port back to the default          *)
(* ("Reset all EEPROM values to 255"), until the host stores something else. *)
SettingsSurviveReset == pc # "RESET" => \A p \in Port : ReadBoot(eeBoot[p]) = want[p]

(* The invariants that prove the above, one per subject.                    *)

AuthorityInv ==
    /\ \A p \in Port : /\ Vctl \in PORT_STATE[p] <=> order[p] = "free"
                       /\ order[p] = "on" => Enabled \in PORT_STATE[p]
                       /\ order[p] = "off" => Enabled \notin PORT_STATE[p]
    /\ pc \in {"cut", "restore"} => Vctl \in PORT_STATE[i]

(* RAM mirrors the EEPROM as far as the boot loop has come.                 *)
SettingsInv ==
    /\ SettingsDurable
    /\ pc = "boot" => ~wiped
    /\ ~wiped => \A p \in Port : (pc = "boot" => p < i) => PORT_BOOT_STATE[p] = want[p]

(* A mark that was made under the present voltage control has a poll behind *)
(* it.                                                                      *)
PollInv ==
    /\ TwoPollsOnceSettled
    /\ \A p \in Port :
          Vctl \in PORT_STATE[p] /\ Changing \in PORT_STATE[p] /\ since[p] > 0 => streak[p] > 0
=============================================================================
