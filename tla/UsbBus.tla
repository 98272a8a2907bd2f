------------------------------- MODULE UsbBus -------------------------------
(***************************************************************************)
(* The device state machine of the USB library as this build compiles it   *)
(* (ATmega32U2, no VBUS interrupt, limited controller): the bus events of  *)
(* USB_GEN_vect.  A suspended bus and an unplugged cable look the same to  *)
(* this chip, so the library calls both Unattached.                        *)
(***************************************************************************)
EXTENDS Integers

VARIABLES
    state,      \* USB_DeviceState, without the DEVICE_STATE_ prefix
    config,     \* USB_Device_ConfigurationNumber
    addressed,  \* ADDEN of UDADDR: USB_Device_IsAddressSet
    suspOn,     \* the suspend interrupt is enabled
    wakeOn,     \* the wake-up interrupt is enabled
    frozen      \* the clock of the USB controller is stopped

bus == <<state, config, addressed, suspOn, wakeOn, frozen>>

States == {"Unattached", "Powered", "Default", "Addressed", "Configured"}

(* USB_Init_Device. *)
BusInit ==
    /\ state = "Unattached" /\ config = 0 /\ addressed = FALSE
    /\ suspOn = TRUE /\ wakeOn = FALSE /\ frozen = FALSE

(* SUSPI *)
BusSuspend ==
    /\ suspOn /\ ~frozen
    /\ suspOn' = FALSE /\ wakeOn' = TRUE
    /\ frozen' = TRUE
    /\ state' = "Unattached"
    /\ UNCHANGED <<config, addressed>>

(* Mutant: an unaddressed device stays suspended. *)
ResumedSuspended ==
    IF config # 0 THEN "Configured" ELSE IF addressed THEN "Addressed" ELSE "Suspended"

(* Where a wake-up finds the device again. *)
Resumed == IF config # 0 THEN "Configured" ELSE IF addressed THEN "Addressed" ELSE "Powered"

(* WAKEUPI *)
BusWake ==
    /\ wakeOn
    /\ frozen' = FALSE
    /\ wakeOn' = FALSE /\ suspOn' = TRUE
    /\ state' = Resumed
    /\ UNCHANGED <<config, addressed>>

(* EORSTI; the controller forgets its address by itself and sees no reset  *)
(* while its clock is stopped.                                             *)
BusReset ==
    /\ ~frozen
    /\ state' = "Default" /\ config' = 0
    /\ addressed' = FALSE
    /\ suspOn' = FALSE /\ wakeOn' = TRUE
    /\ UNCHANGED frozen

(* USB_Device_SetAddress, for the addresses from 1 that hosts give. *)
SetAddressState == state' = "Addressed" /\ addressed' = TRUE

(* Mutant: a configuration leaves the state alone. *)
StateKept(number) == IF number # 0 THEN state ELSE "Powered"

(* USB_Device_SetConfiguration: number 0 keeps an addressed device Configured. *)
StateAfterConfiguration(number) ==
    IF number # 0 \/ addressed THEN "Configured" ELSE "Powered"

BusTypeOK ==
    /\ state \in States /\ config \in 0 .. 1 /\ addressed \in BOOLEAN
    /\ suspOn \in BOOLEAN /\ wakeOn \in BOOLEAN /\ frozen \in BOOLEAN
=============================================================================
