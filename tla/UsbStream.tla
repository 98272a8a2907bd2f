----------------------------- MODULE UsbStream -----------------------------
(***************************************************************************)
(* The serial line of the unit: the calls of CDCClassDevice.c that the     *)
(* main loop makes, step by step, the two endpoint banks they share with   *)
(* the USB controller, and the interrupts that come between any two steps. *)
(*                                                                         *)
(* The endpoint registers are those of the endpoint selected in UENUM.     *)
(* The interrupt that serves control requests restores the selection, the  *)
(* one that serves a reset of the bus leaves the control endpoint selected.*)
(* A step that then reaches another endpoint than it meant to sees and     *)
(* does what that one's registers happen to hold.  Bytes are numbers, in   *)
(* the order they were sent; 0 is a byte nobody sent.                      *)
(***************************************************************************)
EXTENDS UsbBus, Sequences, SequencesExt

CONSTANTS
    SIZE,       \* bytes of a bank (CDC_TXRX_EPSIZE, 16)
    MaxPrinted, \* bound on the bytes the firmware prints
    MaxTyped,   \* bound on the bytes the host sends
    MaxUpsets   \* bound on resets, suspensions and new configurations

ASSUME StreamAssumption ==
    SIZE \in Nat \ {0} /\ MaxPrinted \in Nat /\ MaxTyped \in Nat /\ MaxUpsets \in Nat

VARIABLES
    baud,            \* the host has set a line encoding (BaudRateBPS # 0)
    sel,             \* the selected endpoint
    pc,              \* where the main thread is
    inBank, inReady, \* bank of the IN endpoint; TXINI: the firmware may fill it
    outBank, outRx,  \* bank of the OUT endpoint; RXOUTI: it holds a packet
    printed,         \* bytes the firmware was told are sent
    typed,           \* bytes the host sent
    seen,            \* bytes the host received
    got,             \* bytes the main loop received
    upsets,          \* upsets so far
    shaken           \* an upset came during the call under way

inSide  == <<inBank, inReady, seen>>
outSide == <<outBank, outRx, typed, got>>
banks   == <<inBank, inReady, outBank, outRx>>
vars    == <<bus, baud, sel, pc, inSide, outSide, printed, upsets, shaken>>

Calm == {"read", "print", "task"}   \* between two calls

Init ==
    /\ BusInit
    /\ baud = FALSE /\ sel = "CTRL" /\ pc = "task"
    /\ inBank = <<>> /\ inReady = FALSE /\ outBank = <<>> /\ outRx = FALSE
    /\ printed = 0 /\ typed = 0 /\ seen = <<>> /\ got = <<>>
    /\ upsets = 0 /\ shaken = FALSE

-----------------------------------------------------------------------------
(* The main thread *)

(* The check every call begins with. *)
Ready == state = "Configured" /\ baud

(* A step reaches the endpoint it means. *)
Reaches(ep) == sel = ep /\ ~frozen

(* What a flag of that endpoint may read as. *)
Reads(ep, flag) == IF Reaches(ep) THEN {flag} ELSE BOOLEAN

(* Mutant: a full bank still takes a byte. *)
HasRoomOffByOne == inReady /\ Len(inBank) <= SIZE

HasRoom == inReady /\ Len(inBank) < SIZE   \* Endpoint_IsReadWriteAllowed

Goto(next) == pc' = next /\ shaken' = (shaken /\ next \notin Calm)

Branch(at, ep, flag, yes, no) ==
    /\ pc = at
    /\ \E f \in Reads(ep, flag) : Goto(IF f THEN yes ELSE no)
    /\ UNCHANGED <<bus, baud, sel, inSide, outSide, printed, upsets>>

Select(at, ep, next) ==
    /\ pc = at /\ sel' = ep
    /\ Goto(next)
    /\ UNCHANGED <<bus, baud, inSide, outSide, printed, upsets>>

Enter(at, call, skip) ==
    /\ pc = at
    /\ Goto(IF Ready THEN call ELSE skip)
    /\ UNCHANGED <<bus, baud, sel, inSide, outSide, printed, upsets>>

(* Endpoint_ClearIN: hands the bank to the host; a bank already handed over *)
(* stays so.                                                                *)
ClearIN(at, next) ==
    /\ pc = at
    /\ inReady' = (inReady /\ ~Reaches("IN"))
    /\ Goto(next)
    /\ UNCHANGED <<bus, baud, sel, inBank, seen, outSide, printed, upsets>>

(* Endpoint_WaitUntilReady: ready, gone, or no answer for 100 frames.       *)
Wait(at, next, fail) ==
    /\ pc = at
    /\ \/ TRUE \in Reads("IN", inReady) /\ Goto(next)
       \/ ~(Reaches("IN") /\ inReady) /\ Goto(fail)
    /\ UNCHANGED <<bus, baud, sel, inSide, outSide, printed, upsets>>

(* CDC_Device_ReceiveByte *)
RxEnter  == Enter("read", "rxSelect", "print")
RxSelect == Select("rxSelect", "OUT", "rxTest")
RxTest   == Branch("rxTest", "OUT", outRx, "rxCount", "print")
RxCount  == Branch("rxCount", "OUT", outBank # <<>>, "rxRead", "rxLast")

RxRead ==
    /\ pc = "rxRead"
    /\ IF Reaches("OUT") /\ outBank # <<>>
       THEN got' = Append(got, Head(outBank)) /\ outBank' = Tail(outBank)
       ELSE got' = Append(got, 0) /\ outBank' = outBank
    /\ Goto("rxLast")
    /\ UNCHANGED <<bus, baud, sel, inSide, outRx, typed, printed, upsets>>

(* Mutant: the bank is returned after the first byte. *)
RxLastAlways == Branch("rxLast", "OUT", TRUE, "rxClear", "print")

RxLast == Branch("rxLast", "OUT", outBank = <<>>, "rxClear", "print")

(* Endpoint_ClearOUT: the bank goes back to the host. *)
RxClear ==
    /\ pc = "rxClear"
    /\ IF Reaches("OUT") THEN outBank' = <<>> /\ outRx' = FALSE ELSE UNCHANGED <<outBank, outRx>>
    /\ Goto("print")
    /\ UNCHANGED <<bus, baud, sel, inSide, typed, got, printed, upsets>>

(* CDC_Device_SendByte, called by the echo, the replies and the prompts. *)
TxEnter ==
    /\ printed < MaxPrinted
    /\ Enter("print", "txSelect", "print")

TxSelect == Select("txSelect", "IN", "txTest")
TxTest   == Branch("txTest", "IN", HasRoom, "txWrite", "txClear")
TxClear  == ClearIN("txClear", "txWait")
TxWait   == Wait("txWait", "txWrite", "print")

TxWrite ==
    /\ pc = "txWrite"
    /\ printed' = printed + 1
    /\ inBank' = IF Reaches("IN") /\ HasRoom THEN Append(inBank, printed') ELSE inBank
    /\ Goto("print")
    /\ UNCHANGED <<bus, baud, sel, inReady, seen, outSide, upsets>>

EndPrint ==
    /\ pc = "print" /\ Goto("task")
    /\ UNCHANGED <<bus, baud, sel, inSide, outSide, printed, upsets>>

(* Mutant: the flush forgets to hand the bank over. *)
FlushPartNever ==
    /\ pc = "flushPart" /\ Goto("read")
    /\ UNCHANGED <<bus, baud, sel, inSide, outSide, printed, upsets>>

(* CDC_Device_USBTask, and CDC_Device_Flush within it: a bank that was full *)
(* is followed by an empty packet, so that the host's transfer ends.        *)
TaskEnter   == Enter("task", "taskSelect", "read")
TaskSelect  == Select("taskSelect", "IN", "taskReady")
TaskReady   == Branch("taskReady", "IN", inReady, "flush", "read")
FlushEnter  == Enter("flush", "flushSelect", "read")
FlushSelect == Select("flushSelect", "IN", "flushCount")
FlushCount  == Branch("flushCount", "IN", inBank # <<>>, "flushFull", "read")
FlushFull   == Branch("flushFull", "IN", HasRoom, "flushPart", "flushAll")
FlushPart   == ClearIN("flushPart", "read")
FlushAll    == ClearIN("flushAll", "flushWait")
FlushWait   == Wait("flushWait", "flushEmpty", "read")
FlushEmpty  == ClearIN("flushEmpty", "read")

Main ==
    \/ RxEnter \/ RxSelect \/ RxTest \/ RxCount \/ RxRead \/ RxLast \/ RxClear
    \/ TxEnter \/ TxSelect \/ TxTest \/ TxClear \/ TxWait \/ TxWrite \/ EndPrint
    \/ TaskEnter \/ TaskSelect \/ TaskReady
    \/ FlushEnter \/ FlushSelect \/ FlushCount \/ FlushFull
    \/ FlushPart \/ FlushAll \/ FlushWait \/ FlushEmpty

-----------------------------------------------------------------------------
(* The host and the bus *)

Talking == config = 1 /\ ~frozen   \* the host uses the data endpoints

TakePacket ==
    /\ Talking /\ ~inReady
    /\ seen' = seen \o inBank
    /\ inBank' = <<>> /\ inReady' = TRUE
    /\ UNCHANGED <<bus, baud, sel, pc, outSide, printed, upsets, shaken>>

SendPacket ==
    /\ Talking /\ ~outRx
    /\ \E n \in 0 .. SIZE :
           /\ typed + n <= MaxTyped
           /\ typed' = typed + n
           /\ outBank' = [k \in 1 .. n |-> typed + k]
    /\ outRx' = TRUE
    /\ UNCHANGED <<bus, baud, sel, pc, inSide, got, printed, upsets, shaken>>

(* Mutant: control requests leave the control endpoint selected. *)
ForgetSelection == sel' = "CTRL"

(* USB_COM_vect saves the selected endpoint and puts it back. *)
KeepSelection == sel' = sel

(* CDC_REQ_SetLineEncoding *)
SetLineEncoding ==
    /\ Talking /\ baud' \in BOOLEAN /\ baud' # baud
    /\ KeepSelection
    /\ UNCHANGED <<bus, pc, inSide, outSide, printed, upsets, shaken>>

Disturb ==
    /\ upsets < MaxUpsets /\ upsets' = upsets + 1
    /\ shaken' = (shaken \/ pc \notin Calm)
    /\ UNCHANGED <<pc, seen, typed, got, printed>>

(* The banks are new; before a configuration it is open whether the data   *)
(* endpoints are enabled.                                                  *)
EmptyBanks(ready) == inBank' = <<>> /\ inReady' \in ready /\ outBank' = <<>> /\ outRx' = FALSE

(* The interrupt may come while a control request is served, which then    *)
(* restores the selection.                                                 *)
Reset ==
    /\ BusReset
    /\ sel' \in {sel, "CTRL"}
    /\ EmptyBanks(BOOLEAN)
    /\ Disturb /\ UNCHANGED baud

Suspend == BusSuspend /\ Disturb /\ UNCHANGED <<baud, sel, banks>>

Wake == BusWake /\ UNCHANGED <<baud, sel, pc, inSide, outSide, printed, upsets, shaken>>

SetAddress ==
    /\ ~frozen /\ state \in {"Powered", "Default"}
    /\ SetAddressState /\ KeepSelection
    /\ UNCHANGED <<config, suspOn, wakeOn, frozen, baud, pc, inSide, outSide, printed,
                   upsets, shaken>>

(* USB_Device_SetConfiguration and the CDC_Device_ConfigureEndpoints it     *)
(* calls: the line encoding is forgotten with the banks.                    *)
SetConfiguration(number) ==
    /\ ~frozen /\ addressed
    /\ config' = number /\ state' = StateAfterConfiguration(number)
    /\ KeepSelection
    /\ EmptyBanks({TRUE}) /\ baud' = FALSE
    /\ Disturb /\ UNCHANGED <<addressed, suspOn, wakeOn, frozen>>

(* ClearFeature(ENDPOINT_HALT) resets the endpoint. *)
ClearHalt ==
    /\ Talking
    /\ \/ inBank' = <<>> /\ inReady' = TRUE /\ UNCHANGED <<outBank, outRx>>
       \/ outBank' = <<>> /\ outRx' = FALSE /\ UNCHANGED <<inBank, inReady>>
    /\ KeepSelection
    /\ Disturb /\ UNCHANGED <<bus, baud>>

Host == TakePacket \/ SendPacket \/ SetLineEncoding

Bus ==
    \/ Reset \/ Suspend \/ Wake \/ SetAddress \/ ClearHalt
    \/ \E c \in 0 .. 1 : SetConfiguration(c)

Next == Main \/ Host \/ Bus

Spec == Init /\ [][Next]_vars

(* The main thread never stops: even Wait ends, by its count of frames or  *)
(* by the suspension that follows when frames stop.  The host reads.       *)
FairSpec == Spec /\ WF_vars(Main) /\ WF_vars(TakePacket)
-----------------------------------------------------------------------------
(* Properties *)

Endpoints == {"CTRL", "IN", "OUT"}

(* Where a step means the IN or the OUT endpoint.                          *)
InSteps ==
    {"txTest", "txClear", "txWait", "txWrite", "taskReady", "flush", "flushCount",
     "flushFull", "flushPart", "flushAll", "flushWait", "flushEmpty"}
OutSteps == {"rxTest", "rxCount", "rxRead", "rxLast", "rxClear"}
Locations ==
    Calm \cup InSteps \cup OutSteps \cup {"rxSelect", "txSelect", "taskSelect", "flushSelect"}

(* Every variable keeps its range, and no bank overflows.                  *)
StreamTypeOK ==
    /\ BusTypeOK
    /\ baud \in BOOLEAN /\ inReady \in BOOLEAN /\ outRx \in BOOLEAN
    /\ shaken \in BOOLEAN
    /\ sel \in Endpoints /\ pc \in Locations
    /\ printed \in Nat /\ typed \in Nat /\ upsets \in Nat
    /\ inBank \in Seq(Nat) /\ outBank \in Seq(Nat) /\ seen \in Seq(Nat) /\ got \in Seq(Nat)
    /\ Len(inBank) <= SIZE /\ Len(outBank) <= SIZE

(* The replies are a ByteStream: what CDC_Device_SendByte accepts reaches   *)
(* the host in order, once and without gaps, but for what is in flight at   *)
(* an upset and for the one call the upset interrupts.                      *)
Replies == INSTANCE ByteStream WITH
    Capacity <- SIZE, Stray <- 0, accepted <- printed, flight <- inBank, heard <- seen
RepliesStream == Replies!Spec

(* The commands are one too: what the host sends is what                    *)
(* CDC_Device_ReceiveByte returns.                                          *)
Typing == INSTANCE ByteStream WITH
    Capacity <- SIZE, Stray <- 0, accepted <- typed, flight <- outBank, heard <- got
TypingStream == Typing!Spec

(* What the firmware printed does not stay in the bank: the flush in the    *)
(* main loop hands it over and the host takes it, while the line is open.   *)
PrintedIsSent == (inBank # <<>>) ~> (inBank = <<>> \/ ~Ready)

(* What keeps the steps of a call on their endpoint while no upset comes.   *)
OnEndpoint ==
    /\ pc \in InSteps => sel = "IN"
    /\ pc \in OutSteps => sel = "OUT"
    /\ pc \notin Calm => ~frozen

OutHeld ==
    /\ pc \in {"rxCount", "rxRead", "rxLast", "rxClear"} => outRx
    /\ pc = "rxRead" => outBank # <<>>
    /\ pc = "rxClear" => outBank = <<>>

InHeld ==
    /\ pc = "txWait" /\ inReady => inBank = <<>>
    /\ pc = "txWrite" => HasRoom

StreamInv ==
    /\ StreamTypeOK
    /\ frozen => state = "Unattached"
    /\ outBank # <<>> => outRx
    /\ pc \in Calm => ~shaken
    /\ ~shaken => OnEndpoint /\ OutHeld /\ InHeld
=============================================================================
