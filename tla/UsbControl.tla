----------------------------- MODULE UsbControl -----------------------------
(***************************************************************************)
(* Control requests: the interrupt USB_COM_vect, the handlers of the       *)
(* standard and the CDC requests it runs, and the places where these spin  *)
(* until the host goes on.  The main loop of the unit stands still while a *)
(* handler runs.  A reset of the bus interrupts a handler and lets the     *)
(* next request in on top of it, so the handlers form a stack; its last    *)
(* element is the one that runs.                                           *)
(***************************************************************************)
EXTENDS UsbBus, Sequences, SequencesExt

CONSTANTS
    Requests,   \* requests the host may make
    MaxEvents,  \* bound on resets and suspensions together
    MaxAborts   \* bound on transfers the host gives up

(* GetShort stands for GetStatus and GetConfiguration, NoData for           *)
(* SetControlLineState, SendBreak, ClearFeature and SetFeature.             *)
Reading == {"GetShort", "GetLineEncoding", "GetDescriptor"}
Configuring == {"SetConfiguration0", "SetConfiguration1"}
Writing == Configuring \cup {"SetAddress", "SetLineEncoding", "NoData"}
Known == Reading \cup Writing

ASSUME ControlAssumption ==
    Requests \subseteq Known \cup {"Unsupported"} /\ MaxEvents \in Nat /\ MaxAborts \in Nat

VARIABLES
    setup, out, in,    \* RXSTPI, RXOUTI and TXINI of the control endpoint
    rxstpOn,           \* the setup interrupt is enabled
    asked,             \* the request in the setup packet
    request,           \* USB_ControlRequest: the one a handler read last
    stack,             \* handlers under way: their request and where they spin
    baud,              \* the line encoding is set
    xfer,              \* what the host does next in its transfer; "off" before
                       \* it first reset the bus
    seen,              \* what the host has seen acknowledged since the reset:
                       \* "reset", "address", "config" or "line"
    events,
    aborts             \* transfers given up, by the host or by an event

endpoint == <<setup, out, in, asked>>
host     == <<xfer, seen>>
counts   == <<events, aborts>>
vars     == <<bus, endpoint, request, rxstpOn, stack, baud, host, counts>>

Init ==
    /\ BusInit
    /\ setup = FALSE /\ out = FALSE /\ in = TRUE /\ rxstpOn = FALSE
    /\ asked = "NoData" /\ request = "NoData" /\ stack = <<>> /\ baud = FALSE
    /\ xfer = "off" /\ seen = "reset"
    /\ events = 0 /\ aborts = 0

-----------------------------------------------------------------------------
(* Handlers *)

Top == Last(stack)
At(place) == stack # <<>> /\ Top.at = place
Spin(place) ==
    /\ stack' = Append(Front(stack), [req |-> Top.req, at |-> place])
    /\ UNCHANGED <<setup, xfer>>

(* Mutant: the handler runs with its own interrupt enabled. *)
EnterOpen == rxstpOn' = rxstpOn

(* USB_COM_vect disables the setup interrupt, then enables the others. *)
EnterHandler == rxstpOn' = FALSE

(* A setup packet that waits when a handler ends is cleared and stalled, and *)
(* the host drops that transfer.  SetConfiguration leaves another endpoint  *)
(* selected and sees no packet; one that finds the interrupt enabled, as a  *)
(* reset leaves it, has been taken by then.                                 *)
Swallows == setup /\ ~rxstpOn /\ Top.req \notin Configuring

StallLate ==
    /\ setup' = (setup /\ ~Swallows)
    /\ xfer' = IF Swallows THEN "none" ELSE xfer

(* Mutant: the interrupt is left disabled after the handler. *)
LeaveDeaf == stack' = Front(stack) /\ UNCHANGED rxstpOn /\ StallLate

(* The end of USB_Device_ProcessControlRequest and of USB_COM_vect. *)
Leave == stack' = Front(stack) /\ rxstpOn' = TRUE /\ StallLate

(* Where a handler spins first; the answer of a short read is handed over   *)
(* before.                                                                  *)
FirstSpin(r) ==
    CASE r = "GetShort"        -> "statusOut"
      [] r = "GetLineEncoding" -> "lineIn"
      [] r = "GetDescriptor"   -> "stream"
      [] r = "SetLineEncoding" -> "lineOut"
      [] OTHER                 -> "statusIn"

(* USB_Device_ProcessControlRequest and the start of the handler.           *)
Interrupt ==
    /\ rxstpOn /\ setup /\ ~frozen
    /\ setup' = FALSE /\ request' = asked
    /\ IF asked = "Unsupported"
       THEN xfer' = "none" /\ UNCHANGED <<in, config, stack, rxstpOn>>
       ELSE /\ stack' = Append(stack, [req |-> asked, at |-> FirstSpin(asked)])
            /\ EnterHandler
            /\ in' = (in /\ asked # "GetShort")
            /\ config' = IF asked \in Configuring
                         THEN IF asked = "SetConfiguration1" THEN 1 ELSE 0 ELSE config
            /\ UNCHANGED xfer
    /\ UNCHANGED <<state, addressed, suspOn, wakeOn, frozen, out, asked, baud,
                   seen, counts>>

Handling(touched) ==
    UNCHANGED <<config, suspOn, wakeOn, frozen, asked, request, seen, counts, touched>>

(* Mutant: the direction is taken the wrong way round. *)
StatusPlaceSwapped == IF request \in Reading THEN "statusIn" ELSE "statusOut"

(* Endpoint_ClearStatusStage judges the direction by the request read last. *)
StatusPlace == IF request \in Reading THEN "statusOut" ELSE "statusIn"

(* GetLineEncoding: nothing but the bank ends this wait. *)
LineIn ==
    /\ At("lineIn") /\ in
    /\ in' = FALSE /\ Spin(StatusPlace)
    /\ Handling(<<state, addressed, out, rxstpOn, baud>>)

(* SetLineEncoding: the data. *)
LineOut ==
    /\ At("lineOut")
    /\ \/ out /\ out' = FALSE /\ baud' = TRUE /\ Spin(StatusPlace) /\ UNCHANGED rxstpOn
       \/ ~out /\ state = "Unattached" /\ Leave /\ UNCHANGED <<out, baud>>
    /\ Handling(<<state, addressed, in>>)

(* Endpoint_ClearStatusStage after a read. *)
StatusOut ==
    /\ At("statusOut") /\ (out \/ state = "Unattached")
    /\ out' = FALSE
    /\ Leave
    /\ Handling(<<state, addressed, in, baud>>)

(* The memset of CDC_Device_ConfigureEndpoints. *)
ForgetLine == baud' = FALSE

(* Endpoint_ClearStatusStage after a write, and what the handler does next. *)
StatusIn ==
    /\ At("statusIn") /\ (in \/ state = "Unattached")
    /\ in' = FALSE
    /\ CASE Top.req = "SetAddress" -> Spin("addressIn") /\ UNCHANGED <<state, baud, rxstpOn>>
         [] Top.req \in Configuring ->
                state' = StateAfterConfiguration(config) /\ ForgetLine /\ Leave
         [] OTHER -> Leave /\ UNCHANGED <<state, baud>>
    /\ Handling(<<addressed, out>>)

(* USB_Device_SetAddress waits, by nothing but the bank, until the host has *)
(* taken the status packet.                                                 *)
AddressIn ==
    /\ At("addressIn") /\ in
    /\ SetAddressState /\ Leave
    /\ Handling(<<out, in, baud>>)

Broken == state = "Unattached" \/ setup

(* Endpoint_Write_Control_PStream_LE hands over packets, the last one takes *)
(* it to its second loop, until the host has enough.                        *)
StreamPacket(next) ==
    /\ At("stream") /\ ~Broken /\ ~out /\ in
    /\ in' = FALSE /\ Spin(next)
    /\ Handling(<<state, addressed, out, rxstpOn, baud>>)

StreamLast == StreamPacket("streamOut")

StreamEnd ==
    /\ At("stream") /\ (Broken \/ out)
    /\ out' = FALSE /\ Leave
    /\ Handling(<<state, addressed, in, baud>>)

StreamOut ==
    /\ At("streamOut") /\ (out \/ Broken)
    /\ out' = FALSE /\ Leave
    /\ Handling(<<state, addressed, in, baud>>)

Handler ==
    \/ Interrupt \/ LineIn \/ LineOut \/ StatusOut \/ StatusIn \/ AddressIn
    \/ StreamPacket("stream") \/ StreamLast \/ StreamEnd \/ StreamOut

(* The running handler has something to do. *)
Busy ==
    \/ stack # <<>> /\ Top.at \in {"lineIn", "addressIn", "statusIn", "stream"} /\ in
    \/ stack # <<>> /\ Top.at \in {"lineOut", "statusOut", "stream", "streamOut"} /\ out

-----------------------------------------------------------------------------
(* The host *)

FirstStage(r) ==
    CASE r \in Reading -> "dataIn" [] r = "SetLineEncoding" -> "dataOut" [] OTHER -> "statusIn"

(* The host sends what its driver would at this point of the session.      *)
Sensible(r) ==
    /\ r = "SetAddress" => seen = "reset"
    /\ r \in Configuring => seen # "reset"
    /\ r = "SetLineEncoding" => seen \in {"config", "line"}

(* A setup packet, at the end of a transfer or instead of it.  The handlers *)
(* are faster than the pause before it; the controller drops an answer that *)
(* nobody fetched.                                                          *)
Start(r) ==
    /\ ~frozen /\ ~setup /\ xfer # "off" /\ ~Busy
    /\ Sensible(r)
    /\ xfer = "none" \/ aborts < MaxAborts
    /\ aborts' = IF xfer = "none" THEN aborts ELSE aborts + 1
    /\ setup' = TRUE /\ asked' = r /\ out' = FALSE /\ in' = TRUE
    /\ xfer' = FirstStage(r)
    /\ seen' = IF r \in Configuring THEN "address" ELSE seen
    /\ UNCHANGED <<bus, request, rxstpOn, stack, baud, events>>

Acknowledged(r) ==
    CASE r = "SetAddress"        -> "address"
      [] r = "SetConfiguration1" -> "config"
      [] r = "SetLineEncoding"   -> "line"
      [] OTHER                   -> seen

(* The host takes a packet; a read goes on while the device has more.       *)
TakeIn ==
    /\ ~frozen /\ ~setup /\ ~in /\ in' = TRUE
    /\ \/ /\ xfer = "dataIn"
          /\ xfer' = IF At("stream") THEN "dataIn" ELSE "statusOut"
          /\ UNCHANGED seen
       \/ xfer = "statusIn" /\ xfer' = "none" /\ seen' = Acknowledged(asked)
    /\ UNCHANGED <<bus, setup, out, asked, request, rxstpOn, stack, baud, counts>>

(* The host may end a read early.                                           *)
SendOut ==
    /\ ~frozen /\ ~setup /\ ~out /\ out' = TRUE
    /\ \/ xfer = "dataOut" /\ xfer' = "statusIn" /\ UNCHANGED aborts
       \/ xfer = "statusOut" /\ xfer' = "none" /\ UNCHANGED aborts
       \/ xfer = "dataIn" /\ xfer' = "none" /\ aborts < MaxAborts /\ aborts' = aborts + 1
    /\ UNCHANGED <<bus, setup, in, asked, request, rxstpOn, stack, baud, seen, events>>

-----------------------------------------------------------------------------
(* The bus *)

(* EORSTI sets up the control endpoint anew and enables the setup interrupt. *)
Event ==
    /\ events < MaxEvents /\ events' = events + 1
    /\ aborts' = IF xfer \in {"off", "none"} /\ stack = <<>> THEN aborts ELSE aborts + 1

Reset ==
    /\ Event
    /\ BusReset
    /\ setup' = FALSE /\ out' = FALSE /\ in' = TRUE /\ rxstpOn' = TRUE
    /\ xfer' = "none" /\ seen' = "reset"
    /\ UNCHANGED <<asked, request, stack, baud>>

Suspend ==
    /\ Event
    /\ BusSuspend
    /\ UNCHANGED <<endpoint, request, rxstpOn, stack, baud, host>>

Wake == BusWake /\ UNCHANGED <<endpoint, request, rxstpOn, stack, baud, host, counts>>

Next ==
    \/ Handler
    \/ (\E r \in Requests : Start(r)) \/ TakeIn \/ SendOut
    \/ Reset \/ Suspend \/ Wake

Spec == Init /\ [][Next]_vars

Goes ==
    WF_vars(Handler) /\ SF_vars(StreamLast)
    /\ WF_vars(TakeIn) /\ WF_vars(SendOut) /\ WF_vars(Wake)

(* Handlers run and descriptors have an end; a host goes on with a transfer *)
(* it has not given up and resumes a bus it has suspended.                  *)
FairSpec == Spec /\ Goes
-----------------------------------------------------------------------------
(* Properties *)

Places == {"lineIn", "lineOut", "statusIn", "statusOut", "addressIn", "stream", "streamOut"}

(* Every variable keeps its range.                                          *)
ControlTypeOK ==
    /\ BusTypeOK
    /\ {setup, out, in, rxstpOn, baud} \subseteq BOOLEAN
    /\ asked \in Known \cup {"Unsupported"} /\ request \in Known \cup {"Unsupported"}
    /\ stack \in Seq([req : Known, at : Places])
    /\ xfer \in {"off", "none", "dataIn", "dataOut", "statusIn", "statusOut"}
    /\ seen \in {"reset", "address", "config", "line"} /\ events \in Nat /\ aborts \in Nat

(* Handlers pile up only where a reset of the bus came in between: the      *)
(* stack of the controller, 1 KB of RAM in all, holds at most one handler   *)
(* for each event on the bus, whatever transfers the host gives up.         *)
NestingBounded == Len(stack) <= events

(* The main loop never runs deaf: once the bus was reset, the interrupt for *)
(* the next request is enabled whenever no handler runs.                    *)
MainListens ==
    stack = <<>> /\ state \in {"Default", "Addressed", "Configured"} => rxstpOn

(* The unit agrees with the host: what the host saw acknowledged, a         *)
(* configuration and its line encoding, is in force, though handlers that a *)
(* reset interrupted go on after it.  From three resets on it need not be:  *)
(* two handlers pile up, and a SetAddress at the bottom ends after the next *)
(* configuration.                                                           *)
Agrees ==
    /\ seen \in {"config", "line"} => config = 1 /\ (frozen \/ state = "Configured")
    /\ seen = "line" => baud

SessionAgrees == events <= 2 => Agrees

(* As long as no transfer is given up every handler ends, and the main loop *)
(* runs on.                                                                 *)
HandlersEnd == stack # <<>> ~> (stack = <<>> \/ aborts > 0)

(* And every request is taken.                                              *)
RequestsTaken == setup ~> (~setup \/ aborts > 0)

(* README.md, SETLIMIT: "During normal operation the PDU will continuously  *)
(* check current flow on each port", so the main loop always runs again.    *)
SupervisionContinues == []<>(stack = <<>>)
=============================================================================
