-------------------------- MODULE UsbControlProofs --------------------------
(***************************************************************************)
(* However many resets of the bus interrupt the handlers of the control    *)
(* requests, they pile up no further than one for each, and the unit goes  *)
(* on to listen; through the first two of them it agrees with the host on  *)
(* what that saw acknowledged; and while no transfer is given up, neither  *)
(* of the two waits for the other.  For any requests and any bounds.       *)
(***************************************************************************)
EXTENDS UsbControl, SequenceTheorems, TLAPS

Frame == [req : Known, at : Places]
StackOK == stack \in Seq(Frame)

(* Handlers are as many as resets allow, one less while the interrupt for   *)
(* the next request is enabled.                                             *)
Nesting ==
    /\ Len(stack) <= events
    /\ rxstpOn => Len(stack) < events

(* Without a handler the unit is deaf only before the bus was ever reset.   *)
Deaf == config = 0 /\ ~addressed /\ state \in {"Unattached", "Powered"}
Listening == rxstpOn \/ stack # <<>> \/ Deaf

ControlInv == ControlTypeOK /\ Nesting /\ Listening

-----------------------------------------------------------------------------
(* The stack *)

LEMMA PushStack ==
    ASSUME StackOK, NEW f \in Frame
    PROVE  /\ Append(stack, f) \in Seq(Frame) /\ Append(stack, f) # <<>>
           /\ Len(Append(stack, f)) = Len(stack) + 1
<1>1. stack \in Seq(Frame) /\ Len(stack) \in Nat
  BY DEF StackOK
<1> QED BY <1>1, AppendProperties

LEMMA PopStack ==
    ASSUME StackOK, stack # <<>>
    PROVE  /\ Front(stack) \in Seq(Frame) /\ Len(Front(stack)) = Len(stack) - 1
           /\ Len(stack) \in Nat /\ Len(stack) > 0
           /\ Top.req \in Known
<1>1. Len(stack) \in Nat /\ Len(stack) > 0 /\ Len(stack) \in 1 .. Len(stack)
  BY DEF StackOK
<1>2. stack[Len(stack)] \in Frame
  BY <1>1 DEF StackOK
<1>3. Front(stack) \in Seq(Frame) /\ Len(Front(stack)) = Len(stack) - 1
  <2>1. \A k \in 1 .. Len(stack) - 1 : stack[k] \in Frame
    BY <1>1 DEF StackOK
  <2>2. 1 \in Int /\ Len(stack) - 1 \in Int
    BY <1>1
  <2>3. /\ SubSeq(stack, 1, Len(stack) - 1) \in Seq(Frame)
        /\ Len(SubSeq(stack, 1, Len(stack) - 1)) =
               IF 1 <= Len(stack) - 1 THEN Len(stack) - 1 - 1 + 1 ELSE 0
    BY <2>1, <2>2, SubSeqProperties
  <2>4. Front(stack) = SubSeq(stack, 1, Len(stack) - 1)
    BY DEF Front
  <2> DEFINE n == Len(stack)
  <2> DEFINE front == Front(stack)
  <2>5. front \in Seq(Frame) /\ Len(front) = IF 1 <= n - 1 THEN n - 1 - 1 + 1 ELSE 0
    BY <2>3, <2>4, Zenon
  <2>6. n \in Nat /\ n > 0
    BY <1>1
  <2> HIDE DEF n, front
  <2>7. Len(front) = n - 1
    BY <2>5, <2>6
  <2> QED BY <2>5, <2>7 DEF n, front
<1> QED BY <1>1, <1>2, <1>3 DEF Top, Last, Frame

LEMMA SpinStack ==
    ASSUME StackOK, stack # <<>>, NEW place \in Places, Spin(place)
    PROVE  stack' \in Seq(Frame) /\ stack' # <<>> /\ Len(stack') = Len(stack)
<1>1. [req |-> Top.req, at |-> place] \in Frame
  BY PopStack DEF Frame
<1>2. Front(stack) \in Seq(Frame) /\ Len(Front(stack)) = Len(stack) - 1 /\ Len(stack) \in Nat
  BY PopStack
<1>3. stack' = Append(Front(stack), [req |-> Top.req, at |-> place])
  BY DEF Spin
<1> HIDE DEF Top
<1> QED BY <1>1, <1>2, <1>3

(* What a step of a handler may do to the stack and the interrupt.          *)
Spins  == stack' \in Seq(Frame) /\ stack' # <<>> /\ Len(stack') = Len(stack) /\ rxstpOn' = rxstpOn
Leaves == stack' \in Seq(Frame) /\ Len(stack') = Len(stack) - 1 /\ rxstpOn'

LEMMA LeaveStack ==
    ASSUME StackOK, stack # <<>>, Leave
    PROVE  Leaves /\ rxstpOn' = TRUE
BY PopStack DEF Leave, Leaves

LEMMA HandlerKeeps ==
    ASSUME StackOK, Len(stack) \in Nat, events \in Nat, Nesting, Spins \/ Leaves,
           events' = events
    PROVE  (Nesting /\ Listening)'
BY DEF Nesting, Listening, Spins, Leaves

-----------------------------------------------------------------------------
(* Steps of a handler *)

HandlerTypes ==
    /\ {setup', out', in', rxstpOn', baud'} \subseteq BOOLEAN
    /\ BusTypeOK'

(* What a step of a handler does to the host's setup packet: nothing, or it *)
(* stalls the packet that came too late.                                    *)
Stalled == setup /\ setup' = FALSE /\ xfer' = "none"
HostKept == UNCHANGED <<setup, xfer>>

LEMMA SpinOrLeave ==
    ASSUME setup \in BOOLEAN,
           \/ LineIn \/ LineOut \/ StatusOut \/ StatusIn \/ AddressIn
           \/ StreamPacket("stream") \/ StreamLast \/ StreamEnd \/ StreamOut
    PROVE  HostKept \/ Stalled
<1>1. ASSUME NEW place, Spin(place) PROVE HostKept
  BY <1>1 DEF Spin, HostKept
<1>2. Leave => HostKept \/ Stalled
  <2>1. Leave /\ Swallows => Stalled
    BY DEF Leave, StallLate, Swallows, Stalled
  <2>2. Leave /\ ~Swallows => HostKept
    BY DEF Leave, StallLate, HostKept
  <2> QED BY <2>1, <2>2
<1>3. StatusIn => HostKept \/ Stalled
  <2>1. CASE Top.req = "SetAddress"
    BY <1>1, <2>1 DEF StatusIn, Configuring
  <2>2. CASE Top.req \in Configuring
    BY <1>2, <2>2 DEF StatusIn, Configuring
  <2>3. CASE Top.req # "SetAddress" /\ Top.req \notin Configuring
    BY <1>2, <2>3 DEF StatusIn
  <2> QED BY <2>1, <2>2, <2>3
<1>4. LineIn \/ LineOut \/ StreamPacket("stream") \/ StreamLast => HostKept \/ Stalled
  BY <1>1, <1>2 DEF LineIn, LineOut, StreamPacket, StreamLast
<1> QED BY <1>2, <1>3, <1>4 DEF StatusOut, AddressIn, StreamEnd, StreamOut

LEMMA HandlerEnd ==
    ASSUME ControlInv, Spins \/ Leaves, HandlerTypes, HostKept \/ Stalled,
           UNCHANGED <<asked, request, seen, events, aborts>>
    PROVE  ControlInv'
<1>1. StackOK /\ Len(stack) \in Nat /\ events \in Nat /\ Nesting
  BY DEF ControlInv, ControlTypeOK, StackOK, Frame
<1>2. (Nesting /\ Listening)'
  BY <1>1, HandlerKeeps
<1>3. ControlTypeOK'
  <2>1. xfer' \in {"off", "none", "dataIn", "dataOut", "statusIn", "statusOut"}
    BY DEF ControlInv, ControlTypeOK, HostKept, Stalled
  <2> QED BY <2>1 DEF ControlInv, ControlTypeOK, HandlerTypes, Spins, Leaves, Frame
<1> QED BY <1>2, <1>3 DEF ControlInv

LEMMA InitControl == Init => ControlInv
<1> SUFFICES ASSUME Init PROVE ControlInv
  OBVIOUS
<1>1. BusTypeOK
  <2>1. config \in 0 .. 1
    BY DEF Init, BusInit
  <2> QED BY <2>1 DEF Init, BusInit, BusTypeOK, States
<1>2. stack \in Seq(Frame) /\ Len(stack) = 0 /\ events = 0
  BY DEF Init
<1>3. {setup, out, in, rxstpOn, baud} \subseteq BOOLEAN
  BY DEF Init
<1>4. ControlTypeOK
  BY <1>1, <1>2, <1>3 DEF Init, ControlTypeOK, Known, Writing, Frame
<1>5. Nesting /\ Listening
  BY <1>2 DEF Init, BusInit, Nesting, Listening, Deaf
<1> QED BY <1>4, <1>5 DEF ControlInv

LEMMA InterruptKeeps == ASSUME ControlInv, Interrupt PROVE ControlInv'
<1>0. /\ StackOK /\ Len(stack) \in Nat /\ events \in Nat /\ Nesting
      /\ rxstpOn /\ rxstpOn = TRUE /\ asked \in Known \cup {"Unsupported"}
  BY DEF ControlInv, ControlTypeOK, StackOK, Frame, Interrupt
<1>1. /\ setup' = FALSE /\ request' = asked
      /\ UNCHANGED <<state, addressed, suspOn, wakeOn, frozen, out, asked, baud, seen,
                     events, aborts>>
  BY DEF Interrupt, counts
<1>2. CASE asked = "Unsupported"
  <2>1. xfer' = "none" /\ UNCHANGED <<in, config, stack, rxstpOn>>
    BY <1>2 DEF Interrupt
  <2>2. BusTypeOK'
    BY <1>1, <2>1 DEF ControlInv, ControlTypeOK, BusTypeOK
  <2> QED BY <1>0, <1>1, <2>1, <2>2 DEF ControlInv, ControlTypeOK, Nesting, Listening
<1>3. CASE asked # "Unsupported"
  <2>1. /\ stack' = Append(stack, [req |-> asked, at |-> FirstSpin(asked)])
        /\ rxstpOn' = FALSE /\ xfer' = xfer
        /\ in' = (in /\ asked # "GetShort")
        /\ config' = config \/ config' = 1 \/ config' = 0
    BY <1>3 DEF Interrupt, EnterHandler
  <2>2. [req |-> asked, at |-> FirstSpin(asked)] \in Frame
    <3>1. FirstSpin(asked) \in Places
      BY DEF FirstSpin, Places
    <3>2. asked \in Known
      BY <1>0, <1>3
    <3> QED BY <3>1, <3>2 DEF Frame
  <2>3. stack' \in Seq(Frame) /\ stack' # <<>> /\ Len(stack') = Len(stack) + 1
    BY <1>0, <2>1, <2>2, PushStack
  <2>4. (Nesting /\ Listening)'
    BY <1>0, <1>1, <2>1, <2>3 DEF Nesting, Listening
  <2>5. config' \in 0 .. 1
    BY <2>1 DEF ControlInv, ControlTypeOK, BusTypeOK
  <2>6. BusTypeOK'
    BY <1>1, <2>5 DEF ControlInv, ControlTypeOK, BusTypeOK
  <2>7. in' \in BOOLEAN
    BY <2>1
  <2> QED BY <1>1, <2>1, <2>3, <2>4, <2>6, <2>7 DEF ControlInv, ControlTypeOK, Frame
<1> QED BY <1>2, <1>3

LEMMA HandlerStepKeeps ==
    ASSUME ControlInv,
           \/ LineIn \/ LineOut \/ StatusOut \/ StatusIn \/ AddressIn
           \/ StreamPacket("stream") \/ StreamLast \/ StreamEnd \/ StreamOut
    PROVE  ControlInv'
<1>0. StackOK /\ ControlTypeOK /\ BusTypeOK
  BY DEF ControlInv, ControlTypeOK, StackOK, Frame
<1>types. {setup, out, in, rxstpOn, baud} \subseteq BOOLEAN
  BY <1>0 DEF ControlTypeOK
<1>host. (HostKept \/ Stalled) /\ setup' \in BOOLEAN
  <2>1. HostKept \/ Stalled
    BY <1>types, SpinOrLeave
  <2> QED BY <1>types, <2>1 DEF HostKept, Stalled
<1>1. CASE LineIn
  <2>1. Spins
    <3>1. StatusPlace \in Places /\ stack # <<>>
      BY <1>1 DEF StatusPlace, Places, LineIn, At
    <3> QED BY <1>0, <1>1, <3>1, SpinStack DEF LineIn, Handling, Spins
  <2>2. HandlerTypes
    BY <1>0, <1>1, <1>types, <1>host DEF LineIn, Handling, HandlerTypes, BusTypeOK
  <2> QED BY <1>1, <2>1, <2>2, <1>host, HandlerEnd DEF LineIn, Handling, counts
<1>2. CASE LineOut
  <2>1. Spins \/ Leaves
    <3>1. StatusPlace \in Places /\ stack # <<>>
      BY <1>2 DEF StatusPlace, Places, LineOut, At
    <3> QED BY <1>0, <1>2, <3>1, SpinStack, LeaveStack DEF LineOut, Spins
  <2>2. HandlerTypes
    <3>1. out' \in BOOLEAN /\ baud' \in BOOLEAN /\ rxstpOn' \in BOOLEAN
      BY <1>2, <1>types, <1>host DEF LineOut, Leave
    <3> QED BY <1>0, <1>2, <1>types, <1>host, <3>1 DEF LineOut, Handling, HandlerTypes, BusTypeOK
  <2> QED BY <1>2, <2>1, <2>2, <1>host, HandlerEnd DEF LineOut, Handling, counts
<1>3. CASE StatusOut
  <2>1. Leaves /\ rxstpOn' = TRUE
    BY <1>0, <1>3, LeaveStack DEF StatusOut, At
  <2>2. HandlerTypes
    BY <1>0, <1>3, <1>types, <1>host, <2>1 DEF StatusOut, Handling, HandlerTypes, BusTypeOK
  <2> QED BY <1>3, <2>1, <2>2, <1>host, HandlerEnd DEF StatusOut, Handling, counts
<1>4. CASE StatusIn
  <2>0. /\ stack # <<>> /\ in' = FALSE /\ "addressIn" \in Places
        /\ UNCHANGED <<out, asked, request, seen, events, aborts, config, addressed,
                       suspOn, wakeOn, frozen>>
    BY <1>4 DEF StatusIn, At, Handling, counts, Places
  <2>1. CASE Top.req = "SetAddress"
    <3>1. Spin("addressIn") /\ UNCHANGED <<state, baud, rxstpOn>>
      BY <1>4, <2>1 DEF StatusIn, Configuring
    <3>2. Spins
      BY <1>0, <2>0, <3>1, SpinStack DEF Spins
    <3>3. HandlerTypes
      BY <1>0, <1>types, <1>host, <2>0, <3>1 DEF HandlerTypes, BusTypeOK
    <3> QED BY <2>0, <3>2, <3>3, <1>host, HandlerEnd
  <2>2. CASE Top.req # "SetAddress"
    <3>1. /\ Leave
          /\ \/ state' = StateAfterConfiguration(config) /\ baud' = FALSE
             \/ UNCHANGED <<state, baud>>
      <4>1. CASE Top.req \in Configuring
        BY <1>4, <2>2, <4>1 DEF StatusIn, ForgetLine
      <4>2. CASE Top.req \notin Configuring
        BY <1>4, <2>2, <4>2 DEF StatusIn
      <4> QED BY <4>1, <4>2
    <3>2. Leaves /\ rxstpOn' = TRUE
      BY <1>0, <2>0, <3>1, LeaveStack
    <3>3. state' \in States
      BY <1>0, <3>1 DEF StateAfterConfiguration, States, BusTypeOK
    <3>4. HandlerTypes
      BY <1>0, <1>types, <1>host, <2>0, <3>1, <3>2, <3>3 DEF HandlerTypes, BusTypeOK
    <3> QED BY <2>0, <3>2, <3>4, <1>host, HandlerEnd
  <2> QED BY <2>1, <2>2
<1>5. CASE AddressIn
  <2>1. Leaves /\ rxstpOn' = TRUE
    BY <1>0, <1>5, LeaveStack DEF AddressIn, At
  <2>2. HandlerTypes
    BY <1>0, <1>5, <1>types, <1>host, <2>1
       DEF AddressIn, SetAddressState, Handling, HandlerTypes, BusTypeOK, States
  <2> QED BY <1>5, <2>1, <2>2, <1>host, HandlerEnd DEF AddressIn, Handling, counts
<1>6. CASE StreamPacket("stream") \/ StreamLast
  <2>0. PICK next \in {"stream", "streamOut"} : StreamPacket(next)
    BY <1>6 DEF StreamLast
  <2>1. Spins
    <3>1. next \in Places /\ stack # <<>>
      BY <2>0 DEF Places, StreamPacket, At
    <3> QED BY <1>0, <2>0, <3>1, SpinStack DEF StreamPacket, Handling, Spins
  <2>2. HandlerTypes
    BY <1>0, <1>types, <1>host, <2>0 DEF StreamPacket, Handling, HandlerTypes, BusTypeOK
  <2> QED BY <2>0, <2>1, <2>2, <1>host, HandlerEnd DEF StreamPacket, Handling, counts
<1>7. CASE StreamEnd \/ StreamOut
  <2>1. Leaves /\ rxstpOn' = TRUE
    BY <1>0, <1>7, LeaveStack DEF StreamEnd, StreamOut, At
  <2>2. HandlerTypes
    BY <1>0, <1>7, <1>types, <1>host, <2>1 DEF StreamEnd, StreamOut, Handling, HandlerTypes, BusTypeOK
  <2> QED BY <1>7, <2>1, <2>2, <1>host, HandlerEnd DEF StreamEnd, StreamOut, Handling, counts
<1> QED BY <1>1, <1>2, <1>3, <1>4, <1>5, <1>6, <1>7

-----------------------------------------------------------------------------
(* The host and the bus *)

LEMMA HostKeeps ==
    ASSUME ControlInv, (\E r \in Requests : Start(r)) \/ TakeIn \/ SendOut
    PROVE  ControlInv'
<1>0. UNCHANGED <<bus, rxstpOn, stack, events>>
  BY DEF Start, TakeIn, SendOut, counts
<1>1. (Nesting /\ Listening /\ BusTypeOK)'
  BY <1>0 DEF bus, ControlInv, ControlTypeOK, Nesting, Listening, Deaf, BusTypeOK
<1>2. ASSUME NEW r \in Requests, Start(r) PROVE ControlTypeOK'
  <2>1. r \in Known \cup {"Unsupported"}
    BY ControlAssumption DEF ControlAssumption
  <2>2. /\ setup' = TRUE /\ asked' = r /\ out' = FALSE /\ in' = TRUE /\ aborts' \in Nat
        /\ UNCHANGED <<request, baud>>
    BY <1>2 DEF Start, ControlInv, ControlTypeOK
  <2>3. xfer' \in {"dataIn", "dataOut", "statusIn"}
    BY <1>2 DEF Start, FirstStage
  <2>4. seen' \in {"reset", "address", "config", "line"}
    BY <1>2 DEF Start, ControlInv, ControlTypeOK
  <2> QED BY <1>0, <1>1, <2>1, <2>2, <2>3, <2>4 DEF ControlInv, ControlTypeOK
<1>3. CASE TakeIn
  <2>1. /\ in' = TRUE /\ UNCHANGED <<setup, out, asked, request, baud, aborts>>
        /\ xfer' \in {"dataIn", "statusOut", "none"}
    BY <1>3 DEF TakeIn, counts
  <2>2. seen' \in {"reset", "address", "config", "line"}
    BY <1>3 DEF TakeIn, Acknowledged, ControlInv, ControlTypeOK
  <2> QED BY <1>0, <1>1, <2>1, <2>2 DEF ControlInv, ControlTypeOK
<1>4. CASE SendOut
  <2>1. /\ out' = TRUE /\ UNCHANGED <<setup, in, asked, request, baud, seen>>
        /\ xfer' \in {"statusIn", "none"} /\ aborts' \in Nat
    BY <1>4 DEF SendOut, ControlInv, ControlTypeOK
  <2> QED BY <1>0, <1>1, <2>1 DEF ControlInv, ControlTypeOK
<1> QED BY <1>1, <1>2, <1>3, <1>4 DEF ControlInv

LEMMA BusKeeps == ASSUME ControlInv, Reset \/ Suspend \/ Wake PROVE ControlInv'
<1>0. /\ ControlTypeOK /\ BusTypeOK /\ Len(stack) \in Nat /\ events \in Nat /\ aborts \in Nat
  BY DEF ControlInv, ControlTypeOK, Frame
<1>1. CASE Reset
  <2>1. /\ events' = events + 1 /\ aborts' \in Nat /\ stack' = stack /\ rxstpOn' = TRUE
    BY <1>0, <1>1 DEF Reset, Event
  <2>2. (Nesting /\ Listening)'
    BY <1>0, <2>1 DEF ControlInv, Nesting, Listening
  <2>3. BusTypeOK'
    <3>1. config' \in 0 .. 1
      BY <1>1 DEF Reset, BusReset
    <3> QED BY <1>0, <1>1, <3>1 DEF Reset, BusReset, BusTypeOK, States
  <2>4. ControlTypeOK'
    <3>1. events' \in Nat
      BY <1>0, <2>1
    <3> QED BY <1>0, <1>1, <2>1, <2>3, <3>1 DEF Reset, ControlTypeOK
  <2> QED BY <2>2, <2>4 DEF ControlInv
<1>2. CASE Suspend
  <2>1. /\ events' = events + 1 /\ events' \in Nat /\ aborts' \in Nat
        /\ UNCHANGED <<endpoint, request, rxstpOn, stack, baud, host>>
    BY <1>0, <1>2 DEF Suspend, Event
  <2>2. BusTypeOK'
    BY <1>0, <1>2 DEF Suspend, BusSuspend, BusTypeOK, States
  <2>3. Nesting'
    BY <1>0, <2>1 DEF ControlInv, Nesting
  <2>4. Listening'
    BY <1>2, <2>1 DEF ControlInv, Suspend, BusSuspend, Listening, Deaf
  <2> QED BY <1>0, <2>1, <2>2, <2>3, <2>4 DEF ControlInv, ControlTypeOK, endpoint, host
<1>3. CASE Wake
  <2>1. UNCHANGED <<endpoint, request, rxstpOn, stack, baud, host, counts>>
    BY <1>3 DEF Wake
  <2>2. BusTypeOK'
    BY <1>0, <1>3 DEF Wake, BusWake, Resumed, BusTypeOK, States
  <2>3. (Nesting /\ Listening)'
    BY <1>3, <2>1 DEF ControlInv, Nesting, Listening, Deaf, Wake, BusWake, Resumed, counts
  <2> QED BY <1>0, <2>1, <2>2, <2>3 DEF ControlInv, ControlTypeOK, endpoint, host, counts
<1> QED BY <1>1, <1>2, <1>3

LEMMA ControlNext == ControlInv /\ [Next]_vars => ControlInv'
<1> SUFFICES ASSUME ControlInv, [Next]_vars PROVE ControlInv'
  OBVIOUS
<1>1. CASE Handler
  BY <1>1, InterruptKeeps, HandlerStepKeeps DEF Handler
<1>2. CASE (\E r \in Requests : Start(r)) \/ TakeIn \/ SendOut
  BY <1>2, HostKeeps
<1>3. CASE Reset \/ Suspend \/ Wake
  BY <1>3, BusKeeps
<1>4. CASE UNCHANGED vars
  BY <1>4 DEF vars, bus, endpoint, host, counts, ControlInv, ControlTypeOK, BusTypeOK, Nesting,
              Listening, Deaf
<1> QED BY <1>1, <1>2, <1>3, <1>4 DEF Next

LEMMA ControlInvariant == Spec => []ControlInv
BY InitControl, ControlNext, PTL DEF Spec

(* Every variable keeps its range: ControlTypeOK.                           *)
THEOREM ControlTypeCorrect == Spec => []ControlTypeOK
<1>1. ControlInv => ControlTypeOK
  BY DEF ControlInv
<1> QED BY <1>1, ControlInvariant, PTL

(* The handlers on the controller's stack are no more than the events on    *)
(* the bus, whatever the host asks and gives up: NestingBounded.            *)
THEOREM HandlersPileUpNoFurther == Spec => []NestingBounded
<1>1. ControlInv => NestingBounded
  BY DEF ControlInv, Nesting, NestingBounded
<1> QED BY <1>1, ControlInvariant, PTL

(* Once the bus was reset the main loop never runs with the interrupt for   *)
(* the next request disabled: MainListens.                                  *)
THEOREM MainAlwaysListens == Spec => []MainListens
<1>1. ControlInv => MainListens
  BY DEF ControlInv, Listening, Deaf, MainListens
<1> QED BY <1>1, ControlInvariant, PTL

-----------------------------------------------------------------------------
(* Unit and host agree *)

(* Where a handler of a read request waits.                                 *)
ReadPlaces == {"lineIn", "stream", "streamOut", "statusOut"}
TopIs(r, place) == stack # <<>> /\ Top.req = r /\ Top.at = place
Bottom == stack[1]

(* With two events at most, a handler that a reset left below another or    *)
(* behind meets no suspension any more.                                     *)
Apart == Len(stack) = 2 \/ (Len(stack) = 1 /\ rxstpOn) => state # "Unattached" /\ ~frozen

(* What is true of a handler under way.  One that waits for the bank of the *)
(* host's next packet has it, before the host goes on; but for SetAddress,  *)
(* which a reset may leave where it waits for its status packet.  That one  *)
(* ends before the host goes on from the next address.                      *)
Stands(f) ==
    /\ f.at = "lineOut" => f.req = "SetLineEncoding"
    /\ f.at \in {"lineIn", "statusIn"} => in /\ ~setup
    /\ f.at = "lineIn" => request \in Reading
    /\ f.at = "statusIn" /\ f.req = "SetAddress" => seen = "reset"
    /\ f.at = "statusIn" /\ f.req \in Configuring => seen \in {"reset", "address"}
    /\ f.at = "addressIn" /\ seen # "reset" =>
           seen = "address" /\ xfer = "none" /\ in /\ ~setup /\ Top.at = "addressIn"

Frames ==
    /\ stack # <<>> => Stands(Top)
    /\ Len(stack) = 2 => Stands(Bottom) /\ Bottom.at \notin {"lineIn", "statusIn"}

(* Where the host is in its transfer and in its session.                    *)
Transfer ==
    /\ setup => in /\ ~out /\ xfer = FirstStage(asked)
    /\ xfer = "statusIn" /\ asked = "SetAddress" => seen = "reset"
    /\ xfer = "statusIn" /\ asked \in Configuring => seen = "address"
    /\ xfer \in {"dataOut", "statusIn"} /\ asked = "SetLineEncoding" => seen \in {"config", "line"}
    /\ xfer = "dataOut" => asked = "SetLineEncoding"
    /\ xfer \in {"dataIn", "dataOut", "statusOut"} => ~out

(* Where the handler of the host's transfer is meanwhile.                   *)
ServedData ==
    /\ xfer \in {"dataIn", "statusOut"} /\ stack # <<>> => Top.at \in ReadPlaces
    /\ xfer = "dataOut" => in /\ request = "SetLineEncoding"
                           /\ (stack = <<>> \/ TopIs("SetLineEncoding", "lineOut"))
    /\ out /\ stack # <<>> => Top.at \in ReadPlaces \/ (Top.at = "lineOut" /\ in)

ServedAddress ==
    xfer = "statusIn" /\ asked = "SetAddress" =>
        TopIs("SetAddress", "statusIn") \/ (TopIs("SetAddress", "addressIn") /\ ~in)

ServedConfig ==
    xfer = "statusIn" /\ asked = "SetConfiguration1" =>
        /\ config = 1
        /\ in => TopIs("SetConfiguration1", "statusIn")
        /\ ~in => frozen \/ state = "Configured"

ServedLine ==
    xfer = "statusIn" /\ asked = "SetLineEncoding" =>
        /\ in => \/ stack = <<>>
                 \/ TopIs("SetLineEncoding", "lineOut") /\ out /\ request = "SetLineEncoding"
                 \/ TopIs("SetLineEncoding", "statusIn") /\ baud
        /\ ~in => baud

Served == ~setup => ServedData /\ ServedAddress /\ ServedConfig /\ ServedLine

Session == Apart /\ Frames /\ Transfer /\ Served /\ Agrees
SessionInv == events <= 2 => Session

(* Where a handler and a transfer begin, and what an acknowledgement says.  *)
LEMMA Beginnings ==
    ASSUME NEW r \in Known \cup {"Unsupported"}
    PROVE  /\ r \in Reading => FirstSpin(r) \in ReadPlaces /\ FirstStage(r) = "dataIn"
           /\ FirstSpin(r) = "lineIn" => r = "GetLineEncoding"
           /\ r = "SetLineEncoding" => FirstSpin(r) = "lineOut" /\ FirstStage(r) = "dataOut"
           /\ r \notin Reading /\ r # "SetLineEncoding" =>
                  FirstSpin(r) = "statusIn" /\ FirstStage(r) = "statusIn"
           /\ FirstSpin(r) = "statusIn" => r \notin Reading /\ r # "SetLineEncoding"
           /\ FirstSpin(r) = "lineOut" => r = "SetLineEncoding"
           /\ FirstSpin(r) # "addressIn"
<1>1. CASE r \in Reading
  <2>1. CASE r = "GetShort"
    BY <2>1 DEF FirstSpin, FirstStage, Reading, ReadPlaces
  <2>2. CASE r = "GetLineEncoding"
    BY <2>2 DEF FirstSpin, FirstStage, Reading, ReadPlaces
  <2>3. CASE r = "GetDescriptor"
    BY <2>3 DEF FirstSpin, FirstStage, Reading, ReadPlaces
  <2> QED BY <1>1, <2>1, <2>2, <2>3 DEF Reading
<1>2. CASE r = "SetLineEncoding"
  BY <1>2 DEF FirstSpin, FirstStage, Reading, ReadPlaces
<1>3. CASE r \notin Reading /\ r # "SetLineEncoding"
  BY <1>3 DEF FirstSpin, FirstStage, Reading, ReadPlaces
<1> QED BY <1>1, <1>2, <1>3

(* The stack has two elements at most, and the last one runs.               *)
LEMMA Short ==
    ASSUME ControlInv, events <= 2
    PROVE  /\ Len(stack) \in {0, 1, 2} /\ (rxstpOn => Len(stack) < 2)
           /\ (stack = <<>> <=> Len(stack) = 0)
           /\ Top = stack[Len(stack)]
           /\ events \in Nat /\ stack \in Seq(Frame) /\ StackOK
<1>1. stack \in Seq(Frame) /\ events \in Nat
  BY DEF ControlInv, ControlTypeOK, Frame
<1>2. Len(stack) \in Nat /\ (stack = <<>> <=> Len(stack) = 0)
  BY <1>1, EmptySeq, LenProperties
<1>3. Len(stack) <= events /\ (rxstpOn => Len(stack) < events)
  BY DEF ControlInv, Nesting
<1>4. Len(stack) \in {0, 1, 2} /\ (rxstpOn => Len(stack) < 2)
  <2> DEFINE n == Len(stack)
  <2>1. n \in Nat /\ n <= events /\ (rxstpOn => n < events)
    BY <1>2, <1>3
  <2> HIDE DEF n
  <2>2. n \in {0, 1, 2}
    BY <1>1, <2>1
  <2>3. CASE rxstpOn
    <3>1. n < events
      BY <2>1, <2>3
    <3> QED BY <1>1, <2>1, <2>2, <3>1 DEF n
  <2> QED BY <2>2, <2>3 DEF n
<1>5. Top = stack[Len(stack)] /\ StackOK
  BY <1>1 DEF Top, Last, StackOK
<1> QED BY <1>1, <1>2, <1>4, <1>5

LEMMA Below ==
    ASSUME ControlInv, events <= 2, stack # <<>>
    PROVE  \A k \in 1 .. Len(stack) - 1 : Front(stack)[k] = stack[k]
<1> DEFINE n == Len(stack)
           s == Front(stack)
<1>1. n \in {1, 2} /\ stack \in Seq(Frame)
  BY Short
<1>2. 1 \in Int /\ n - 1 \in Int /\ \A k \in 1 .. n - 1 : stack[k] \in Frame
  BY <1>1, ElementOfSeq
<1>3. \A k \in 1 .. n - 1 - 1 + 1 : SubSeq(stack, 1, n - 1)[k] = stack[1 + k - 1]
  BY <1>2, SubSeqProperties
<1>4. s = SubSeq(stack, 1, n - 1)
  BY DEF Front
<1> HIDE DEF n, s
<1>5. SUFFICES ASSUME NEW k \in 1 .. n - 1 PROVE s[k] = stack[k]
  BY DEF n, s
<1>6. k \in 1 .. n - 1 - 1 + 1 /\ 1 + k - 1 = k
  BY <1>1
<1> QED BY <1>3, <1>4, <1>6

(* What the steps of handlers do to the elements of the stack.              *)
LEMMA Pushed ==
    ASSUME ControlInv, events <= 2, NEW f \in Frame, stack' = Append(stack, f)
    PROVE  /\ Len(stack') = Len(stack) + 1 /\ stack' # <<>> /\ Top' = f
           /\ \A k \in 1 .. Len(stack) : stack'[k] = stack[k]
           /\ stack'[Len(stack) + 1] = f
<1>1. stack \in Seq(Frame)
  BY Short
<1>2. /\ Len(stack') = Len(stack) + 1 /\ stack'[Len(stack) + 1] = f /\ stack' \in Seq(Frame)
      /\ \A k \in 1 .. Len(stack) : stack'[k] = stack[k]
  BY <1>1, AppendProperties
<1>3. stack' # <<>>
  BY <1>2, Short, EmptySeq
<1> QED BY <1>2, <1>3 DEF Top, Last

LEMMA Popped ==
    ASSUME ControlInv, events <= 2, stack # <<>>, stack' = Front(stack)
    PROVE  /\ Len(stack') = Len(stack) - 1 /\ (stack' = <<>> <=> Len(stack) = 1)
           /\ \A k \in 1 .. Len(stack) - 1 : stack'[k] = stack[k]
           /\ Len(stack) = 2 => Top' = stack[1]
<1> DEFINE n == Len(stack)
<1>1. n \in {1, 2} /\ StackOK /\ stack \in Seq(Frame)
  BY Short
<1>2. Front(stack) \in Seq(Frame) /\ Len(Front(stack)) = n - 1
  BY <1>1, PopStack
<1>3. \A k \in 1 .. n - 1 : Front(stack)[k] = stack[k]
  BY Below
<1> HIDE DEF n
<1>4. stack' \in Seq(Frame) /\ Len(stack') = n - 1 /\ \A k \in 1 .. n - 1 : stack'[k] = stack[k]
  BY <1>2, <1>3
<1>5. stack' = <<>> <=> n = 1
  BY <1>1, <1>4, EmptySeq, LenProperties
<1>6. n = 2 => Top' = stack[1]
  BY <1>4 DEF Top, Last
<1> QED BY <1>4, <1>5, <1>6 DEF n

LEMMA Spun ==
    ASSUME ControlInv, events <= 2, stack # <<>>, NEW place \in Places, Spin(place)
    PROVE  /\ Len(stack') = Len(stack) /\ stack' # <<>>
           /\ \A k \in 1 .. Len(stack) - 1 : stack'[k] = stack[k]
           /\ stack'[Len(stack)] = [req |-> Top.req, at |-> place]
           /\ Top' = [req |-> Top.req, at |-> place]
<1> DEFINE n == Len(stack)
           f == [req |-> Top.req, at |-> place]
           s == Front(stack)
<1>1. n \in {1, 2} /\ StackOK /\ f \in Frame
  BY Short, PopStack DEF Frame
<1>2. s \in Seq(Frame) /\ Len(s) = n - 1
  BY <1>1, PopStack
<1>3. \A k \in 1 .. n - 1 : s[k] = stack[k]
  BY Below
<1>4. stack' = Append(s, f)
  BY DEF Spin
<1> HIDE DEF n, s, f
<1>5. /\ stack' \in Seq(Frame) /\ Len(stack') = Len(s) + 1 /\ stack'[Len(s) + 1] = f
      /\ \A k \in 1 .. Len(s) : stack'[k] = s[k]
  BY <1>1, <1>2, <1>4, AppendProperties
<1>6. Len(stack') = n /\ stack'[n] = f /\ \A k \in 1 .. n - 1 : stack'[k] = stack[k]
  BY <1>1, <1>2, <1>3, <1>5
<1>7. stack' # <<>>
  BY <1>1, <1>5, <1>6, EmptySeq
<1>8. Top' = f
  BY <1>6 DEF Top, Last
<1> QED BY <1>6, <1>7, <1>8 DEF n, f

(* The same in terms of the two handlers there can be.                      *)
LEMMA Heights ==
    ASSUME ControlInv, events <= 2
    PROVE  /\ Len(stack) \in {0, 1, 2} /\ (stack = <<>> <=> Len(stack) = 0)
           /\ rxstpOn => Len(stack) \in {0, 1}
BY Short

LEMMA Push ==
    ASSUME ControlInv, events <= 2, Len(stack) \in {0, 1},
           NEW f \in Frame, stack' = Append(stack, f)
    PROVE  /\ stack' # <<>> /\ Top' = f
           /\ \/ Len(stack) = 0 /\ Len(stack') = 1
              \/ Len(stack) = 1 /\ Len(stack') = 2 /\ Bottom' = Top
<1>1. /\ Len(stack') = Len(stack) + 1 /\ stack' # <<>> /\ Top' = f
      /\ \A k \in 1 .. Len(stack) : stack'[k] = stack[k]
  BY Pushed
<1>2. Len(stack) = 1 => Bottom' = Top
  BY <1>1, Short DEF Bottom
<1> QED BY <1>1, <1>2

LEMMA Pop ==
    ASSUME ControlInv, events <= 2, stack # <<>>, stack' = Front(stack)
    PROVE  \/ Len(stack) = 1 /\ Len(stack') = 0 /\ stack' = <<>>
           \/ Len(stack) = 2 /\ Len(stack') = 1 /\ stack' # <<>> /\ Top' = Bottom
<1>1. /\ Len(stack') = Len(stack) - 1 /\ (stack' = <<>> <=> Len(stack) = 1)
      /\ Len(stack) = 2 => Top' = stack[1]
  BY Popped
<1>2. Len(stack) \in {1, 2}
  BY Heights
<1> QED BY <1>1, <1>2 DEF Bottom

LEMMA Turn ==
    ASSUME ControlInv, events <= 2, stack # <<>>, NEW place \in Places, Spin(place)
    PROVE  /\ Len(stack') = Len(stack) /\ stack' # <<>>
           /\ Top'.req = Top.req /\ Top'.at = place
           /\ Len(stack) = 2 => Bottom' = Bottom
<1>1. /\ Len(stack') = Len(stack) /\ stack' # <<>>
      /\ \A k \in 1 .. Len(stack) - 1 : stack'[k] = stack[k]
      /\ Top' = [req |-> Top.req, at |-> place]
  BY Spun
<1>2. Top'.req = Top.req /\ Top'.at = place
  BY <1>1
<1>3. Len(stack) = 2 => stack'[1] = stack[1]
  BY <1>1
<1> QED BY <1>1, <1>2, <1>3 DEF Bottom

-----------------------------------------------------------------------------
(* The steps of a handler *)

LEMMA TransferKeeps ==
    ASSUME Transfer, UNCHANGED <<setup, asked, xfer, seen>>, out' = out \/ out' = FALSE,
           setup => in' = in
    PROVE  Transfer'
<1>1. FirstStage(asked)' = FirstStage(asked)
  <2>1. asked' = asked
    OBVIOUS
  <2> QED BY <2>1 DEF FirstStage
<1>2. (setup => in /\ ~out /\ xfer = FirstStage(asked))'
  BY <1>1 DEF Transfer
<1> QED BY <1>2 DEF Transfer

LEMMA TransferEnds ==
    ASSUME Transfer, UNCHANGED <<asked, seen, in>>, out' = out \/ out' = FALSE,
           HostKept \/ Stalled
    PROVE  Transfer'
<1>1. CASE HostKept
  BY <1>1, TransferKeeps DEF HostKept
<1>2. CASE Stalled
  BY <1>2 DEF Stalled, Transfer
<1> QED BY <1>1, <1>2

(* A stalled packet leaves nothing to serve.                                *)
LEMMA StallServed ==
    ASSUME Transfer, Stalled, out' = out \/ out' = FALSE
    PROVE  Served'
<1>1. setup /\ ~out /\ ~out' /\ xfer' = "none"
  BY DEF Stalled, Transfer
<1> QED BY <1>1 DEF Served, ServedData, ServedAddress, ServedConfig, ServedLine

(* A packet of an answer is handed over.                                    *)
LEMMA PacketAgrees ==
    ASSUME ControlInv, events <= 2, Session, LineIn \/ StreamPacket("stream") \/ StreamLast
    PROVE  Session'
<1>0. /\ Len(stack) \in {1, 2} /\ stack # <<>> /\ (rxstpOn => Len(stack) \in {0, 1})
      /\ Top.at \in {"lineIn", "stream"}
  BY Heights DEF LineIn, StreamPacket, StreamLast, At
<1>1. ~setup
  BY <1>0 DEF Session, Frames, Stands, StreamPacket, StreamLast, Broken, LineIn, At
<1>2. PICK place \in {"stream", "streamOut", "statusOut"} : Spin(place)
  <2>1. LineIn => Spin("statusOut")
    BY <1>0 DEF Session, Frames, Stands, LineIn, At, StatusPlace
  <2> QED BY <2>1 DEF StreamPacket, StreamLast
<1>3. /\ Len(stack') = Len(stack) /\ stack' # <<>>
      /\ Top'.req = Top.req /\ Top'.at = place
      /\ Len(stack) = 2 => Bottom' = Bottom
  <2>1. place \in Places
    BY DEF Places
  <2> QED BY <1>0, <1>2, <2>1, Turn
<1>4. /\ in /\ in' = FALSE
      /\ UNCHANGED <<state, config, frozen, setup, out, asked, request, rxstpOn, baud, xfer, seen>>
  BY <1>2 DEF LineIn, StreamPacket, StreamLast, Handling, Spin
<1>5. Apart' /\ Agrees'
  BY <1>0, <1>3, <1>4 DEF Session, Apart, Agrees
<1>6. Transfer'
  BY <1>1, <1>4, TransferKeeps DEF Session
<1>7. Frames'
  BY <1>0, <1>3, <1>4 DEF Session, Frames, Stands
<1>8. Served'
  BY <1>0, <1>1, <1>3, <1>4 DEF Session, Served, ServedData, ServedAddress, ServedConfig, ServedLine,
     TopIs, ReadPlaces
<1> QED BY <1>5, <1>6, <1>7, <1>8 DEF Session

(* The data of SetLineEncoding is taken.                                    *)
LEMMA LineOutAgrees ==
    ASSUME ControlInv, events <= 2, Session, LineOut, out
    PROVE  Session'
<1>0. /\ Len(stack) \in {1, 2} /\ stack # <<>> /\ (rxstpOn => Len(stack) \in {0, 1})
      /\ Top.at = "lineOut"
  BY Heights DEF LineOut, At
<1>1. ~setup /\ in /\ Top.req = "SetLineEncoding"
  BY <1>0 DEF Session, Transfer, Frames, Stands, Served, ServedData, ReadPlaces
<1>2. /\ Spin(StatusPlace) /\ out' = FALSE /\ baud' = TRUE
      /\ UNCHANGED <<state, config, frozen, setup, in, asked, request, rxstpOn, xfer, seen>>
  <2>1. ~(~out /\ state = "Unattached" /\ Leave)
    OBVIOUS
  <2> QED BY <2>1 DEF LineOut, Handling, Spin
<1>3. /\ StatusPlace \in {"statusOut", "statusIn"}
      /\ request = "SetLineEncoding" => StatusPlace = "statusIn"
  BY DEF StatusPlace, Reading
<1>4. PICK place \in {"statusOut", "statusIn"} :
          Spin(place) /\ (request = "SetLineEncoding" => place = "statusIn")
  BY <1>2, <1>3
<1>5. /\ Len(stack') = Len(stack) /\ stack' # <<>>
      /\ Top'.req = Top.req /\ Top'.at = place
      /\ Len(stack) = 2 => Bottom' = Bottom
  <2>1. place \in Places
    BY DEF Places
  <2> QED BY <1>0, <1>4, <2>1, Turn
<1>6. Apart' /\ Agrees'
  BY <1>0, <1>2, <1>5 DEF Session, Apart, Agrees
<1>7. Transfer'
  BY <1>1, <1>2, TransferKeeps DEF Session
<1>8. Frames'
  BY <1>0, <1>1, <1>2, <1>5 DEF Session, Frames, Stands, Configuring
<1>9. Served'
  BY <1>0, <1>1, <1>2, <1>4, <1>5 DEF Session, Transfer, Served, ServedData, ServedAddress,
     ServedConfig, ServedLine, TopIs, ReadPlaces
<1> QED BY <1>6, <1>7, <1>8, <1>9 DEF Session

(* A handler ends after a read, or because the bus or the host is gone.     *)
LEMMA EndAgrees ==
    ASSUME ControlInv, events <= 2, Session,
           StatusOut \/ StreamEnd \/ StreamOut \/ (LineOut /\ ~out)
    PROVE  Session'
<1>0. /\ Len(stack) \in {1, 2} /\ stack # <<>> /\ (rxstpOn => Len(stack) \in {0, 1})
      /\ Top.at \in {"statusOut", "stream", "streamOut", "lineOut"}
  BY Heights DEF StatusOut, StreamEnd, StreamOut, LineOut, At
<1>1. /\ stack' = Front(stack) /\ rxstpOn' = TRUE /\ (out' = FALSE \/ (out' = out /\ ~out))
      /\ UNCHANGED <<state, config, frozen, in, asked, request, baud, seen>>
      /\ HostKept \/ Stalled
  <2>1. HostKept \/ Stalled
    BY SpinOrLeave DEF ControlInv, ControlTypeOK
  <2> QED BY <2>1 DEF StatusOut, StreamEnd, StreamOut, LineOut, Leave, Handling
<1>2. state = "Unattached" \/ (Top.at # "lineOut" /\ (setup \/ out))
  BY DEF StatusOut, StreamEnd, StreamOut, LineOut, Broken, At
<1>3. \/ Len(stack) = 1 /\ Len(stack') = 0 /\ stack' = <<>>
      \/ Len(stack) = 2 /\ Len(stack') = 1 /\ stack' # <<>> /\ Top' = Bottom
  BY <1>0, <1>1, Pop
<1>4. Apart' /\ Agrees'
  BY <1>0, <1>1, <1>3 DEF Session, Apart, Agrees
<1>5. Transfer'
  BY <1>1, TransferEnds DEF Session
<1>6. Frames'
  <2>1. CASE Len(stack) = 2 /\ Len(stack') = 1 /\ stack' # <<>> /\ Top' = Bottom
    <3>1. Stands(Bottom) /\ Bottom.at \notin {"lineIn", "statusIn"}
      BY <2>1 DEF Session, Frames
    <3>2. Stands(Top)'
      BY <1>0, <1>1, <2>1, <3>1 DEF Stands, HostKept, Stalled
    <3> QED BY <2>1, <3>2 DEF Frames
  <2>2. CASE Len(stack') = 0 /\ stack' = <<>>
    BY <2>2 DEF Frames
  <2> QED BY <1>3, <2>1, <2>2
<1>7. Served'
  <2>0. SUFFICES ASSUME HostKept PROVE Served'
    BY <1>1, StallServed DEF Session
  <2>1. CASE state = "Unattached"
    <3>1. stack' = <<>>
      BY <1>3, <2>1 DEF Session, Apart
    <3>2. CASE setup
      BY <1>1, <2>0, <3>2 DEF Served, HostKept
    <3>3. CASE ~setup
      BY <1>0, <1>1, <2>0, <3>1, <3>3 DEF Session, Served, ServedData, ServedAddress, ServedConfig,
              ServedLine, TopIs, ReadPlaces, HostKept
    <3> QED BY <3>2, <3>3
  <2>2. CASE setup
    BY <1>1, <2>0, <2>2 DEF Served, HostKept
  <2>3. CASE Top.at # "lineOut" /\ out
    <3>1. ~setup
      BY <2>3 DEF Session, Transfer
    <3> QED BY <1>0, <1>1, <1>3, <2>0, <2>3, <3>1 DEF Session, Transfer, Served, ServedData,
            ServedAddress, ServedConfig, ServedLine, TopIs, ReadPlaces, HostKept
  <2> QED BY <1>2, <2>1, <2>2, <2>3
<1> QED BY <1>4, <1>5, <1>6, <1>7 DEF Session

(* The status packet of a write is handed over.                             *)
LEMMA StatusInAgrees ==
    ASSUME ControlInv, events <= 2, Session, StatusIn
    PROVE  Session'
<1>0. /\ Len(stack) \in {1, 2} /\ stack # <<>> /\ (rxstpOn => Len(stack) \in {0, 1})
      /\ Top.at = "statusIn"
  BY Heights DEF StatusIn, At
<1>1. ~setup /\ in
  BY <1>0 DEF Session, Frames, Stands
<1>2. ~out /\ xfer \notin {"dataIn", "dataOut", "statusOut"}
  BY <1>0, <1>1 DEF Session, Served, ServedData, ReadPlaces, TopIs
<1>3. /\ in' = FALSE
      /\ UNCHANGED <<config, frozen, addressed, setup, out, asked, request, xfer, seen>>
  <2>1. HostKept
    BY <1>1, SpinOrLeave DEF ControlInv, ControlTypeOK, Stalled
  <2> QED BY <2>1 DEF StatusIn, Handling, HostKept
<1>4. Transfer'
  BY <1>1, <1>3, TransferKeeps DEF Session
<1>5. CASE Top.req = "SetAddress"
  <2>1. Spin("addressIn") /\ UNCHANGED <<state, baud, rxstpOn>> /\ "addressIn" \in Places
    BY <1>5 DEF StatusIn, Configuring, Places
  <2>2. /\ Len(stack') = Len(stack) /\ stack' # <<>>
        /\ Top'.req = Top.req /\ Top'.at = "addressIn"
        /\ Len(stack) = 2 => Bottom' = Bottom
    BY <1>0, <2>1, Turn
  <2>3. Apart' /\ Agrees'
    BY <1>0, <1>3, <2>1, <2>2 DEF Session, Apart, Agrees
  <2>4. Frames'
    BY <1>0, <1>3, <1>5, <2>1, <2>2 DEF Session, Frames, Stands
  <2>5. Served'
    BY <1>0, <1>1, <1>2, <1>3, <1>5, <2>1, <2>2 DEF Session, Served, ServedData, ServedAddress,
       ServedConfig, ServedLine, TopIs, ReadPlaces
  <2> QED BY <1>4, <2>3, <2>4, <2>5 DEF Session
<1>6. CASE Top.req # "SetAddress"
  <2>1. /\ stack' = Front(stack) /\ rxstpOn' = TRUE
        /\ \/ Top.req \in Configuring /\ state' = StateAfterConfiguration(config) /\ baud' = FALSE
           \/ Top.req \notin Configuring /\ UNCHANGED <<state, baud>>
    <3>1. CASE Top.req \in Configuring
      BY <1>6, <3>1 DEF StatusIn, ForgetLine, Leave
    <3>2. CASE Top.req \notin Configuring
      BY <1>6, <3>2 DEF StatusIn, Leave
    <3> QED BY <3>1, <3>2
  <2>2. \/ Len(stack) = 1 /\ Len(stack') = 0 /\ stack' = <<>>
        \/ Len(stack) = 2 /\ Len(stack') = 1 /\ stack' # <<>> /\ Top' = Bottom
    BY <1>0, <2>1, Pop
  <2>3. /\ StateAfterConfiguration(config) # "Unattached"
        /\ config = 1 => StateAfterConfiguration(config) = "Configured"
    BY DEF StateAfterConfiguration
  <2>4. Frames'
    BY <1>0, <1>3, <2>1, <2>2 DEF Session, Frames, Stands
  <2>5. Apart' /\ Agrees'
    BY <1>0, <1>3, <2>1, <2>2, <2>3 DEF Session, Apart, Agrees, Frames, Stands
  <2>6. Served'
    BY <1>0, <1>1, <1>2, <1>3, <1>6, <2>1, <2>2, <2>3 DEF Session, Served, ServedData,
       ServedAddress, ServedConfig, ServedLine, TopIs, ReadPlaces, Configuring
  <2> QED BY <1>4, <2>4, <2>5, <2>6 DEF Session
<1> QED BY <1>5, <1>6

(* The new address is in force.                                             *)
LEMMA AddressInAgrees ==
    ASSUME ControlInv, events <= 2, Session, AddressIn
    PROVE  Session'
<1>0. /\ Len(stack) \in {1, 2} /\ stack # <<>> /\ (rxstpOn => Len(stack) \in {0, 1})
      /\ Top.at = "addressIn" /\ in
  BY Heights DEF AddressIn, At
<1>1. /\ stack' = Front(stack) /\ rxstpOn' = TRUE /\ state' = "Addressed"
      /\ UNCHANGED <<config, frozen, out, in, asked, request, baud, seen>>
      /\ HostKept \/ Stalled
  <2>1. HostKept \/ Stalled
    BY SpinOrLeave DEF ControlInv, ControlTypeOK
  <2> QED BY <2>1 DEF AddressIn, SetAddressState, Leave, Handling
<1>2. \/ Len(stack) = 1 /\ Len(stack') = 0 /\ stack' = <<>>
      \/ Len(stack) = 2 /\ Len(stack') = 1 /\ stack' # <<>> /\ Top' = Bottom
  BY <1>0, <1>1, Pop
<1>3. Apart' /\ Agrees'
  BY <1>0, <1>1, <1>2 DEF Session, Apart, Agrees, Frames, Stands
<1>4. Transfer'
  BY <1>1, TransferEnds DEF Session
<1>5. Frames'
  BY <1>0, <1>1, <1>2 DEF Session, Frames, Stands, HostKept, Stalled
<1>6. Served'
  <2>1. CASE Stalled
    BY <1>1, <2>1, StallServed DEF Session
  <2>2. CASE HostKept
    BY <1>0, <1>1, <1>2, <2>2 DEF Session, Served, ServedData, ServedAddress, ServedConfig,
       ServedLine, TopIs, ReadPlaces, HostKept
  <2> QED BY <1>1, <2>1, <2>2
<1> QED BY <1>3, <1>4, <1>5, <1>6 DEF Session

(* A request is taken.                                                      *)
LEMMA InterruptAgrees ==
    ASSUME ControlInv, events <= 2, Session, Interrupt
    PROVE  Session'
<1>0. /\ Len(stack) \in {0, 1} /\ (stack = <<>> <=> Len(stack) = 0)
      /\ setup /\ ~frozen /\ rxstpOn
  BY Heights DEF Interrupt
<1>1. /\ setup' = FALSE /\ request' = asked
      /\ UNCHANGED <<state, frozen, out, asked, baud, seen>>
  BY DEF Interrupt
<1>2. in /\ ~out /\ xfer = FirstStage(asked)
  BY <1>0 DEF Session, Transfer
<1>3. asked \in Known \cup {"Unsupported"}
  BY DEF ControlInv, ControlTypeOK
<1>4. /\ stack # <<>> => Top.at \notin {"lineIn", "statusIn"}
      /\ stack # <<>> /\ Top.at = "addressIn" => seen = "reset"
  BY <1>0 DEF Session, Frames, Stands
<1>5. CASE asked = "Unsupported"
  <2>1. xfer' = "none" /\ UNCHANGED <<in, config, stack, rxstpOn>>
    BY <1>5 DEF Interrupt
  <2>2. Top' = Top
    BY <2>1 DEF Top
  <2>3. Apart' /\ Agrees'
    BY <1>1, <2>1 DEF Session, Apart, Agrees
  <2>4. Frames'
    BY <1>0, <1>1, <1>4, <2>1, <2>2 DEF Session, Frames, Stands
  <2>5. Transfer' /\ Served'
    BY <1>1, <1>2, <2>1 DEF Transfer, Served, ServedData, ServedAddress, ServedConfig, ServedLine
  <2> QED BY <2>3, <2>4, <2>5 DEF Session
<1>6. CASE asked # "Unsupported"
  <2> DEFINE f == [req |-> asked, at |-> FirstSpin(asked)]
  <2>1. /\ stack' = Append(stack, f) /\ rxstpOn' = FALSE /\ xfer' = xfer
        /\ in' = (in /\ asked # "GetShort")
        /\ config' = IF asked \in Configuring
                     THEN IF asked = "SetConfiguration1" THEN 1 ELSE 0 ELSE config
    BY <1>6 DEF Interrupt, EnterHandler
  <2>2. f \in Frame
    BY <1>3, <1>6 DEF FirstSpin, Places, Frame
  <2>3. /\ stack' # <<>> /\ Top' = f
        /\ \/ Len(stack) = 0 /\ Len(stack') = 1
           \/ Len(stack) = 1 /\ Len(stack') = 2 /\ Bottom' = Top
    BY <1>0, <2>1, <2>2, Push
  <2>4. Top'.req = asked /\ Top'.at = FirstSpin(asked)
    BY <2>3
  <2> HIDE DEF f
  <2>5. /\ asked \in Reading => FirstSpin(asked) \in ReadPlaces /\ FirstStage(asked) = "dataIn"
        /\ FirstSpin(asked) = "lineIn" => asked = "GetLineEncoding"
        /\ asked = "SetLineEncoding" =>
               FirstSpin(asked) = "lineOut" /\ FirstStage(asked) = "dataOut"
        /\ asked \notin Reading /\ asked # "SetLineEncoding" =>
               FirstSpin(asked) = "statusIn" /\ FirstStage(asked) = "statusIn"
        /\ FirstSpin(asked) = "statusIn" => asked \notin Reading /\ asked # "SetLineEncoding"
        /\ FirstSpin(asked) = "lineOut" => asked = "SetLineEncoding"
        /\ FirstSpin(asked) # "addressIn"
    BY <1>3, Beginnings
  <2>6. FirstSpin(asked) \in {"lineIn", "statusIn"} => in'
    BY <1>2, <2>1, <2>5 DEF Reading
  <2>7. asked \in Configuring => seen = "address"
    <3>1. asked \in Configuring => asked \notin Reading /\ asked # "SetLineEncoding"
      BY DEF Configuring, Reading
    <3> QED BY <1>2, <2>5, <3>1 DEF Session, Transfer
  <2>8. asked = "SetAddress" => seen = "reset"
    BY <1>2, <2>5 DEF Session, Transfer, Reading
  <2>9. Apart' /\ Agrees'
    BY <1>0, <1>1, <2>1, <2>3, <2>7 DEF Session, Apart, Agrees
  <2>10. Transfer'
    BY <1>1, <2>1 DEF Session, Transfer
  <2>11. Frames'
    <3>1. Stands(Top)'
      BY <1>1, <2>4, <2>5, <2>6, <2>7, <2>8 DEF Stands, Reading
    <3>2. Len(stack') = 2 => (Stands(Bottom) /\ Bottom.at \notin {"lineIn", "statusIn"})'
      BY <1>0, <1>1, <1>4, <2>3 DEF Session, Frames, Stands
    <3> QED BY <3>1, <3>2 DEF Frames
  <2>12. Served'
    <3>1. ServedData'
      BY <1>1, <1>2, <2>1, <2>3, <2>4, <2>5 DEF ServedData, TopIs, Reading
    <3>2. ServedAddress'
      BY <1>1, <2>3, <2>4, <2>5 DEF ServedAddress, TopIs, Reading
    <3>3. ServedConfig'
      BY <1>1, <1>2, <2>1, <2>3, <2>4, <2>5 DEF ServedConfig, TopIs, Reading, Configuring
    <3>4. ServedLine'
      BY <1>1, <1>2, <2>1, <2>5 DEF ServedLine
    <3> QED BY <3>1, <3>2, <3>3, <3>4 DEF Served
  <2> QED BY <2>9, <2>10, <2>11, <2>12 DEF Session
<1> QED BY <1>5, <1>6

-----------------------------------------------------------------------------
(* The steps of the host and of the bus *)

LEMMA StartAgrees ==
    ASSUME ControlInv, events <= 2, Session, NEW r \in Requests, Start(r)
    PROVE  Session'
<1>0. /\ setup' = TRUE /\ asked' = r /\ out' = FALSE /\ in' = TRUE
      /\ xfer' = FirstStage(r) /\ seen' = IF r \in Configuring THEN "address" ELSE seen
      /\ UNCHANGED <<state, config, frozen, request, rxstpOn, stack, baud>>
  BY DEF Start, bus
<1>1. Sensible(r) /\ ~setup /\ ~Busy /\ r \in Known \cup {"Unsupported"}
  BY ControlAssumption DEF Start, ControlAssumption
<1>2. Top' = Top /\ Bottom' = Bottom
  BY <1>0 DEF Top, Bottom
<1>3. in /\ stack # <<>> => Top.at \notin {"lineIn", "addressIn", "statusIn"}
  BY <1>1 DEF Busy
<1>4. Len(stack) = 2 => stack # <<>>
  BY Heights
<1>5. Apart' /\ Agrees'
  BY <1>0, <1>1 DEF Session, Apart, Agrees
<1>6. Frames'
  <2>1. stack # <<>> => Stands(Top)'
    BY <1>0, <1>1, <1>2, <1>3 DEF Session, Frames, Stands, Sensible
  <2>2. Len(stack) = 2 => Stands(Bottom)' /\ (Bottom.at \notin {"lineIn", "statusIn"})'
    BY <1>0, <1>1, <1>2, <1>3, <1>4 DEF Session, Frames, Stands, Sensible
  <2> QED BY <1>0, <2>1, <2>2 DEF Frames
<1>7. Transfer'
  <2>1. FirstStage(asked)' = FirstStage(r)
    BY <1>0
  <2>2. FirstStage(r) = "dataOut" => r = "SetLineEncoding"
    BY <1>1, Beginnings
  <2>3. (setup => in /\ ~out /\ xfer = FirstStage(asked))'
    BY <1>0, <2>1
  <2> QED BY <1>0, <1>1, <2>2, <2>3 DEF Transfer, Sensible, Configuring
<1>8. Served'
  BY <1>0 DEF Served
<1> QED BY <1>5, <1>6, <1>7, <1>8 DEF Session

LEMMA TakeInAgrees ==
    ASSUME ControlInv, events <= 2, Session, TakeIn
    PROVE  Session'
<1>0. /\ ~setup /\ ~in /\ in' = TRUE
      /\ UNCHANGED <<state, config, frozen, setup, out, asked, request, rxstpOn, stack, baud>>
  BY DEF TakeIn, bus
<1>1. Top' = Top /\ Bottom' = Bottom
  BY <1>0 DEF Top, Bottom
<1>2. /\ stack # <<>> => Top.at \notin {"lineIn", "statusIn"}
      /\ stack # <<>> /\ Top.at = "addressIn" => seen = "reset"
      /\ Len(stack) = 2 /\ Bottom.at = "addressIn" => seen = "reset"
  BY <1>0 DEF Session, Frames, Stands
<1>3. CASE xfer = "dataIn"
  <2>1. xfer' \in {"dataIn", "statusOut"} /\ seen' = seen
    BY <1>3 DEF TakeIn
  <2>2. Apart' /\ Agrees'
    BY <1>0, <2>1 DEF Session, Apart, Agrees
  <2>3. Frames'
    BY <1>0, <1>1, <1>2, <2>1 DEF Session, Frames, Stands
  <2>4. Transfer'
    BY <1>0, <1>3, <2>1 DEF Session, Transfer
  <2>5. Served'
    BY <1>0, <1>1, <1>3, <2>1 DEF Session, Served, ServedData, ServedAddress, ServedConfig,
       ServedLine
  <2> QED BY <2>2, <2>3, <2>4, <2>5 DEF Session
<1>4. CASE xfer = "statusIn"
  <2>1. xfer' = "none" /\ seen' = Acknowledged(asked)
    BY <1>4 DEF TakeIn
  <2>2. \/ asked = "SetAddress" /\ seen' = "address" /\ seen = "reset"
        \/ asked = "SetConfiguration1" /\ seen' = "config" /\ seen = "address"
        \/ asked = "SetLineEncoding" /\ seen' = "line" /\ seen \in {"config", "line"}
        \/ seen' = seen
    <3>1. CASE asked = "SetAddress"
      BY <1>4, <2>1, <3>1 DEF Acknowledged, Session, Transfer
    <3>2. CASE asked = "SetConfiguration1"
      BY <1>4, <2>1, <3>2 DEF Acknowledged, Session, Transfer, Configuring
    <3>3. CASE asked = "SetLineEncoding"
      BY <1>4, <2>1, <3>3 DEF Acknowledged, Session, Transfer
    <3>4. CASE asked \notin {"SetAddress", "SetConfiguration1", "SetLineEncoding"}
      BY <2>1, <3>4 DEF Acknowledged
    <3> QED BY <3>1, <3>2, <3>3, <3>4
  <2>3. asked = "SetAddress" => stack # <<>> /\ Top.at = "addressIn"
    BY <1>0, <1>2, <1>4 DEF Session, Served, ServedAddress, TopIs
  <2>4. asked = "SetConfiguration1" => config = 1 /\ (frozen \/ state = "Configured")
    BY <1>0, <1>4 DEF Session, Served, ServedConfig
  <2>5. asked = "SetLineEncoding" => baud
    BY <1>0, <1>4 DEF Session, Served, ServedLine
  <2>6. Agrees'
    BY <1>0, <2>2, <2>4, <2>5 DEF Session, Agrees
  <2>7. Frames'
    <3>1. stack # <<>> => Stands(Top)'
      BY <1>0, <1>1, <1>2, <2>1, <2>2, <2>3 DEF Session, Frames, Stands
    <3>2. Len(stack) = 2 => Stands(Bottom)' /\ (Bottom.at \notin {"lineIn", "statusIn"})'
      BY <1>0, <1>1, <1>2, <2>1, <2>2, <2>3 DEF Session, Frames, Stands
    <3> QED BY <1>0, <3>1, <3>2 DEF Frames
  <2>8. Apart' /\ Transfer'
    BY <1>0, <2>1 DEF Session, Apart, Transfer
  <2>9. Served'
    BY <1>0, <1>1, <2>1 DEF Session, Served, ServedData, ServedAddress, ServedConfig, ServedLine
  <2> QED BY <2>6, <2>7, <2>8, <2>9 DEF Session
<1> QED BY <1>3, <1>4 DEF TakeIn

LEMMA SendOutAgrees ==
    ASSUME ControlInv, events <= 2, Session, SendOut
    PROVE  Session'
<1>0. /\ ~setup /\ ~out /\ out' = TRUE
      /\ UNCHANGED <<state, config, frozen, setup, in, asked, request, rxstpOn, stack, baud, seen>>
  BY DEF SendOut, bus
<1>1. \/ xfer = "dataOut" /\ xfer' = "statusIn"
      \/ xfer \in {"statusOut", "dataIn"} /\ xfer' = "none"
  BY DEF SendOut
<1>2. Top' = Top /\ Bottom' = Bottom
  BY <1>0 DEF Top, Bottom
<1>3. Apart' /\ Agrees'
  BY <1>0 DEF Session, Apart, Agrees
<1>4. Frames'
  <2>1. stack # <<>> => Stands(Top)'
    BY <1>0, <1>1, <1>2 DEF Session, Frames, Stands
  <2>2. Len(stack) = 2 => Stands(Bottom)' /\ (Bottom.at \notin {"lineIn", "statusIn"})'
    BY <1>0, <1>1, <1>2 DEF Session, Frames, Stands
  <2> QED BY <1>0, <2>1, <2>2 DEF Frames
<1>5. Transfer'
  BY <1>0, <1>1 DEF Session, Transfer, Configuring
<1>6. Served'
  <2>1. CASE xfer = "dataOut"
    <3>1. /\ in /\ request = "SetLineEncoding" /\ asked = "SetLineEncoding"
          /\ stack = <<>> \/ TopIs("SetLineEncoding", "lineOut")
      BY <1>0, <2>1 DEF Session, Transfer, Served, ServedData
    <3> QED BY <1>0, <1>1, <1>2, <2>1, <3>1 DEF Served, ServedData, ServedAddress,
            ServedConfig, ServedLine, TopIs
  <2>2. CASE xfer \in {"statusOut", "dataIn"}
    BY <1>0, <1>1, <1>2, <2>2 DEF Session, Served, ServedData, ServedAddress, ServedConfig,
       ServedLine
  <2> QED BY <1>1, <2>1, <2>2
<1> QED BY <1>3, <1>4, <1>5, <1>6 DEF Session

LEMMA BusAgrees ==
    ASSUME ControlInv, events' <= 2, events <= 2, Session, Reset \/ Suspend \/ Wake
    PROVE  Session'
<1>0. Reset \/ Suspend => Len(stack) \in {0, 1} /\ (rxstpOn => Len(stack) = 0)
  <2>1. ASSUME Reset \/ Suspend PROVE events \in {0, 1}
    <3>1. events \in Nat /\ events' = events + 1
      BY <2>1, Short DEF Reset, Suspend, Event
    <3> QED BY <3>1
  <2>2. Len(stack) \in {0, 1, 2} /\ Len(stack) <= events /\ (rxstpOn => Len(stack) < events)
    BY Heights DEF ControlInv, Nesting
  <2> DEFINE n == Len(stack)
  <2> HIDE DEF n
  <2>3. n \in {0, 1, 2} /\ n <= events /\ (rxstpOn => n < events)
    BY <2>2 DEF n
  <2>4. ASSUME Reset \/ Suspend PROVE n \in {0, 1} /\ (rxstpOn => n = 0)
    <3>1. n \in {0, 1}
      BY <2>1, <2>3, <2>4
    <3>2. CASE rxstpOn
      <4>1. n < events
        BY <2>3, <3>2
      <4> QED BY <2>1, <2>4, <3>1, <4>1
    <3> QED BY <3>1, <3>2
  <2> QED BY <2>4 DEF n
<1>1. UNCHANGED <<asked, request, stack, baud>>
  BY DEF Reset, Suspend, Wake, endpoint
<1>2. Top' = Top /\ Bottom' = Bottom
  BY <1>1 DEF Top, Bottom
<1>3. CASE Reset
  <2>1. /\ setup' = FALSE /\ out' = FALSE /\ in' = TRUE /\ rxstpOn' = TRUE
        /\ xfer' = "none" /\ seen' = "reset"
        /\ ~frozen /\ frozen' = frozen /\ state' = "Default"
    BY <1>3 DEF Reset, BusReset
  <2>2. Apart' /\ Agrees'
    BY <2>1 DEF Apart, Agrees
  <2>3. Frames'
    BY <1>0, <1>1, <1>2, <1>3, <2>1 DEF Session, Frames, Stands
  <2>4. Transfer' /\ Served'
    BY <2>1 DEF Transfer, Served, ServedData, ServedAddress, ServedConfig, ServedLine
  <2> QED BY <2>2, <2>3, <2>4 DEF Session
<1>4. CASE Suspend \/ Wake
  <2>1. UNCHANGED <<setup, out, in, rxstpOn, xfer, seen, config>>
    BY <1>4 DEF Suspend, Wake, BusSuspend, BusWake, endpoint, host
  <2>2. \/ Suspend /\ frozen' = TRUE
        \/ /\ frozen' = FALSE /\ state' # "Unattached"
           /\ config = 1 => state' = "Configured"
    BY <1>4 DEF Suspend, Wake, BusSuspend, BusWake, Resumed
  <2>3. Apart'
    BY <1>0, <1>1, <2>1, <2>2 DEF Apart
  <2>4. Agrees'
    BY <1>1, <2>1, <2>2 DEF Session, Agrees
  <2>5. Frames'
    BY <1>1, <1>2, <2>1 DEF Session, Frames, Stands
  <2>6. Transfer'
    BY <1>1, <2>1, TransferKeeps DEF Session
  <2>7. Served'
    BY <1>1, <1>2, <2>1, <2>2 DEF Session, Served, ServedData, ServedAddress, ServedConfig,
       ServedLine, TopIs
  <2> QED BY <2>3, <2>4, <2>5, <2>6, <2>7 DEF Session
<1> QED BY <1>3, <1>4

-----------------------------------------------------------------------------
LEMMA InitSession == Init => SessionInv
<1> SUFFICES ASSUME Init PROVE Session
  BY DEF SessionInv
<1>1. /\ stack = <<>> /\ Len(stack) = 0 /\ setup = FALSE /\ out = FALSE /\ xfer = "off"
      /\ seen = "reset"
  BY DEF Init
<1>2. Apart /\ Frames
  BY <1>1 DEF Apart, Frames
<1>3. Transfer /\ Served /\ Agrees
  BY <1>1 DEF Transfer, Served, ServedData, ServedAddress, ServedConfig, ServedLine, Agrees
<1> QED BY <1>2, <1>3 DEF Session

LEMMA SessionNext == ControlInv /\ SessionInv /\ [Next]_vars => SessionInv'
<1> SUFFICES ASSUME ControlInv, SessionInv, [Next]_vars, events' <= 2 PROVE Session'
  BY DEF SessionInv
<1>1. CASE Reset \/ Suspend
  <2>1. events \in Nat /\ events' = events + 1
    BY <1>1 DEF ControlInv, ControlTypeOK, Reset, Suspend, Event
  <2>2. events <= 2
    BY <2>1
  <2> QED BY <1>1, <2>2, BusAgrees DEF SessionInv
<1>2. CASE Wake
  <2>1. events <= 2
    BY <1>2 DEF Wake, counts
  <2> QED BY <1>2, <2>1, BusAgrees DEF SessionInv
<1>3. CASE Handler
  <2>1. events' = events
    BY <1>3 DEF Handler, Interrupt, LineIn, LineOut, StatusOut, StatusIn, AddressIn, StreamPacket,
       StreamLast, StreamEnd, StreamOut, Handling, counts
  <2>2. events <= 2 /\ Session
    BY <2>1 DEF SessionInv
  <2>3. CASE LineOut
    <3>1. CASE out
      BY <2>2, <2>3, <3>1, LineOutAgrees
    <3>2. CASE ~out
      BY <2>2, <2>3, <3>2, EndAgrees
    <3> QED BY <3>1, <3>2
  <2> QED BY <1>3, <2>2, <2>3, InterruptAgrees, PacketAgrees, EndAgrees, StatusInAgrees,
          AddressInAgrees DEF Handler
<1>4. CASE (\E r \in Requests : Start(r)) \/ TakeIn \/ SendOut
  <2>1. events' = events
    BY <1>4 DEF Start, TakeIn, SendOut, counts
  <2>2. events <= 2 /\ Session
    BY <2>1 DEF SessionInv
  <2> QED BY <1>4, <2>2, StartAgrees, TakeInAgrees, SendOutAgrees
<1>5. CASE UNCHANGED vars
  <2>1. /\ events' = events
        /\ UNCHANGED <<state, config, frozen, setup, out, in, asked, request, rxstpOn, stack, baud,
                       xfer, seen>>
    BY <1>5 DEF vars, bus, endpoint, host, counts
  <2>2. Session
    BY <2>1 DEF SessionInv
  <2>3. Top' = Top /\ Bottom' = Bottom
    BY <2>1 DEF Top, Bottom
  <2>4. Apart' /\ Agrees' /\ Frames'
    BY <2>1, <2>2, <2>3 DEF Session, Apart, Agrees, Frames, Stands
  <2>5. Transfer'
    BY <2>1, <2>2, TransferKeeps DEF Session
  <2>6. Served'
    BY <2>1, <2>2, <2>3 DEF Session, Served, ServedData, ServedAddress, ServedConfig, ServedLine,
       TopIs
  <2> QED BY <2>2, <2>4, <2>5, <2>6 DEF Session
<1> QED BY <1>1, <1>2, <1>3, <1>4, <1>5 DEF Next

(* With no more than two events on the bus, whatever the host asks and      *)
(* gives up, what it saw acknowledged is in force: SessionAgrees.           *)
THEOREM AcknowledgedIsInForce == Spec => []SessionAgrees
<1>1. Spec => []SessionInv
  BY InitSession, SessionNext, ControlInvariant, PTL DEF Spec
<1>2. SessionInv => SessionAgrees
  BY DEF SessionInv, Session, SessionAgrees
<1> QED BY <1>1, <1>2, PTL

-----------------------------------------------------------------------------
(* Nobody waits for nobody *)

(* The host has a packet to take or to send. *)
HostTurn ==
    /\ ~frozen /\ ~setup
    /\ (~in /\ xfer \in {"dataIn", "statusIn"}) \/ (~out /\ xfer \in {"dataOut", "statusOut"})

(* As long as no transfer was given up, a handler that waits has what it    *)
(* waits for or it is the host's turn, and a setup packet finds no handler, *)
(* the interrupt enabled and the clock running.                             *)
NobodyStuck ==
    aborts = 0 =>
        /\ stack # <<>> => Busy \/ HostTurn
        /\ setup => stack = <<>> /\ rxstpOn /\ ~frozen

(* Where a read goes on after its last packet.                              *)
Emptying == (xfer = "dataIn" /\ ~in) \/ (xfer = "statusOut" /\ ~out) \/ (xfer = "none" /\ out)

(* Where a handler and the transfer it serves are meanwhile.                *)
Place ==
    /\ At("lineIn") => xfer = "dataIn" /\ in /\ asked = "GetLineEncoding"
    /\ At("stream") => xfer = "dataIn"
    /\ At("statusOut") => Emptying
    /\ At("streamOut") => Emptying
    /\ At("lineOut") => asked = "SetLineEncoding" /\ in
                        /\ (xfer = "dataOut" \/ (xfer = "statusIn" /\ out))
    /\ At("statusIn") => xfer = "statusIn" /\ in /\ ~out /\ asked \notin Reading
    /\ At("addressIn") => ~out /\ ((xfer = "statusIn" /\ ~in) \/ (xfer = "none" /\ in))

Course ==
    /\ stack # <<>> => Len(stack) = 1 /\ ~setup /\ request = asked
    /\ setup => xfer = FirstStage(asked) /\ in /\ ~out
    /\ xfer \notin {"off", "none"} \/ stack # <<>> => ~frozen
    /\ out => stack # <<>>
    /\ xfer \in {"dataIn", "dataOut"} => ~out
    /\ stack = <<>> /\ ~setup => xfer \in {"off", "none"} \/ (xfer = "statusIn" /\ ~in)
    /\ Place

(* Only a bus that was never reset or is suspended counts as unattached.    *)
Alive ==
    /\ state = "Unattached" => frozen \/ xfer = "off"
    /\ rxstpOn \/ stack # <<>> \/ xfer = "off"
    /\ xfer = "off" => stack = <<>> /\ ~setup

CourseInv == Alive /\ (aborts = 0 => Course)

(* The stack with one handler.                                              *)
LEMMA OnlyHandler ==
    ASSUME StackOK, Len(stack) = 1
    PROVE  /\ stack # <<>> /\ Top \in Frame
           /\ stack' = Front(stack) => stack' = <<>>
           /\ \A place \in Places : Spin(place) =>
                  stack' # <<>> /\ Len(stack') = 1 /\ Top'.at = place
<1>1. stack \in Seq(Frame) /\ stack # <<>>
  BY EmptySeq DEF StackOK
<1>2. Front(stack) \in Seq(Frame) /\ Len(Front(stack)) = Len(stack) - 1 /\ Top.req \in Known
  BY <1>1, PopStack
<1>3. Front(stack) = <<>>
  BY <1>2, EmptySeq
<1>4. Top \in Frame
  <2>1. 1 \in 1 .. Len(stack)
    OBVIOUS
  <2> QED BY <1>1, <2>1, ElementOfSeq DEF Top, Last
<1>5. ASSUME NEW place \in Places, Spin(place)
      PROVE  stack' # <<>> /\ Len(stack') = 1 /\ Top'.at = place
  <2> DEFINE f == [req |-> Top.req, at |-> place]
  <2>1. f \in Frame /\ stack' = Append(Front(stack), f) /\ f.at = place
    BY <1>2, <1>5 DEF Spin, Frame
  <2> HIDE DEF f
  <2>2. stack' \in Seq(Frame) /\ Len(stack') = 0 + 1 /\ stack'[0 + 1] = f
    BY <1>2, <2>1, AppendProperties
  <2>3. Top' = f
    BY <2>2 DEF Top, Last
  <2>4. stack' # <<>>
    BY <2>2, EmptySeq
  <2> QED BY <2>1, <2>2, <2>3, <2>4
<1> QED BY <1>1, <1>3, <1>4, <1>5

LEMMA FirstHandler ==
    ASSUME NEW f \in Frame, stack' = Append(<<>>, f)
    PROVE  stack' # <<>> /\ Len(stack') = 1 /\ Top' = f
<1>1. <<>> \in Seq(Frame) /\ Len(<<>>) = 0
  OBVIOUS
<1>2. stack' \in Seq(Frame) /\ Len(stack') = 0 + 1 /\ stack'[0 + 1] = f
  BY <1>1, AppendProperties
<1>3. stack' # <<>>
  BY <1>2, EmptySeq
<1> QED BY <1>2, <1>3 DEF Top, Last

LEMMA CourseStands ==
    ASSUME ControlInv, CourseInv, aborts = 0
    PROVE  /\ Course /\ Alive /\ StackOK
           /\ stack # <<>> => Len(stack) = 1 /\ ~setup /\ ~frozen /\ state # "Unattached"
                              /\ Top.at \in Places
<1>1. Course /\ Alive /\ StackOK
  BY DEF CourseInv, ControlInv, ControlTypeOK, StackOK, Frame
<1>2. stack # <<>> => Top.at \in Places
  BY <1>1, OnlyHandler DEF Course, Frame
<1> QED BY <1>1, <1>2 DEF Course, Alive

(* Places where a handler goes on to wait.                                  *)
LEMMA CourseSpins ==
    ASSUME ControlInv, CourseInv, aborts = 0,
           LineIn \/ (LineOut /\ out) \/ (StatusIn /\ Top.req = "SetAddress")
           \/ StreamPacket("stream") \/ StreamLast
    PROVE  Course'
<1>0. /\ Course /\ StackOK /\ stack # <<>> /\ Len(stack) = 1 /\ ~setup /\ ~frozen
  BY CourseStands DEF LineIn, LineOut, StatusIn, StreamPacket, StreamLast, At
<1>1. UNCHANGED <<setup, asked, request, xfer, frozen>>
  <2>1. HostKept
    BY <1>0, SpinOrLeave DEF ControlInv, ControlTypeOK, Stalled
  <2> QED BY <2>1 DEF LineIn, LineOut, StatusIn, StreamPacket, StreamLast, Handling, HostKept
<1>2. ASSUME NEW place \in Places, Spin(place)
      PROVE  stack' # <<>> /\ Len(stack') = 1 /\ Top'.at = place
  BY <1>0, <1>2, OnlyHandler
<1>3. CASE LineIn
  <2>1. Top.at = "lineIn" /\ in' = FALSE /\ out' = out /\ Spin(StatusPlace)
    BY <1>3 DEF LineIn, Handling, At
  <2>2. StatusPlace = "statusOut" /\ xfer = "dataIn" /\ ~out
    BY <1>0, <2>1 DEF Course, Place, At, StatusPlace, Reading
  <2>3. stack' # <<>> /\ Len(stack') = 1 /\ Top'.at = "statusOut"
    BY <1>2, <2>1, <2>2 DEF Places
  <2> QED BY <1>0, <1>1, <2>1, <2>2, <2>3 DEF Course, Place, At, Emptying
<1>4. CASE LineOut /\ out
  <2>1. Top.at = "lineOut" /\ in' = in /\ out' = FALSE /\ Spin(StatusPlace)
    BY <1>4 DEF LineOut, Handling, At
  <2>2. StatusPlace = "statusIn" /\ xfer = "statusIn" /\ in /\ asked \notin Reading
    BY <1>0, <1>4, <2>1 DEF Course, Place, At, StatusPlace, Reading
  <2>3. stack' # <<>> /\ Len(stack') = 1 /\ Top'.at = "statusIn"
    BY <1>2, <2>1, <2>2 DEF Places
  <2> QED BY <1>0, <1>1, <2>1, <2>2, <2>3 DEF Course, Place, At
<1>5. CASE StatusIn /\ Top.req = "SetAddress"
  <2>1. Top.at = "statusIn" /\ in' = FALSE /\ out' = out /\ Spin("addressIn")
    BY <1>5 DEF StatusIn, Handling, At, Configuring
  <2>2. xfer = "statusIn" /\ ~out
    BY <1>0, <2>1 DEF Course, Place, At
  <2>3. stack' # <<>> /\ Len(stack') = 1 /\ Top'.at = "addressIn"
    BY <1>2, <2>1 DEF Places
  <2> QED BY <1>0, <1>1, <2>1, <2>2, <2>3 DEF Course, Place, At
<1>6. CASE StreamPacket("stream") \/ StreamLast
  <2>1. PICK place \in {"stream", "streamOut"} : StreamPacket(place)
    BY <1>6 DEF StreamLast
  <2>2. Top.at = "stream" /\ in' = FALSE /\ out' = out /\ ~out /\ Spin(place)
    BY <2>1 DEF StreamPacket, Handling, At
  <2>3. xfer = "dataIn"
    BY <1>0, <2>2 DEF Course, Place, At
  <2>4. stack' # <<>> /\ Len(stack') = 1 /\ Top'.at = place
    BY <1>2, <2>2 DEF Places
  <2> QED BY <1>0, <1>1, <2>2, <2>3, <2>4 DEF Course, Place, At, Emptying
<1> QED BY <1>3, <1>4, <1>5, <1>6

(* The end of a handler.                                                    *)
LEMMA CourseEnds ==
    ASSUME ControlInv, CourseInv, aborts = 0,
           (LineOut /\ ~out) \/ StatusOut \/ (StatusIn /\ Top.req # "SetAddress") \/ AddressIn
           \/ StreamEnd \/ StreamOut
    PROVE  Course'
<1>0. /\ Course /\ StackOK /\ stack # <<>> /\ Len(stack) = 1 /\ ~setup /\ ~frozen
      /\ state # "Unattached"
  BY CourseStands DEF LineOut, StatusOut, StatusIn, AddressIn, StreamEnd, StreamOut, At
<1>1. UNCHANGED <<setup, asked, request, xfer, frozen>>
  <2>1. HostKept
    BY <1>0, SpinOrLeave DEF ControlInv, ControlTypeOK, Stalled
  <2> QED BY <2>1 DEF LineOut, StatusOut, StatusIn, AddressIn, StreamEnd, StreamOut, Handling,
          HostKept
<1>2. stack' = Front(stack)
  <2>1. StatusIn /\ Top.req # "SetAddress" => Leave
    <3>1. CASE Top.req \in Configuring
      BY <3>1 DEF StatusIn
    <3>2. CASE Top.req \notin Configuring
      BY <3>2 DEF StatusIn
    <3> QED BY <3>1, <3>2
  <2> QED BY <2>1 DEF LineOut, StatusOut, AddressIn, StreamEnd, StreamOut, Leave
<1>3. stack' = <<>>
  BY <1>0, <1>2, OnlyHandler
<1>4. out' = FALSE
  <2>1. StatusIn \/ AddressIn => out' = out /\ ~out
    BY <1>0 DEF StatusIn, AddressIn, At, Handling, Course, Place
  <2> QED BY <1>0, <2>1 DEF LineOut, StatusOut, StreamEnd, StreamOut
<1>5. xfer = "none" \/ (xfer = "statusIn" /\ in' = FALSE)
  <2>1. CASE StatusIn
    BY <1>0, <2>1 DEF StatusIn, At, Course, Place
  <2>2. CASE AddressIn
    BY <1>0, <2>2 DEF AddressIn, At, Course, Place
  <2>3. CASE (LineOut /\ ~out) \/ StatusOut \/ StreamEnd \/ StreamOut
    <3>1. out /\ (At("statusOut") \/ At("streamOut") \/ At("stream"))
      BY <1>0, <2>3 DEF LineOut, StatusOut, StreamEnd, StreamOut, Broken
    <3> QED BY <1>0, <3>1 DEF Course, Place, Emptying
  <2> QED BY <2>1, <2>2, <2>3
<1> QED BY <1>0, <1>1, <1>3, <1>4, <1>5 DEF Course, Place, At

LEMMA CourseTaken ==
    ASSUME ControlInv, CourseInv, aborts = 0, Interrupt
    PROVE  Course'
<1>0. Course /\ setup /\ stack = <<>> /\ xfer = FirstStage(asked) /\ in /\ ~out /\ ~frozen
  BY CourseStands DEF Interrupt, Course
<1>1. /\ setup' = FALSE /\ request' = asked
      /\ UNCHANGED <<state, frozen, out, asked>>
  BY DEF Interrupt
<1>2. asked \in Known \cup {"Unsupported"}
  BY DEF ControlInv, ControlTypeOK
<1>3. CASE asked = "Unsupported"
  <2>1. xfer' = "none" /\ stack' = <<>>
    BY <1>0, <1>3 DEF Interrupt
  <2> QED BY <1>0, <1>1, <2>1 DEF Course, Place, At
<1>4. CASE asked # "Unsupported"
  <2> DEFINE f == [req |-> asked, at |-> FirstSpin(asked)]
  <2>1. stack' = Append(<<>>, f) /\ xfer' = xfer /\ in' = (in /\ asked # "GetShort")
    BY <1>0, <1>4 DEF Interrupt
  <2>2. f \in Frame
    BY <1>2, <1>4 DEF FirstSpin, Places, Frame
  <2>3. stack' # <<>> /\ Len(stack') = 1 /\ Top' = f
    BY <2>1, <2>2, FirstHandler
  <2>4. Top'.at = FirstSpin(asked)
    BY <2>3
  <2> HIDE DEF f
  <2>5. \/ asked = "GetShort" /\ FirstSpin(asked) = "statusOut" /\ xfer = "dataIn" /\ in' = FALSE
        \/ asked = "GetLineEncoding" /\ FirstSpin(asked) = "lineIn" /\ xfer = "dataIn" /\ in' = TRUE
        \/ asked = "GetDescriptor" /\ FirstSpin(asked) = "stream" /\ xfer = "dataIn"
        \/ asked = "SetLineEncoding" /\ FirstSpin(asked) = "lineOut" /\ xfer = "dataOut" /\ in' = TRUE
        \/ asked \notin Reading /\ FirstSpin(asked) = "statusIn" /\ xfer = "statusIn" /\ in' = TRUE
    <3>1. CASE asked = "GetShort"
      BY <1>0, <2>1, <3>1 DEF FirstSpin, FirstStage, Reading
    <3>2. CASE asked = "GetLineEncoding"
      BY <1>0, <2>1, <3>2 DEF FirstSpin, FirstStage, Reading
    <3>3. CASE asked = "GetDescriptor"
      BY <1>0, <2>1, <3>3 DEF FirstSpin, FirstStage, Reading
    <3>4. CASE asked = "SetLineEncoding"
      BY <1>0, <2>1, <3>4 DEF FirstSpin, FirstStage, Reading
    <3>5. CASE asked \notin {"GetShort", "GetLineEncoding", "GetDescriptor", "SetLineEncoding"}
      BY <1>0, <2>1, <3>5 DEF FirstSpin, FirstStage, Reading
    <3> QED BY <3>1, <3>2, <3>3, <3>4, <3>5
  <2>6. Place'
    BY <1>0, <1>1, <2>1, <2>3, <2>4, <2>5 DEF Place, At, Emptying
  <2> QED BY <1>0, <1>1, <2>1, <2>3, <2>5, <2>6 DEF Course
<1> QED BY <1>3, <1>4

LEMMA CourseHost ==
    ASSUME ControlInv, CourseInv, aborts = 0, aborts' = 0,
           (\E r \in Requests : Start(r)) \/ TakeIn \/ SendOut
    PROVE  Course'
<1>0. Course /\ Alive /\ (stack # <<>> => Top.at \in Places)
  BY CourseStands
<1>1. ~frozen /\ ~setup /\ UNCHANGED <<state, frozen, request, stack>>
  BY DEF Start, TakeIn, SendOut, bus
<1>2. Top' = Top
  BY <1>1 DEF Top
<1>3. ASSUME NEW r \in Requests, Start(r) PROVE Course'
  <2>1. /\ xfer = "none" /\ ~Busy
        /\ setup' = TRUE /\ asked' = r /\ out' = FALSE /\ in' = TRUE /\ xfer' = FirstStage(r)
    BY <1>3 DEF Start
  <2>2. stack = <<>>
    BY <1>0, <2>1 DEF Course, Place, At, Emptying, Busy, Places
  <2>3. (setup => xfer = FirstStage(asked) /\ in /\ ~out)'
    BY <2>1
  <2>4. Place'
    BY <1>1, <2>2 DEF Place, At
  <2> QED BY <1>1, <2>1, <2>2, <2>3, <2>4 DEF Course
<1>4. CASE TakeIn
  <2>1. /\ ~in /\ in' = TRUE /\ UNCHANGED <<setup, out, asked>>
        /\ \/ xfer = "dataIn" /\ xfer' = (IF At("stream") THEN "dataIn" ELSE "statusOut")
           \/ xfer = "statusIn" /\ xfer' = "none"
    BY <1>4 DEF TakeIn
  <2>2. CASE xfer = "dataIn"
    <3>1. stack # <<>> /\ ~out /\ Top.at \in {"stream", "statusOut", "streamOut"}
      BY <1>0, <1>1, <2>1, <2>2 DEF Course, Place, At, Places
    <3> QED BY <1>0, <1>1, <1>2, <2>1, <2>2, <3>1 DEF Course, Place, At, Emptying
  <2>3. CASE xfer = "statusIn"
    <3>1. stack = <<>> \/ (Top.at = "addressIn" /\ ~out)
      BY <1>0, <1>1, <2>1, <2>3 DEF Course, Place, At, Places, Emptying
    <3> QED BY <1>0, <1>1, <1>2, <2>1, <2>3, <3>1 DEF Course, Place, At
  <2> QED BY <2>1, <2>2, <2>3
<1>5. CASE SendOut
  <2>1. /\ ~out /\ out' = TRUE /\ UNCHANGED <<setup, in, asked>>
        /\ \/ xfer = "dataOut" /\ xfer' = "statusIn"
           \/ xfer = "statusOut" /\ xfer' = "none"
    BY <1>5 DEF SendOut
  <2>2. CASE xfer = "dataOut"
    <3>1. stack # <<>> /\ Top.at = "lineOut"
      BY <1>0, <1>1, <2>1, <2>2 DEF Course, Place, At, Places, Emptying
    <3> QED BY <1>0, <1>1, <1>2, <2>1, <2>2, <3>1 DEF Course, Place, At
  <2>3. CASE xfer = "statusOut"
    <3>1. stack # <<>> /\ Top.at \in {"statusOut", "streamOut"}
      BY <1>0, <1>1, <2>1, <2>3 DEF Course, Place, At, Places
    <3> QED BY <1>0, <1>1, <1>2, <2>1, <2>3, <3>1 DEF Course, Place, At, Emptying
  <2> QED BY <2>1, <2>2, <2>3
<1> QED BY <1>3, <1>4, <1>5

LEMMA CourseBus ==
    ASSUME ControlInv, CourseInv, aborts = 0, aborts' = 0, Reset \/ Suspend \/ Wake
    PROVE  Course'
<1>0. Course /\ Alive /\ aborts + 1 # 0
  BY CourseStands
<1>1. CASE Wake
  <2>1. /\ UNCHANGED <<setup, out, in, asked, request, stack, xfer>> /\ frozen' = FALSE
    BY <1>1 DEF Wake, BusWake, endpoint, host
  <2>2. Top' = Top
    BY <2>1 DEF Top
  <2>3. (setup => xfer = FirstStage(asked) /\ in /\ ~out)'
    BY <1>0, <2>1 DEF Course
  <2>4. Place'
    BY <1>0, <2>1, <2>2 DEF Course, Place, At, Emptying
  <2> QED BY <1>0, <2>1, <2>3, <2>4 DEF Course
<1>2. CASE Reset \/ Suspend
  <2>1. xfer \in {"off", "none"} /\ stack = <<>> /\ stack' = <<>>
    BY <1>0, <1>2 DEF Reset, Suspend, Event
  <2>2. ~setup /\ ~out
    <3>1. asked \in Known \cup {"Unsupported"}
      BY DEF ControlInv, ControlTypeOK
    <3>2. FirstStage(asked) \in {"dataIn", "dataOut", "statusIn"}
      BY DEF FirstStage
    <3> QED BY <1>0, <2>1, <3>2 DEF Course
  <2>3. setup' = FALSE /\ out' = FALSE /\ xfer' \in {"off", "none"}
    BY <1>2, <2>1, <2>2 DEF Reset, Suspend, endpoint, host, ControlInv, ControlTypeOK
  <2> QED BY <2>1, <2>3 DEF Course, Place, At
<1> QED BY <1>1, <1>2

LEMMA AliveStep == ControlInv /\ Alive /\ [Next]_vars => Alive'
<1> SUFFICES ASSUME ControlInv, Alive, [Next]_vars PROVE Alive'
  OBVIOUS
<1>0. stack \in Seq(Frame)
  BY DEF ControlInv, ControlTypeOK, Frame
<1>1. CASE Interrupt
  <2>1. asked = "Unsupported" => UNCHANGED <<stack, rxstpOn>>
    BY <1>1 DEF Interrupt
  <2>2. asked # "Unsupported" => stack' # <<>>
    <3>1. asked # "Unsupported" => [req |-> asked, at |-> FirstSpin(asked)] \in Frame
      BY DEF ControlInv, ControlTypeOK, FirstSpin, Places, Frame
    <3> QED BY <1>0, <1>1, <3>1, PushStack DEF Interrupt, StackOK
  <2>3. setup /\ rxstpOn /\ UNCHANGED <<state, frozen>> /\ (xfer' = xfer \/ xfer' = "none")
    BY <1>1 DEF Interrupt
  <2> QED BY <2>1, <2>2, <2>3 DEF Alive
<1>2. CASE \/ LineIn \/ LineOut \/ StatusOut \/ StatusIn \/ AddressIn
           \/ StreamPacket("stream") \/ StreamLast \/ StreamEnd \/ StreamOut
  <2>1. stack # <<>> /\ frozen' = frozen
    BY <1>2 DEF LineIn, LineOut, StatusOut, StatusIn, AddressIn, StreamPacket, StreamLast,
       StreamEnd, StreamOut, At, Handling
  <2>2. state' = state \/ state' # "Unattached"
    <3>1. CASE StatusIn
      <4>1. CASE Top.req = "SetAddress"
        BY <3>1, <4>1 DEF StatusIn, Configuring
      <4>2. CASE Top.req \in Configuring
        BY <3>1, <4>2 DEF StatusIn, Configuring, StateAfterConfiguration
      <4>3. CASE Top.req # "SetAddress" /\ Top.req \notin Configuring
        BY <3>1, <4>3 DEF StatusIn
      <4> QED BY <4>1, <4>2, <4>3
    <3> QED BY <1>2, <3>1 DEF LineIn, LineOut, StatusOut, AddressIn, StreamPacket, StreamLast,
            StreamEnd, StreamOut, Handling, SetAddressState
  <2>3. xfer # "off"
    BY <2>1 DEF Alive
  <2>4. rxstpOn' \/ stack' # <<>>
    <3>1. CASE LineIn \/ StreamPacket("stream") \/ StreamLast
      <4>1. PICK place \in {"statusIn", "statusOut", "stream", "streamOut"} : Spin(place)
        BY <3>1 DEF LineIn, StatusPlace, StreamPacket, StreamLast
      <4> QED BY <1>0, <2>1, <4>1, SpinStack DEF StackOK, Places
    <3>2. CASE LineOut
      <4>1. CASE Leave
        BY <4>1 DEF Leave
      <4>2. CASE Spin(StatusPlace)
        <5>1. PICK place \in {"statusIn", "statusOut"} : Spin(place)
          BY <4>2 DEF StatusPlace
        <5> QED BY <1>0, <2>1, <5>1, SpinStack DEF StackOK, Places
      <4> QED BY <3>2, <4>1, <4>2 DEF LineOut
    <3>3. CASE StatusIn
      <4>1. CASE Top.req = "SetAddress"
        <5>1. Spin("addressIn")
          BY <3>3, <4>1 DEF StatusIn, Configuring
        <5> QED BY <1>0, <2>1, <5>1, SpinStack DEF StackOK, Places
      <4>2. CASE Top.req \in Configuring
        BY <3>3, <4>2 DEF StatusIn, Configuring, Leave
      <4>3. CASE Top.req # "SetAddress" /\ Top.req \notin Configuring
        BY <3>3, <4>3 DEF StatusIn, Leave
      <4> QED BY <4>1, <4>2, <4>3
    <3>4. CASE StatusOut \/ AddressIn \/ StreamEnd \/ StreamOut
      BY <3>4 DEF StatusOut, AddressIn, StreamEnd, StreamOut, Leave
    <3> QED BY <1>2, <3>1, <3>2, <3>3, <3>4
  <2>5. xfer' = xfer \/ xfer' = "none"
    <3>1. HostKept \/ Stalled
      BY <1>2, SpinOrLeave DEF ControlInv, ControlTypeOK
    <3> QED BY <3>1 DEF HostKept, Stalled
  <2> QED BY <2>1, <2>2, <2>3, <2>4, <2>5 DEF Alive
<1>3. CASE (\E r \in Requests : Start(r)) \/ TakeIn \/ SendOut
  <2>1. UNCHANGED <<state, frozen, stack, rxstpOn>> /\ xfer # "off"
    BY <1>3 DEF Start, TakeIn, SendOut, bus
  <2>2. xfer' # "off"
    BY <1>3 DEF Start, FirstStage, TakeIn, SendOut
  <2> QED BY <2>1, <2>2 DEF Alive
<1>4. CASE Reset
  BY <1>4 DEF Reset, BusReset, Alive
<1>5. CASE Suspend
  BY <1>5 DEF Suspend, BusSuspend, endpoint, host, Alive
<1>6. CASE Wake
  BY <1>6 DEF Wake, BusWake, Resumed, endpoint, host, Alive
<1>7. CASE UNCHANGED vars
  BY <1>7 DEF vars, bus, endpoint, host, Alive
<1> QED BY <1>1, <1>2, <1>3, <1>4, <1>5, <1>6, <1>7 DEF Next, Handler

LEMMA CourseNext == ControlInv /\ CourseInv /\ [Next]_vars => CourseInv'
<1> SUFFICES ASSUME ControlInv, CourseInv, [Next]_vars, aborts' = 0 PROVE Course'
  BY AliveStep DEF CourseInv
<1>0. aborts = 0
  <2>1. aborts' \in {aborts, aborts + 1}
    BY DEF Next, Handler, Interrupt, LineIn, LineOut, StatusOut, StatusIn, AddressIn, StreamPacket,
       StreamLast, StreamEnd, StreamOut, Handling, Start, TakeIn, SendOut, Reset, Suspend, Event,
       Wake, counts, vars
  <2>2. aborts \in Nat
    BY DEF ControlInv, ControlTypeOK
  <2> QED BY <2>1, <2>2
<1>1. CASE Handler
  BY <1>0, <1>1, CourseSpins, CourseEnds, CourseTaken DEF Handler
<1>2. CASE (\E r \in Requests : Start(r)) \/ TakeIn \/ SendOut
  BY <1>0, <1>2, CourseHost
<1>3. CASE Reset \/ Suspend \/ Wake
  BY <1>0, <1>3, CourseBus
<1>4. CASE UNCHANGED vars
  <2>1. UNCHANGED <<state, frozen, setup, out, in, asked, request, stack, xfer>>
    BY <1>4 DEF vars, bus, endpoint, host
  <2>2. Top' = Top /\ Course
    BY <1>0, <2>1 DEF Top, CourseInv
  <2>3. (setup => xfer = FirstStage(asked) /\ in /\ ~out)'
    BY <2>1, <2>2 DEF Course
  <2>4. Place'
    BY <2>1, <2>2 DEF Course, Place, At, Emptying
  <2> QED BY <2>1, <2>2, <2>3, <2>4 DEF Course
<1> QED BY <1>1, <1>2, <1>3, <1>4 DEF Next

LEMMA InitCourse == Init => CourseInv
BY DEF Init, BusInit, CourseInv, Alive, Course, Place, At

(* While no transfer is given up, a handler under way and the host never    *)
(* wait for each other, and a request that arrives is taken at once.        *)
THEOREM HandlerAndHostGoOn == Spec => []NobodyStuck
<1>1. Spec => []CourseInv
  BY InitCourse, CourseNext, ControlInvariant, PTL DEF Spec
<1>2. ControlInv /\ CourseInv => NobodyStuck
  <2> SUFFICES ASSUME ControlInv, CourseInv, aborts = 0
               PROVE  /\ stack # <<>> => Busy \/ HostTurn
                      /\ setup => stack = <<>> /\ rxstpOn /\ ~frozen
    BY DEF NobodyStuck
  <2>1. /\ Course /\ Alive
        /\ stack # <<>> => ~setup /\ ~frozen /\ Top.at \in Places
    BY CourseStands
  <2>2. stack # <<>> => Busy \/ HostTurn
    BY <2>1 DEF Course, Place, At, Emptying, Busy, HostTurn, Places
  <2>3. setup => stack = <<>> /\ rxstpOn /\ ~frozen
    <3>1. FirstStage(asked) \in {"dataIn", "dataOut", "statusIn"}
      BY DEF FirstStage
    <3> QED BY <2>1, <3>1 DEF Course, Alive
  <2> QED BY <2>2, <2>3
<1> QED BY <1>1, <1>2, ControlInvariant, PTL
=============================================================================
