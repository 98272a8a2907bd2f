--------------------------- MODULE UsbStreamProofs ---------------------------
(***************************************************************************)
(* Proofs about UsbStream, for banks of any size and any bounds.           *)
(***************************************************************************)
EXTENDS UsbStream, SequenceTheorems, TLAPS

(* A bank is filled by one packet and emptied a byte or a packet at a time. *)
LEMMA PacketIsSeq ==
    ASSUME NEW from \in Nat, NEW n \in Nat
    PROVE  [k \in 1 .. n |-> from + k] \in Seq(Nat) /\ Len([k \in 1 .. n |-> from + k]) = n
PROOF
<1>1. [k \in 1 .. n |-> from + k] \in [1 .. n -> Nat] OBVIOUS
<1> QED BY <1>1

LEMMA InvInit == Init => StreamInv
<1> SUFFICES ASSUME Init PROVE StreamInv
  OBVIOUS
<1>1. <<>> \in Seq(Nat) /\ Len(<<>>) = 0 /\ SIZE \in Nat
  BY StreamAssumption DEF StreamAssumption
<1>2. pc \in Locations
  BY DEF Init, Locations, Calm
<1>3. Len(inBank) <= SIZE /\ Len(outBank) <= SIZE
  BY <1>1 DEF Init
<1>4. BusTypeOK
  <2>1. config \in 0 .. 1
    BY SMT DEF Init, BusInit
  <2> QED BY <2>1, Zenon DEF Init, BusInit, BusTypeOK, States
<1>5. StreamTypeOK
  BY <1>1, <1>2, <1>3, <1>4 DEF Init, StreamTypeOK, Endpoints
<1> QED BY <1>5 DEF Init, BusInit, StreamInv, OnEndpoint, OutHeld, InHeld, Calm, InSteps,
    OutSteps

(* On its endpoint a step sees the flag it asks for.                        *)
LEMMA BranchGoes ==
    ASSUME NEW at, NEW ep, NEW flag, NEW yes, NEW no, Branch(at, ep, flag, yes, no),
        Reaches(ep)
    PROVE  pc = at /\ pc' = (IF flag THEN yes ELSE no)
BY DEF Branch, Reads, Goto

LEMMA WaitGoes ==
    ASSUME NEW at, NEW next, NEW fail, Wait(at, next, fail), Reaches("IN")
    PROVE  pc = at /\ ((pc' = next /\ inReady = TRUE) \/ pc' = fail)
BY DEF Wait, Reads, Goto

(* The steps that touch no bank.                                            *)
Quiet ==
    \/ RxEnter \/ RxSelect \/ RxTest \/ RxCount \/ RxLast
    \/ TxEnter \/ TxSelect \/ TxTest \/ TxWait \/ EndPrint
    \/ TaskEnter \/ TaskSelect \/ TaskReady
    \/ FlushEnter \/ FlushSelect \/ FlushCount \/ FlushFull \/ FlushWait

LEMMA QuietInv == StreamInv /\ Quiet => StreamInv'
<1> SUFFICES ASSUME StreamInv, Quiet PROVE StreamInv'
  OBVIOUS
<1>1. UNCHANGED <<bus, baud, inSide, outSide, printed, upsets>>
  BY DEF Quiet, RxEnter, RxSelect, RxTest, RxCount, RxLast, TxEnter, TxSelect, TxTest,
      TxWait, EndPrint, TaskEnter, TaskSelect, TaskReady, FlushEnter, FlushSelect,
      FlushCount, FlushFull, FlushWait, Enter, Select, Branch, Wait
<1>2. pc' \in Locations /\ sel' \in Endpoints /\ shaken' = (shaken /\ pc' \notin Calm)
  <2>1. CASE RxEnter
    BY <2>1 DEF RxEnter, Enter, Goto, Locations, Calm, InSteps, OutSteps, Endpoints,
        StreamInv, StreamTypeOK
  <2>2. CASE RxSelect
    BY <2>2 DEF RxSelect, Select, Goto, Locations, Calm, InSteps, OutSteps, Endpoints,
        StreamInv, StreamTypeOK
  <2>3. CASE RxTest
    BY <2>3 DEF RxTest, Branch, Goto, Locations, Calm, InSteps, OutSteps, Endpoints,
        StreamInv, StreamTypeOK
  <2>4. CASE RxCount
    BY <2>4 DEF RxCount, Branch, Goto, Locations, Calm, InSteps, OutSteps, Endpoints,
        StreamInv, StreamTypeOK
  <2>5. CASE RxLast
    BY <2>5 DEF RxLast, Branch, Goto, Locations, Calm, InSteps, OutSteps, Endpoints,
        StreamInv, StreamTypeOK
  <2>6. CASE TxEnter
    BY <2>6 DEF TxEnter, Enter, Goto, Locations, Calm, InSteps, OutSteps, Endpoints,
        StreamInv, StreamTypeOK
  <2>7. CASE TxSelect
    BY <2>7 DEF TxSelect, Select, Goto, Locations, Calm, InSteps, OutSteps, Endpoints,
        StreamInv, StreamTypeOK
  <2>8. CASE TxTest
    BY <2>8 DEF TxTest, Branch, Goto, Locations, Calm, InSteps, OutSteps, Endpoints,
        StreamInv, StreamTypeOK
  <2>9. CASE TxWait
    BY <2>9 DEF TxWait, Wait, Goto, Locations, Calm, InSteps, OutSteps, Endpoints, StreamInv,
        StreamTypeOK
  <2>10. CASE EndPrint
    BY <2>10 DEF EndPrint, Goto, Locations, Calm, InSteps, OutSteps, Endpoints, StreamInv,
        StreamTypeOK
  <2>11. CASE TaskEnter
    BY <2>11 DEF TaskEnter, Enter, Goto, Locations, Calm, InSteps, OutSteps, Endpoints,
        StreamInv, StreamTypeOK
  <2>12. CASE TaskSelect
    BY <2>12 DEF TaskSelect, Select, Goto, Locations, Calm, InSteps, OutSteps, Endpoints,
        StreamInv, StreamTypeOK
  <2>13. CASE TaskReady
    BY <2>13 DEF TaskReady, Branch, Goto, Locations, Calm, InSteps, OutSteps, Endpoints,
        StreamInv, StreamTypeOK
  <2>14. CASE FlushEnter
    BY <2>14 DEF FlushEnter, Enter, Goto, Locations, Calm, InSteps, OutSteps, Endpoints,
        StreamInv, StreamTypeOK
  <2>15. CASE FlushSelect
    BY <2>15 DEF FlushSelect, Select, Goto, Locations, Calm, InSteps, OutSteps, Endpoints,
        StreamInv, StreamTypeOK
  <2>16. CASE FlushCount
    BY <2>16 DEF FlushCount, Branch, Goto, Locations, Calm, InSteps, OutSteps, Endpoints,
        StreamInv, StreamTypeOK
  <2>17. CASE FlushFull
    BY <2>17 DEF FlushFull, Branch, Goto, Locations, Calm, InSteps, OutSteps, Endpoints,
        StreamInv, StreamTypeOK
  <2>18. CASE FlushWait
    BY <2>18 DEF FlushWait, Wait, Goto, Locations, Calm, InSteps, OutSteps, Endpoints,
        StreamInv, StreamTypeOK
  <2> QED BY <2>1, <2>2, <2>3, <2>4, <2>5, <2>6, <2>7, <2>8, <2>9, <2>10, <2>11, <2>12,
      <2>13, <2>14, <2>15, <2>16, <2>17, <2>18 DEF Quiet
<1>3. StreamTypeOK'
  BY <1>1, <1>2 DEF StreamInv, StreamTypeOK, BusTypeOK, bus, inSide, outSide
<1>4. ASSUME ~shaken', pc' \notin Calm PROVE (OnEndpoint /\ OutHeld /\ InHeld)'
  <2> ~shaken /\ OnEndpoint /\ OutHeld /\ InHeld
    BY <1>2, <1>4 DEF StreamInv
  <2>1. CASE RxEnter
    BY <1>1, <1>2, <1>4, <2>1 DEF RxEnter, Enter, Goto, Ready, Calm, InSteps, OutSteps,
        StreamInv, OnEndpoint, OutHeld, InHeld, bus, inSide, outSide
  <2>2. CASE RxSelect
    BY <1>1, <1>2, <1>4, <2>2 DEF RxSelect, Select, Goto, Ready, Calm, InSteps, OutSteps,
        StreamInv, OnEndpoint, OutHeld, InHeld, bus, inSide, outSide
  <2>3. CASE RxTest
    <3>1. pc \in InSteps \cup OutSteps /\ pc \notin Calm /\ Reaches("OUT")
      BY <2>3 DEF RxTest, Branch, Reaches, OnEndpoint, InSteps, OutSteps, Calm
    <3>2. sel' = sel
      BY <2>3 DEF RxTest, Branch
    <3>3. pc' = IF outRx THEN "rxCount" ELSE "print"
      BY <2>3, <3>1, BranchGoes DEF RxTest
    <3>4. pc = "rxTest"
      BY <2>3 DEF RxTest, Branch
    <3> QED BY <1>1, <1>4, <3>1, <3>2, <3>3, <3>4 DEF HasRoom, Calm, InSteps, OutSteps,
        OnEndpoint, OutHeld, InHeld, bus, inSide, outSide
  <2>4. CASE RxCount
    <3>1. pc \in InSteps \cup OutSteps /\ pc \notin Calm /\ Reaches("OUT")
      BY <2>4 DEF RxCount, Branch, Reaches, OnEndpoint, InSteps, OutSteps, Calm
    <3>2. sel' = sel
      BY <2>4 DEF RxCount, Branch
    <3>3. pc' = IF outBank # <<>> THEN "rxRead" ELSE "rxLast"
      BY <2>4, <3>1, BranchGoes DEF RxCount
    <3>4. pc = "rxCount"
      BY <2>4 DEF RxCount, Branch
    <3> QED BY <1>1, <1>4, <3>1, <3>2, <3>3, <3>4 DEF HasRoom, Calm, InSteps, OutSteps,
        OnEndpoint, OutHeld, InHeld, bus, inSide, outSide
  <2>5. CASE RxLast
    <3>1. pc \in InSteps \cup OutSteps /\ pc \notin Calm /\ Reaches("OUT")
      BY <2>5 DEF RxLast, Branch, Reaches, OnEndpoint, InSteps, OutSteps, Calm
    <3>2. sel' = sel
      BY <2>5 DEF RxLast, Branch
    <3>3. pc' = IF outBank = <<>> THEN "rxClear" ELSE "print"
      BY <2>5, <3>1, BranchGoes DEF RxLast
    <3>4. pc = "rxLast"
      BY <2>5 DEF RxLast, Branch
    <3> QED BY <1>1, <1>4, <3>1, <3>2, <3>3, <3>4 DEF HasRoom, Calm, InSteps, OutSteps,
        OnEndpoint, OutHeld, InHeld, bus, inSide, outSide
  <2>6. CASE TxEnter
    BY <1>1, <1>2, <1>4, <2>6 DEF TxEnter, Enter, Goto, Ready, Calm, InSteps, OutSteps,
        StreamInv, OnEndpoint, OutHeld, InHeld, bus, inSide, outSide
  <2>7. CASE TxSelect
    BY <1>1, <1>2, <1>4, <2>7 DEF TxSelect, Select, Goto, Ready, Calm, InSteps, OutSteps,
        StreamInv, OnEndpoint, OutHeld, InHeld, bus, inSide, outSide
  <2>8. CASE TxTest
    <3>1. pc \in InSteps \cup OutSteps /\ pc \notin Calm /\ Reaches("IN")
      BY <2>8 DEF TxTest, Branch, Reaches, OnEndpoint, InSteps, OutSteps, Calm
    <3>2. sel' = sel
      BY <2>8 DEF TxTest, Branch
    <3>3. pc' = IF HasRoom THEN "txWrite" ELSE "txClear"
      BY <2>8, <3>1, BranchGoes DEF TxTest
    <3>4. pc = "txTest"
      BY <2>8 DEF TxTest, Branch
    <3> QED BY <1>1, <1>4, <3>1, <3>2, <3>3, <3>4 DEF HasRoom, Calm, InSteps, OutSteps,
        OnEndpoint, OutHeld, InHeld, bus, inSide, outSide
  <2>9. CASE TxWait
    <3>1. pc \in InSteps /\ pc \notin Calm /\ Reaches("IN")
      BY <2>9 DEF TxWait, Wait, Reaches, OnEndpoint, InSteps, Calm
    <3>2. sel' = sel
      BY <2>9 DEF TxWait, Wait
    <3>3. (pc' = "txWrite" /\ inReady = TRUE) \/ pc' = "print"
      BY <2>9, <3>1, WaitGoes DEF TxWait
    <3>4. pc = "txWait"
      BY <2>9 DEF TxWait, Wait
    <3>5. SIZE > Len(<<>>)
      BY StreamAssumption DEF StreamAssumption
    <3> QED BY <1>1, <1>4, <3>1, <3>2, <3>3, <3>4, <3>5 DEF HasRoom, Calm, InSteps, OutSteps,
        OnEndpoint, OutHeld, InHeld, bus, inSide, outSide
  <2>10. CASE EndPrint
    BY <1>1, <1>2, <1>4, <2>10 DEF EndPrint, Goto, Ready, Calm, InSteps, OutSteps, StreamInv,
        OnEndpoint, OutHeld, InHeld, bus, inSide, outSide
  <2>11. CASE TaskEnter
    BY <1>1, <1>2, <1>4, <2>11 DEF TaskEnter, Enter, Goto, Ready, Calm, InSteps, OutSteps,
        StreamInv, OnEndpoint, OutHeld, InHeld, bus, inSide, outSide
  <2>12. CASE TaskSelect
    BY <1>1, <1>2, <1>4, <2>12 DEF TaskSelect, Select, Goto, Ready, Calm, InSteps, OutSteps,
        StreamInv, OnEndpoint, OutHeld, InHeld, bus, inSide, outSide
  <2>13. CASE TaskReady
    <3>1. pc \in InSteps \cup OutSteps /\ pc \notin Calm /\ Reaches("IN")
      BY <2>13 DEF TaskReady, Branch, Reaches, OnEndpoint, InSteps, OutSteps, Calm
    <3>2. sel' = sel
      BY <2>13 DEF TaskReady, Branch
    <3>3. pc' = IF inReady THEN "flush" ELSE "read"
      BY <2>13, <3>1, BranchGoes DEF TaskReady
    <3>4. pc = "taskReady"
      BY <2>13 DEF TaskReady, Branch
    <3> QED BY <1>1, <1>4, <3>1, <3>2, <3>3, <3>4 DEF HasRoom, Calm, InSteps, OutSteps,
        OnEndpoint, OutHeld, InHeld, bus, inSide, outSide
  <2>14. CASE FlushEnter
    BY <1>1, <1>2, <1>4, <2>14 DEF FlushEnter, Enter, Goto, Ready, Calm, InSteps, OutSteps,
        StreamInv, OnEndpoint, OutHeld, InHeld, bus, inSide, outSide
  <2>15. CASE FlushSelect
    BY <1>1, <1>2, <1>4, <2>15 DEF FlushSelect, Select, Goto, Ready, Calm, InSteps, OutSteps,
        StreamInv, OnEndpoint, OutHeld, InHeld, bus, inSide, outSide
  <2>16. CASE FlushCount
    <3>1. pc \in InSteps \cup OutSteps /\ pc \notin Calm /\ Reaches("IN")
      BY <2>16 DEF FlushCount, Branch, Reaches, OnEndpoint, InSteps, OutSteps, Calm
    <3>2. sel' = sel
      BY <2>16 DEF FlushCount, Branch
    <3>3. pc' = IF inBank # <<>> THEN "flushFull" ELSE "read"
      BY <2>16, <3>1, BranchGoes DEF FlushCount
    <3>4. pc = "flushCount"
      BY <2>16 DEF FlushCount, Branch
    <3> QED BY <1>1, <1>4, <3>1, <3>2, <3>3, <3>4 DEF HasRoom, Calm, InSteps, OutSteps,
        OnEndpoint, OutHeld, InHeld, bus, inSide, outSide
  <2>17. CASE FlushFull
    <3>1. pc \in InSteps \cup OutSteps /\ pc \notin Calm /\ Reaches("IN")
      BY <2>17 DEF FlushFull, Branch, Reaches, OnEndpoint, InSteps, OutSteps, Calm
    <3>2. sel' = sel
      BY <2>17 DEF FlushFull, Branch
    <3>3. pc' = IF HasRoom THEN "flushPart" ELSE "flushAll"
      BY <2>17, <3>1, BranchGoes DEF FlushFull
    <3>4. pc = "flushFull"
      BY <2>17 DEF FlushFull, Branch
    <3> QED BY <1>1, <1>4, <3>1, <3>2, <3>3, <3>4 DEF HasRoom, Calm, InSteps, OutSteps,
        OnEndpoint, OutHeld, InHeld, bus, inSide, outSide
  <2>18. CASE FlushWait
    <3>1. pc \in InSteps /\ pc \notin Calm /\ Reaches("IN")
      BY <2>18 DEF FlushWait, Wait, Reaches, OnEndpoint, InSteps, Calm
    <3>2. sel' = sel
      BY <2>18 DEF FlushWait, Wait
    <3>3. (pc' = "flushEmpty" /\ inReady = TRUE) \/ pc' = "read"
      BY <2>18, <3>1, WaitGoes DEF FlushWait
    <3>4. pc = "flushWait"
      BY <2>18 DEF FlushWait, Wait
    <3>5. SIZE > Len(<<>>)
      BY StreamAssumption DEF StreamAssumption
    <3> QED BY <1>1, <1>4, <3>1, <3>2, <3>3, <3>4, <3>5 DEF HasRoom, Calm, InSteps, OutSteps,
        OnEndpoint, OutHeld, InHeld, bus, inSide, outSide
  <2> QED BY <2>1, <2>2, <2>3, <2>4, <2>5, <2>6, <2>7, <2>8, <2>9, <2>10, <2>11, <2>12,
      <2>13, <2>14, <2>15, <2>16, <2>17, <2>18 DEF Quiet
<1>5. pc' \in Calm => (OnEndpoint /\ OutHeld /\ InHeld)'
  BY DEF Calm, InSteps, OutSteps, OnEndpoint, OutHeld, InHeld
<1> QED BY <1>1, <1>2, <1>3, <1>4, <1>5 DEF StreamInv, bus, outSide

LEMMA HandInv == StreamInv /\ (TxClear \/ FlushPart \/ FlushAll \/ FlushEmpty) => StreamInv'
<1> SUFFICES ASSUME StreamInv, TxClear \/ FlushPart \/ FlushAll \/ FlushEmpty PROVE StreamInv'
  OBVIOUS
<1>1. UNCHANGED <<bus, baud, sel, inBank, seen, outSide, printed, upsets>>
  BY DEF TxClear, FlushPart, FlushAll, FlushEmpty, ClearIN
<1>2. inReady' = (inReady /\ ~Reaches("IN"))
  BY DEF TxClear, FlushPart, FlushAll, FlushEmpty, ClearIN
<1>3. /\ pc' \in {"txWait", "read", "flushWait"} /\ pc \in InSteps /\ pc \notin Calm
      /\ shaken' = (shaken /\ pc' \notin Calm)
  BY DEF TxClear, FlushPart, FlushAll, FlushEmpty, ClearIN, Goto, InSteps, Calm
<1>4. StreamTypeOK'
  BY <1>1, <1>2, <1>3 DEF StreamInv, StreamTypeOK, BusTypeOK, Locations, Calm, InSteps, bus,
      outSide
<1>5. ASSUME ~shaken', pc' \notin Calm PROVE (OnEndpoint /\ OutHeld /\ InHeld)'
  <2>1. ~shaken /\ sel = "IN" /\ ~frozen
    BY <1>3, <1>5 DEF StreamInv, OnEndpoint
  <2>2. ~inReady'
    BY <1>2, <2>1 DEF Reaches
  <2> QED BY <1>1, <1>3, <2>1, <2>2 DEF OnEndpoint, OutHeld, InHeld, InSteps, OutSteps, bus
<1>6. pc' \in Calm => (OnEndpoint /\ OutHeld /\ InHeld)'
  BY DEF Calm, InSteps, OutSteps, OnEndpoint, OutHeld, InHeld
<1> QED BY <1>1, <1>3, <1>4, <1>5, <1>6 DEF StreamInv, bus, outSide

LEMMA RxInv == StreamInv /\ (RxRead \/ RxClear) => StreamInv'
<1> SUFFICES ASSUME StreamInv, RxRead \/ RxClear PROVE StreamInv'
  OBVIOUS
<1>1. UNCHANGED <<bus, baud, sel, inSide, typed, printed, upsets>>
  BY DEF RxRead, RxClear
<1>2. pc' \in Locations /\ shaken' = (shaken /\ pc' \notin Calm)
  BY DEF RxRead, RxClear, Goto, Locations, OutSteps, Calm
<1>3. /\ outBank' \in Seq(Nat) /\ Len(outBank') <= SIZE /\ got' \in Seq(Nat) /\ outRx' \in BOOLEAN
      /\ outBank' # <<>> => outRx'
  <2> <<>> \in Seq(Nat) /\ Len(<<>>) <= SIZE
    BY StreamAssumption DEF StreamAssumption
  <2>1. CASE RxClear
    <3>1. outBank' \in {outBank,
        <<>>} /\ got' = got /\ outRx' \in BOOLEAN /\ (outBank' # <<>> => outRx')
      BY <2>1 DEF RxClear, StreamInv, StreamTypeOK
    <3> QED BY <3>1 DEF StreamInv, StreamTypeOK
  <2>2. CASE RxRead
    <3>1. CASE Reaches("OUT") /\ outBank # <<>>
      <4>1. got' = Append(got, Head(outBank)) /\ outBank' = Tail(outBank) /\ outRx' = outRx
        BY <2>2, <3>1 DEF RxRead
      <4>2. /\ Head(outBank) \in Nat /\ Tail(outBank) \in Seq(Nat)
            /\ Len(Tail(outBank)) = Len(outBank) - 1
        BY <3>1, HeadTailProperties DEF StreamInv, StreamTypeOK
      <4> QED BY <3>1, <4>1, <4>2, StreamAssumption DEF StreamAssumption, StreamInv,
          StreamTypeOK
    <3>2. CASE ~(Reaches("OUT") /\ outBank # <<>>)
      <4>1. got' = Append(got, 0) /\ outBank' = outBank /\ outRx' = outRx
        BY <2>2, <3>2 DEF RxRead
      <4> QED BY <4>1 DEF StreamInv, StreamTypeOK
    <3> QED BY <3>1, <3>2
  <2> QED BY <2>1, <2>2
<1>4. StreamTypeOK'
  BY <1>1, <1>2, <1>3 DEF StreamInv, StreamTypeOK, BusTypeOK, bus, inSide
<1>5. ASSUME ~shaken', pc' \notin Calm PROVE (OnEndpoint /\ OutHeld /\ InHeld)'
  <2>1. ~shaken /\ pc = "rxRead" /\ pc' = "rxLast" /\ outRx' = outRx
    BY <1>2, <1>5 DEF RxRead, RxClear, Goto, Calm
  <2> QED BY <1>1, <2>1 DEF StreamInv, OnEndpoint, OutHeld, InHeld, InSteps, OutSteps, Calm,
      bus
<1>6. pc' \in Calm => (OnEndpoint /\ OutHeld /\ InHeld)'
  BY DEF Calm, InSteps, OutSteps, OnEndpoint, OutHeld, InHeld
<1> QED BY <1>1, <1>2, <1>3, <1>4, <1>5, <1>6 DEF StreamInv, bus

LEMMA TxInv == StreamInv /\ TxWrite => StreamInv'
<1> SUFFICES ASSUME StreamInv, TxWrite PROVE StreamInv'
  OBVIOUS
<1>1. printed' \in Nat /\ inBank' \in Seq(Nat) /\ Len(inBank') <= SIZE
  BY StreamAssumption DEF StreamAssumption, TxWrite, HasRoom, StreamInv, StreamTypeOK
<1>2. pc' = "print" /\ shaken' = FALSE
  BY DEF TxWrite, Goto, Calm
<1>3. UNCHANGED <<bus, baud, sel, inReady, seen, outSide, upsets>>
  BY DEF TxWrite
<1>4. StreamTypeOK'
  BY <1>1, <1>2, <1>3 DEF StreamInv, StreamTypeOK, BusTypeOK, Locations, Calm, bus, outSide
<1> QED BY <1>2, <1>3, <1>4 DEF StreamInv, Calm, InSteps, OutSteps, OnEndpoint, OutHeld,
    InHeld, bus, outSide

LEMMA HostInv == StreamInv /\ Host => StreamInv'
<1> SUFFICES ASSUME StreamInv, Host PROVE StreamInv'
  OBVIOUS
<1>1. UNCHANGED <<bus, sel, pc, got, printed, upsets, shaken>>
  BY DEF Host, TakePacket, SendPacket, SetLineEncoding, KeepSelection, outSide
<1>2. CASE TakePacket
  <2>1. seen' \in Seq(Nat) /\ inBank' = <<>> /\ inReady' = TRUE /\ ~inReady
    BY <1>2 DEF TakePacket, StreamInv, StreamTypeOK
  <2>2. UNCHANGED <<baud, outSide>>
    BY <1>2 DEF TakePacket
  <2>3. StreamTypeOK'
    BY <1>1, <2>1, <2>2, StreamAssumption
       DEF StreamAssumption, StreamInv, StreamTypeOK, BusTypeOK, bus, outSide
  <2>4. 0 < SIZE /\ Len(<<>>) = 0
    BY StreamAssumption DEF StreamAssumption
  <2> QED BY <1>1, <2>1, <2>2, <2>3, <2>4
       DEF StreamInv, OnEndpoint, OutHeld, InHeld, HasRoom, bus, outSide
<1>3. CASE SendPacket
  <2>1. PICK n \in 0 .. SIZE : typed' = typed + n /\ outBank' = [k \in 1 .. n |-> typed + k]
    BY <1>3 DEF SendPacket
  <2>2. outBank' \in Seq(Nat) /\ Len(outBank') = n /\ n \in Nat /\ n <= SIZE
    BY <2>1, PacketIsSeq, StreamAssumption DEF StreamAssumption, StreamInv, StreamTypeOK
  <2>3. UNCHANGED <<baud, inSide>> /\ ~outRx /\ outRx' = TRUE
    BY <1>3 DEF SendPacket
  <2>4. StreamTypeOK'
    BY <1>1, <2>1, <2>2, <2>3 DEF StreamInv, StreamTypeOK, BusTypeOK, bus, inSide
  <2> QED BY <1>1, <2>3, <2>4 DEF StreamInv, OnEndpoint, OutHeld, InHeld, HasRoom, bus, inSide
<1>4. CASE SetLineEncoding
  <2>1. UNCHANGED <<inSide, outSide>> /\ baud' \in BOOLEAN
    BY <1>4 DEF SetLineEncoding
  <2>2. StreamTypeOK'
    BY <1>1, <2>1 DEF StreamInv, StreamTypeOK, BusTypeOK, bus, inSide, outSide
  <2> QED BY <1>1, <2>1, <2>2 DEF StreamInv, OnEndpoint, OutHeld, InHeld, HasRoom, bus,
      inSide, outSide
<1> QED BY <1>2, <1>3, <1>4 DEF Host

(* Upsets either leave no call unshaken or come between two calls.          *)
Upsetting == Reset \/ Suspend \/ (\E c \in 0 .. 1 : SetConfiguration(c)) \/ ClearHalt

LEMMA UpsetTypes == StreamInv /\ Upsetting => StreamTypeOK' /\ (outBank' # <<>> => outRx')
<1> SUFFICES ASSUME StreamInv, Upsetting PROVE StreamTypeOK' /\ (outBank' # <<>> => outRx')
  OBVIOUS
<1>0. Disturb
  BY DEF Upsetting, Reset, Suspend, SetConfiguration, ClearHalt
<1>1. UNCHANGED <<pc, seen, typed, got, printed>> /\ upsets' \in Nat /\ shaken' \in BOOLEAN
  BY <1>0 DEF Disturb, StreamInv, StreamTypeOK
<1>2. /\ inBank' \in {inBank, <<>>} /\ outBank' \in {outBank, <<>>} /\ sel' \in Endpoints
      /\ inReady' \in BOOLEAN /\ outRx' \in BOOLEAN /\ baud' \in BOOLEAN
      /\ outBank' # <<>> => outRx'
  BY DEF Upsetting, Reset, Suspend, SetConfiguration, ClearHalt, EmptyBanks, KeepSelection,
         StreamInv, StreamTypeOK, Endpoints, banks
<1>3. BusTypeOK'
  <2>1. CASE Reset
    <3>1. config' \in 0 .. 1
      BY <2>1, SMT DEF Reset, BusReset
    <3> QED BY <2>1, <3>1, Zenon DEF Reset, BusReset, StreamInv, StreamTypeOK, BusTypeOK,
        States
  <2>2. CASE Suspend
    BY <2>2 DEF Suspend, BusSuspend, StreamInv, StreamTypeOK, BusTypeOK, States
  <2>3. ASSUME NEW c \in 0 .. 1, SetConfiguration(c) PROVE BusTypeOK'
    <3>1. config' \in 0 .. 1 /\ state' \in States
      BY <2>3, Zenon DEF SetConfiguration, StateAfterConfiguration, States
    <3> QED BY <2>3, <3>1, Zenon DEF SetConfiguration, StreamInv, StreamTypeOK, BusTypeOK
  <2>4. CASE ClearHalt
    BY <2>4 DEF ClearHalt, StreamInv, StreamTypeOK, BusTypeOK, bus
  <2> QED BY <2>1, <2>2, <2>3, <2>4 DEF Upsetting
<1>4. Len(<<>>) <= SIZE /\ <<>> \in Seq(Nat)
  BY StreamAssumption DEF StreamAssumption
<1> QED BY <1>1, <1>2, <1>3, <1>4 DEF StreamInv, StreamTypeOK

LEMMA UpsetInv == StreamInv /\ Upsetting => StreamInv'
<1> SUFFICES ASSUME StreamInv, Upsetting PROVE StreamInv'
  OBVIOUS
<1>1. pc' = pc /\ shaken' = (shaken \/ pc \notin Calm)
  BY DEF Upsetting, Reset, Suspend, SetConfiguration, ClearHalt, Disturb
<1>2. frozen' => state' = "Unattached"
  <2>1. CASE Reset
    BY <2>1 DEF Reset, BusReset
  <2>2. CASE Suspend
    BY <2>2 DEF Suspend, BusSuspend
  <2>3. ASSUME NEW c \in 0 .. 1, SetConfiguration(c) PROVE ~frozen'
    BY <2>3 DEF SetConfiguration
  <2>4. CASE ClearHalt
    BY <2>4 DEF ClearHalt, StreamInv, bus
  <2> QED BY <2>1, <2>2, <2>3, <2>4 DEF Upsetting
<1> QED BY <1>1, <1>2, UpsetTypes DEF StreamInv, Calm, InSteps, OutSteps, OnEndpoint,
    OutHeld, InHeld

LEMMA WakeInv == StreamInv /\ (Wake \/ SetAddress) => StreamInv'
<1> SUFFICES ASSUME StreamInv, Wake \/ SetAddress PROVE StreamInv'
  OBVIOUS
<1>1. UNCHANGED <<baud, sel, pc, inSide, outSide, printed, upsets, shaken>> /\ ~frozen'
  BY DEF Wake, BusWake, SetAddress, KeepSelection
<1>2. BusTypeOK'
  BY DEF Wake, BusWake, Resumed, SetAddress, SetAddressState, StreamInv, StreamTypeOK,
      BusTypeOK, States
<1>3. StreamTypeOK'
  BY <1>1, <1>2 DEF StreamInv, StreamTypeOK, inSide, outSide
<1> QED BY <1>1, <1>3 DEF StreamInv, OnEndpoint, OutHeld, InHeld, HasRoom, inSide, outSide

LEMMA StutterInv == StreamInv /\ UNCHANGED vars => StreamInv'
BY DEF StreamInv, StreamTypeOK, BusTypeOK, OnEndpoint, OutHeld, InHeld, HasRoom, vars, bus,
    inSide, outSide

LEMMA InvNext == StreamInv /\ [Next]_vars => StreamInv'
BY QuietInv, HandInv, RxInv, TxInv, HostInv, UpsetInv, WakeInv, StutterInv
   DEF Next, Main, Bus, Quiet, Upsetting

LEMMA InvHolds == Spec => []StreamInv
BY InvInit, InvNext, PTL DEF Spec

(* The variables keep their ranges and the banks never overflow.            *)
THEOREM StreamTypeCorrect == Spec => []StreamTypeOK
<1>1. StreamInv => StreamTypeOK
  BY DEF StreamInv
<1> QED BY <1>1, InvHolds, PTL

-----------------------------------------------------------------------------
(* Both directions implement ByteStream                                     *)

LEMMA OneMore ==
    ASSUME NEW s \in Seq(Nat), NEW n \in Nat
    PROVE  s \o [k \in 1 .. 1 |-> n + k] = Append(s, n + 1)
<1>1. [k \in 1 .. 1 |-> n + k] = <<n + 1>>
  <2>1. [k \in 1 .. 1 |-> n + k] \in Seq(Nat) /\ Len([k \in 1 .. 1 |-> n + k]) = 1
    BY PacketIsSeq
  <2>2. [k \in 1 .. 1 |-> n + k][1] = n + 1
    OBVIOUS
  <2> QED BY <2>1, <2>2
<1> QED BY <1>1

LEMMA WholeAndNone ==
    ASSUME NEW s \in Seq(Nat)
    PROVE  SubSeq(s, 1, Len(s)) = s /\ SubSeq(s, Len(s) + 1, Len(s)) = <<>>
OBVIOUS

LEMMA FirstAndRest ==
    ASSUME NEW s \in Seq(Nat), s # <<>>, NEW h \in Seq(Nat)
    PROVE  /\ h \o SubSeq(s, 1, 1) = Append(h, Head(s))
           /\ SubSeq(s, 1 + 1, Len(s)) = Tail(s)
           /\ 1 \in 1 .. Len(s)
<1>1. Len(s) \in Nat /\ Len(s) >= 1
  BY EmptySeq
<1>2. SubSeq(s, 1, 1) = <<Head(s)>>
  <2>1. SubSeq(s, 1, 1) \in Seq(Nat) /\ Len(SubSeq(s, 1, 1)) = 1 /\ SubSeq(s, 1, 1)[1] = s[1]
    BY <1>1, SubSeqProperties
  <2>2. Head(s) = s[1] /\ <<Head(s)>> \in Seq(Nat) /\ Len(<<Head(s)>>) = 1 /\ <<Head(s)>>[1] = s[1]
    BY <1>1, HeadTailProperties
  <2>3. \A j \in 1 .. Len(SubSeq(s, 1, 1)) : SubSeq(s, 1, 1)[j] = <<Head(s)>>[j]
    BY <2>1, <2>2
  <2> QED BY <2>1, <2>2, <2>3, SeqEqual, Zenon
<1>3. 1 + 1 = 2 /\ SubSeq(s, 2, Len(s)) = Tail(s)
  BY <1>1
<1> QED BY <1>1, <1>2, <1>3

(* A step that leaves a direction alone; the interrupted call may return.   *)
Settling == shaken' = shaken \/ shaken' = FALSE

LEMMA RepliesIdle ==
    ASSUME StreamTypeOK, UNCHANGED <<printed, inBank, seen, upsets>>, Settling
    PROVE  [Replies!Next]_(Replies!stream)
BY DEF Settling, StreamTypeOK, Replies!Next, Replies!Astray, Replies!Undisturbed,
    Replies!stream

LEMMA TypingIdle ==
    ASSUME StreamTypeOK, UNCHANGED <<typed, outBank, got, upsets>>, Settling
    PROVE  [Typing!Next]_(Typing!stream)
BY DEF Settling, StreamTypeOK, Typing!Next, Typing!Astray, Typing!Undisturbed, Typing!stream

LEMMA MainSettles == StreamTypeOK /\ Main => Settling /\ upsets' = upsets
<1> SUFFICES ASSUME StreamTypeOK, Main PROVE Settling /\ upsets' = upsets
  OBVIOUS
<1>1. CASE Quiet
  BY <1>1 DEF Quiet, Settling, StreamTypeOK, Goto, Enter, Select, Branch, Wait, RxEnter,
      RxSelect, RxTest,
     RxCount, RxLast, TxEnter, TxSelect, TxTest, TxWait, EndPrint, TaskEnter, TaskSelect,
         TaskReady,
     FlushEnter, FlushSelect, FlushCount, FlushFull, FlushWait
<1>2. CASE ~Quiet
  BY <1>2 DEF Quiet, Main, Settling, StreamTypeOK, Goto, ClearIN, RxRead, RxClear, TxClear,
      TxWrite,
     FlushPart, FlushAll, FlushEmpty
<1> QED BY <1>1, <1>2

LEMMA MainReplies == StreamInv /\ Main /\ ~TxWrite => UNCHANGED <<printed, inBank, seen>>
<1> SUFFICES ASSUME Main, ~TxWrite PROVE UNCHANGED <<printed, inBank, seen>>
  OBVIOUS
<1>1. CASE Quiet
  BY <1>1 DEF Quiet, Enter, Select, Branch, Wait, RxEnter, RxSelect, RxTest, inSide,
     RxCount, RxLast, TxEnter, TxSelect, TxTest, TxWait, EndPrint, TaskEnter, TaskSelect,
         TaskReady,
     FlushEnter, FlushSelect, FlushCount, FlushFull, FlushWait
<1>2. CASE ~Quiet
  BY <1>2 DEF Quiet, Main, ClearIN, RxRead, RxClear, TxClear, FlushPart, FlushAll,
      FlushEmpty, inSide
<1> QED BY <1>1, <1>2

LEMMA MainTyping == StreamInv /\ Main /\ ~RxRead /\ ~RxClear => UNCHANGED <<typed, outBank,
    got>>
<1> SUFFICES ASSUME Main, ~RxRead, ~RxClear PROVE UNCHANGED <<typed, outBank, got>>
  OBVIOUS
<1>1. CASE Quiet
  BY <1>1 DEF Quiet, Enter, Select, Branch, Wait, RxEnter, RxSelect, RxTest, outSide,
     RxCount, RxLast, TxEnter, TxSelect, TxTest, TxWait, EndPrint, TaskEnter, TaskSelect,
         TaskReady,
     FlushEnter, FlushSelect, FlushCount, FlushFull, FlushWait
<1>2. CASE ~Quiet
  BY <1>2 DEF Quiet, Main, ClearIN, TxClear, TxWrite, FlushPart, FlushAll, FlushEmpty, outSide
<1> QED BY <1>1, <1>2

LEMMA RepliesStep == StreamInv /\ [Next]_vars => [Replies!Next]_(Replies!stream)
<1> SUFFICES ASSUME StreamInv, [Next]_vars PROVE [Replies!Next]_(Replies!stream)
  OBVIOUS
<1>0. StreamTypeOK
  BY DEF StreamInv
<1>1. CASE Main /\ ~TxWrite
  BY <1>0, <1>1, MainSettles, MainReplies, RepliesIdle
<1>2. CASE TxWrite
  <2>1. Settling /\ upsets' = upsets /\ printed' = printed + 1 /\ seen' = seen
    BY <1>0, <1>2, MainSettles DEF Main, TxWrite
  <2>2. CASE Reaches("IN") /\ HasRoom
    <3>1. inBank' = Append(inBank, printed + 1) /\ Len(inBank) + 1 <= SIZE
      BY <1>0, <1>2, <2>2, StreamAssumption DEF StreamAssumption, TxWrite, HasRoom,
          StreamTypeOK
    <3>2. inBank' = inBank \o [k \in 1 .. 1 |-> printed + k]
      BY <1>0, <3>1, OneMore DEF StreamTypeOK
    <3>3. Replies!Write(1)
      BY <1>0, <2>1, <3>1, <3>2 DEF Settling, StreamTypeOK, Replies!Write, Replies!Numbered,
          Replies!Undisturbed
    <3>4. 1 \in 1 .. SIZE
      BY StreamAssumption DEF StreamAssumption
    <3> QED BY <3>3, <3>4 DEF Replies!Next
  <2>3. CASE ~(Reaches("IN") /\ HasRoom)
    <3>1. shaken = TRUE
      BY <1>0, <1>2, <2>3 DEF TxWrite, StreamInv, StreamTypeOK, OnEndpoint, InHeld, InSteps,
          Calm, Reaches
    <3>2. inBank' = inBank
      BY <1>2, <2>3 DEF TxWrite
    <3> QED BY <2>1, <3>1, <3>2 DEF Settling, Replies!Next, Replies!Astray,
        Replies!Undisturbed
  <2> QED BY <2>2, <2>3
<1>3. CASE TakePacket
  <2>1. UNCHANGED <<printed, upsets, shaken>> /\ seen' = seen \o inBank /\ inBank' = <<>>
    BY <1>3 DEF TakePacket
  <2>2. CASE inBank = <<>>
    <3>1. seen' = seen
      BY <1>0, <2>1, <2>2 DEF StreamTypeOK
    <3> QED BY <1>0, <2>1, <2>2, <3>1, RepliesIdle DEF Settling
  <2>3. CASE inBank # <<>>
    <3>1. Len(inBank) \in 1 .. Len(inBank)
      BY <1>0, <2>3, FirstAndRest DEF StreamTypeOK
    <3>2. Replies!Read(Len(inBank))
      BY <1>0, <2>1, WholeAndNone DEF StreamTypeOK, Replies!Read, Replies!Undisturbed
    <3> QED BY <3>1, <3>2 DEF Replies!Next
  <2> QED BY <2>2, <2>3
<1>4. CASE SendPacket \/ SetLineEncoding \/ Wake \/ SetAddress \/ UNCHANGED vars
  BY <1>0, <1>4, RepliesIdle DEF SendPacket, SetLineEncoding, Wake, SetAddress, vars, inSide,
      Settling
<1>5. CASE Upsetting
  <2>1. Disturb /\ inBank' \in {inBank, <<>>}
    BY <1>5 DEF Upsetting, Reset, Suspend, SetConfiguration, ClearHalt, EmptyBanks, banks
  <2>2. shaken' \in BOOLEAN
    BY <1>5, UpsetTypes DEF StreamTypeOK
  <2> QED BY <2>1, <2>2 DEF Disturb, Replies!Next, Replies!Upset
<1> QED BY <1>1, <1>2, <1>3, <1>4, <1>5 DEF Next, Host, Bus, Upsetting

LEMMA TypingStep == StreamInv /\ [Next]_vars => [Typing!Next]_(Typing!stream)
<1> SUFFICES ASSUME StreamInv, [Next]_vars PROVE [Typing!Next]_(Typing!stream)
  OBVIOUS
<1>0. StreamTypeOK
  BY DEF StreamInv
<1>1. CASE Main /\ ~RxRead /\ ~RxClear
  BY <1>0, <1>1, MainSettles, MainTyping, TypingIdle
<1>2. CASE RxRead
  <2>1. Settling /\ upsets' = upsets /\ typed' = typed
    BY <1>0, <1>2, MainSettles DEF Main, RxRead
  <2>2. CASE Reaches("OUT") /\ outBank # <<>>
    <3>1. got' = Append(got, Head(outBank)) /\ outBank' = Tail(outBank)
      BY <1>2, <2>2 DEF RxRead
    <3>2. Typing!Read(1) /\ 1 \in 1 .. Len(outBank)
      BY <1>0, <2>1, <2>2, <3>1, FirstAndRest DEF Settling, StreamTypeOK, Typing!Read,
          Typing!Undisturbed
    <3> QED BY <3>2 DEF Typing!Next
  <2>3. CASE ~(Reaches("OUT") /\ outBank # <<>>)
    <3>1. shaken = TRUE
      BY <1>0, <1>2, <2>3 DEF RxRead, StreamInv, StreamTypeOK, OnEndpoint, OutHeld, OutSteps,
          Calm, Reaches
    <3>2. got' = Append(got, 0) /\ outBank' = outBank
      BY <1>2, <2>3 DEF RxRead
    <3> QED BY <2>1, <3>1, <3>2 DEF Settling, Typing!Next, Typing!Astray, Typing!Undisturbed
  <2> QED BY <2>2, <2>3
<1>3. CASE RxClear
  <2>1. Settling /\ upsets' = upsets /\ typed' = typed /\ got' = got /\ outBank' \in {outBank, <<>>}
    BY <1>0, <1>3, MainSettles DEF Main, RxClear
  <2>2. CASE outBank' = outBank
    BY <1>0, <2>1, <2>2, TypingIdle
  <2>3. CASE outBank' # outBank
    <3>1. shaken = TRUE
      BY <1>0, <1>3, <2>1, <2>3 DEF RxClear, StreamInv, StreamTypeOK, OutHeld
    <3> QED BY <2>1, <2>3, <3>1 DEF Settling, Typing!Next, Typing!Astray, Typing!Undisturbed
  <2> QED BY <2>2, <2>3
<1>4. CASE SendPacket
  <2>1. PICK n \in 0 .. SIZE : typed' = typed + n /\ outBank' = [k \in 1 .. n |-> typed + k]
    BY <1>4 DEF SendPacket
  <2>2. UNCHANGED <<got, upsets, shaken>> /\ outBank = <<>>
    BY <1>4 DEF SendPacket, StreamInv
  <2>3. n \in Nat /\ n <= SIZE /\ SIZE \in Nat
    BY StreamAssumption DEF StreamAssumption
  <2>4. outBank' \in Seq(Nat) /\ Len(outBank') = n
    BY <1>0, <2>1, <2>3, PacketIsSeq DEF StreamTypeOK
  <2>5. CASE n = 0
    <3>1. typed' = typed /\ outBank' = outBank
      BY <1>0, <2>1, <2>2, <2>4, <2>5, EmptySeq DEF StreamTypeOK
    <3> QED BY <1>0, <2>2, <3>1, TypingIdle DEF Settling
  <2>6. CASE n # 0
    <3>1. outBank' = outBank \o [k \in 1 .. n |-> typed + k]
      BY <2>1, <2>2, <2>4
    <3>2. Typing!Write(n)
      BY <2>1, <2>2, <2>3, <3>1 DEF Typing!Write, Typing!Numbered, Typing!Undisturbed
    <3>3. n \in 1 .. SIZE
      BY <2>3, <2>6
    <3> QED BY <3>2, <3>3 DEF Typing!Next
  <2> QED BY <2>5, <2>6
<1>5. CASE TakePacket \/ SetLineEncoding \/ Wake \/ SetAddress \/ UNCHANGED vars
  BY <1>0, <1>5, TypingIdle DEF TakePacket, SetLineEncoding, Wake, SetAddress, vars, outSide,
      Settling
<1>6. CASE Upsetting
  <2>1. Disturb /\ outBank' \in {outBank, <<>>}
    BY <1>6 DEF Upsetting, Reset, Suspend, SetConfiguration, ClearHalt, EmptyBanks, banks
  <2>2. shaken' \in BOOLEAN
    BY <1>6, UpsetTypes DEF StreamTypeOK
  <2> QED BY <2>1, <2>2 DEF Disturb, Typing!Next, Typing!Upset
<1> QED BY <1>1, <1>2, <1>3, <1>4, <1>5, <1>6 DEF Next, Host, Bus, Upsetting

(* For banks of any size, bytes printed reach the host in order, once and   *)
(* without gaps, but for what an upset drops or leads astray.               *)
THEOREM RepliesImplement == Spec => RepliesStream
<1>1. Init => Replies!Init
  BY DEF Init, Replies!Init
<1> QED BY <1>1, RepliesStep, InvHolds, PTL DEF Spec, RepliesStream, Replies!Spec

(* And so do the bytes of the host reach the main loop.                     *)
THEOREM TypingImplements == Spec => TypingStream
<1>1. Init => Typing!Init
  BY DEF Init, Typing!Init
<1> QED BY <1>1, TypingStep, InvHolds, PTL DEF Spec, TypingStream, Typing!Spec

-----------------------------------------------------------------------------
(* No upset brings bytes out of order, or one twice *)

(* What was received and what is under way is in the order it was sent,     *)
(* but for the byte 0 that nobody sent.                                     *)
InOrder(sent, flight, heard) ==
    /\ \A j \in 1 .. Len(flight) : flight[j] \in 1 .. sent
    /\ \A j, k \in 1 .. Len(flight) : j < k => flight[j] < flight[k]
    /\ \A j \in 1 .. Len(heard) : heard[j] \in 0 .. sent
    /\ \A j, k \in 1 .. Len(heard) : j < k /\ heard[k] # 0 => heard[j] < heard[k]
    /\ \A j \in 1 .. Len(heard), k \in 1 .. Len(flight) : heard[j] < flight[k]

LEMMA Joined ==
    ASSUME NEW h \in Seq(Nat), NEW p \in Seq(Nat), NEW n \in Nat, Len(p) = n
    PROVE  /\ h \o p \in Seq(Nat) /\ Len(h \o p) = Len(h) + n
           /\ \A k \in 1 .. Len(h \o p) :
                \/ k \in 1 .. Len(h) /\ (h \o p)[k] = h[k]
                \/ k \notin 1 .. Len(h) /\ k - Len(h) \in 1 .. n /\ (h \o p)[k] = p[k - Len(h)]
<1> DEFINE e == h \o p
           m == Len(h)
<1>1. /\ e \in Seq(Nat) /\ Len(e) = m + Len(p) /\ m \in Nat
      /\ \A k \in 1 .. m + Len(p) : e[k] = IF k <= m THEN h[k] ELSE p[k - m]
  <2>1. m \in Nat
    OBVIOUS
  <2>2. /\ e \in Seq(Nat) /\ Len(e) = m + Len(p)
        /\ \A k \in 1 .. m + Len(p) : e[k] = IF k <= m THEN h[k] ELSE p[k - m]
    BY ConcatProperties, Zenon
  <2> QED BY <2>1, <2>2
<1> HIDE DEF e, m
<1>2. ASSUME NEW k \in 1 .. Len(e)
      PROVE  \/ k \in 1 .. m /\ e[k] = h[k]
             \/ k \notin 1 .. m /\ k - m \in 1 .. n /\ e[k] = p[k - m]
  <2>1. k \in 1 .. m + n /\ e[k] = IF k <= m THEN h[k] ELSE p[k - m]
    BY <1>1
  <2>2. CASE k <= m
    BY <1>1, <2>1, <2>2
  <2>3. CASE ~(k <= m)
    BY <1>1, <2>1, <2>3
  <2> QED BY <2>2, <2>3
<1>3. Len(e) = m + n
  BY <1>1
<1> QED BY <1>1, <1>2, <1>3 DEF e, m

LEMMA OrderWrite ==
    ASSUME NEW a \in Nat, NEW f \in Seq(Nat), NEW h \in Seq(Nat), InOrder(a, f, h),
           NEW n \in Nat, NEW g, g = f \o [k \in 1 .. n |-> a + k]
    PROVE  InOrder(a + n, g, h)
<1> DEFINE p == [k \in 1 .. n |-> a + k]
<1>1. p \in Seq(Nat) /\ Len(p) = n /\ \A k \in 1 .. n : p[k] = a + k
  BY PacketIsSeq
<1> HIDE DEF p
<1>2. Len(f) \in Nat /\ Len(h) \in Nat
  OBVIOUS
<1>3. /\ g \in Seq(Nat) /\ Len(g) = Len(f) + n
      /\ \A k \in 1 .. Len(g) :
            \/ k \in 1 .. Len(f) /\ g[k] = f[k]
            \/ k \notin 1 .. Len(f) /\ k - Len(f) \in 1 .. n /\ g[k] = p[k - Len(f)]
  <2>1. g = f \o p
    BY DEF p
  <2>2. /\ f \o p \in Seq(Nat) /\ Len(f \o p) = Len(f) + n
        /\ \A k \in 1 .. Len(f \o p) :
              \/ k \in 1 .. Len(f) /\ (f \o p)[k] = f[k]
              \/ k \notin 1 .. Len(f) /\ k - Len(f) \in 1 .. n /\ (f \o p)[k] = p[k - Len(f)]
    BY <1>1, Joined
  <2> QED BY <2>1, <2>2, Zenon
<1>4. ASSUME NEW k \in 1 .. Len(g)
      PROVE  \/ k \in 1 .. Len(f) /\ g[k] = f[k]
             \/ k \notin 1 .. Len(f) /\ k - Len(f) \in 1 .. n /\ g[k] = a + (k - Len(f))
  BY <1>1, <1>3
<1>5. \A j \in 1 .. Len(g) : g[j] \in 1 .. a + n
  <2> SUFFICES ASSUME NEW j \in 1 .. Len(g) PROVE g[j] \in 1 .. a + n
    OBVIOUS
  <2>1. j \in 1 .. Len(f) => f[j] \in 1 .. a
    BY DEF InOrder
  <2> QED BY <1>4, <2>1
<1>6. \A j, k \in 1 .. Len(g) : j < k => g[j] < g[k]
  <2> SUFFICES ASSUME NEW j \in 1 .. Len(g), NEW k \in 1 .. Len(g), j < k PROVE g[j] < g[k]
    OBVIOUS
  <2>1. j \in 1 .. Len(f) => f[j] \in 1 .. a
    BY DEF InOrder
  <2>2. j \in 1 .. Len(f) /\ k \in 1 .. Len(f) => f[j] < f[k]
    BY DEF InOrder
  <2>3. j \notin 1 .. Len(f) => k \notin 1 .. Len(f)
    BY <1>2
  <2>4. CASE k \in 1 .. Len(f)
    BY <1>4, <2>2, <2>3, <2>4
  <2>5. CASE k \notin 1 .. Len(f)
    <3>1. k - Len(f) \in 1 .. n /\ g[k] = a + (k - Len(f))
      BY <1>4, <2>5
    <3>2. \/ j \in 1 .. Len(f) /\ g[j] = f[j]
          \/ j - Len(f) \in 1 .. n /\ g[j] = a + (j - Len(f))
      BY <1>4
    <3> QED BY <1>2, <2>1, <3>1, <3>2
  <2> QED BY <2>4, <2>5
<1>7. \A j \in 1 .. Len(h) : h[j] \in 0 .. a + n
  <2> SUFFICES ASSUME NEW j \in 1 .. Len(h) PROVE h[j] \in 0 .. a + n
    OBVIOUS
  <2>1. h[j] \in 0 .. a
    BY DEF InOrder
  <2> QED BY <2>1
<1>8. \A j \in 1 .. Len(h), k \in 1 .. Len(g) : h[j] < g[k]
  <2> SUFFICES ASSUME NEW j \in 1 .. Len(h), NEW k \in 1 .. Len(g) PROVE h[j] < g[k]
    OBVIOUS
  <2>1. h[j] \in 0 .. a /\ (k \in 1 .. Len(f) => h[j] < f[k])
    BY DEF InOrder
  <2> QED BY <1>4, <2>1
<1> QED BY <1>5, <1>6, <1>7, <1>8 DEF InOrder

LEMMA OrderRead ==
    ASSUME NEW a \in Nat, NEW f \in Seq(Nat), NEW h \in Seq(Nat), InOrder(a, f, h),
           NEW n \in 1 .. Len(f), NEW g, NEW e,
           e = h \o SubSeq(f, 1, n), g = SubSeq(f, n + 1, Len(f))
    PROVE  InOrder(a, g, e)
<1> DEFINE m == Len(f)
           p == SubSeq(f, 1, n)
<1>0. m \in Nat /\ n \in Nat /\ 1 <= n /\ n <= m /\ Len(h) \in Nat /\ \A k \in 1 .. m : f[k] \in Nat
  OBVIOUS
<1>1. /\ p \in Seq(Nat) /\ Len(p) = n
      /\ \A k \in 1 .. n : p[k] = f[k]
  <2>1. 1 \in Int /\ n \in Int /\ \A k \in 1 .. n : f[k] \in Nat
    BY <1>0
  <2>2. /\ p \in Seq(Nat) /\ Len(p) = IF 1 <= n THEN n - 1 + 1 ELSE 0
        /\ \A k \in 1 .. n - 1 + 1 : p[k] = f[1 + k - 1]
    BY <2>1, SubSeqProperties
  <2> HIDE DEF p
  <2>3. Len(p) = n
    BY <1>0, <2>2
  <2>4. SUFFICES ASSUME NEW k \in 1 .. n PROVE p[k] = f[k]
    BY <2>2, <2>3
  <2>5. k \in 1 .. n - 1 + 1 /\ 1 + k - 1 = k
    BY <1>0
  <2> QED BY <2>2, <2>5
<1>2. /\ g \in Seq(Nat) /\ Len(g) = m - n
      /\ \A k \in 1 .. m - n : g[k] = f[n + k]
  <2>1. n + 1 \in Int /\ m \in Int /\ \A k \in n + 1 .. m : f[k] \in Nat
    BY <1>0
  <2>2. /\ g \in Seq(Nat) /\ Len(g) = IF n + 1 <= m THEN m - (n + 1) + 1 ELSE 0
        /\ \A k \in 1 .. m - (n + 1) + 1 : g[k] = f[n + 1 + k - 1]
    BY <2>1, SubSeqProperties
  <2> HIDE DEF m
  <2>3. Len(g) = m - n
    BY <1>0, <2>2
  <2>4. SUFFICES ASSUME NEW k \in 1 .. m - n PROVE g[k] = f[n + k]
    BY <2>2, <2>3
  <2>5. k \in 1 .. m - (n + 1) + 1 /\ n + 1 + k - 1 = n + k
    BY <1>0
  <2> QED BY <2>2, <2>5
<1> HIDE DEF p, m
<1>3. /\ e \in Seq(Nat) /\ Len(e) = Len(h) + n
      /\ \A k \in 1 .. Len(e) :
            \/ k \in 1 .. Len(h) /\ e[k] = h[k]
            \/ k \notin 1 .. Len(h) /\ k - Len(h) \in 1 .. n /\ e[k] = p[k - Len(h)]
  <2>1. e = h \o p
    BY DEF p
  <2>2. /\ h \o p \in Seq(Nat) /\ Len(h \o p) = Len(h) + n
        /\ \A k \in 1 .. Len(h \o p) :
              \/ k \in 1 .. Len(h) /\ (h \o p)[k] = h[k]
              \/ k \notin 1 .. Len(h) /\ k - Len(h) \in 1 .. n /\ (h \o p)[k] = p[k - Len(h)]
    <3>1. n \in Nat /\ p \in Seq(Nat) /\ Len(p) = n
      BY <1>0, <1>1
    <3> QED BY <3>1, Joined
  <2> QED BY <2>1, <2>2, Zenon
<1>4. ASSUME NEW k \in 1 .. Len(e)
      PROVE  \/ k \in 1 .. Len(h) /\ e[k] = h[k]
             \/ k \notin 1 .. Len(h) /\ k - Len(h) \in 1 .. n /\ k - Len(h) \in 1 .. m
                /\ e[k] = f[k - Len(h)]
  <2>1. CASE k \in 1 .. Len(h)
    BY <1>3, <2>1
  <2>2. CASE k \notin 1 .. Len(h)
    <3>1. k - Len(h) \in 1 .. n /\ e[k] = p[k - Len(h)]
      BY <1>3, <2>2
    <3>2. k - Len(h) \in 1 .. m
      BY <1>0, <3>1
    <3> QED BY <1>1, <2>2, <3>1, <3>2
  <2> QED BY <2>1, <2>2
<1>5. ASSUME NEW k \in 1 .. Len(g) PROVE n + k \in 1 .. m /\ g[k] = f[n + k]
  <2>1. k \in 1 .. m - n
    BY <1>2
  <2>2. n + k \in 1 .. m
    BY <1>0, <2>1
  <2> QED BY <1>2, <2>1, <2>2
<1>6. /\ \A j \in 1 .. m : f[j] \in 1 .. a
      /\ \A j, k \in 1 .. m : j < k => f[j] < f[k]
      /\ \A j \in 1 .. Len(h) : h[j] \in 0 .. a
      /\ \A j, k \in 1 .. Len(h) : j < k /\ h[k] # 0 => h[j] < h[k]
      /\ \A j \in 1 .. Len(h), k \in 1 .. m : h[j] < f[k]
  BY DEF InOrder, m
<1>7. \A j \in 1 .. Len(g) : g[j] \in 1 .. a
  BY <1>5, <1>6
<1>8. \A j, k \in 1 .. Len(g) : j < k => g[j] < g[k]
  <2> SUFFICES ASSUME NEW j \in 1 .. Len(g), NEW k \in 1 .. Len(g), j < k PROVE g[j] < g[k]
    OBVIOUS
  <2>1. n + j < n + k
    BY <1>0, <1>2
  <2> QED BY <1>5, <1>6, <2>1
<1>9. \A j \in 1 .. Len(e) : e[j] \in 0 .. a
  <2> SUFFICES ASSUME NEW j \in 1 .. Len(e) PROVE e[j] \in 0 .. a
    OBVIOUS
  <2>1. CASE j \in 1 .. Len(h)
    BY <1>4, <1>6, <2>1
  <2>2. CASE j \notin 1 .. Len(h)
    <3>1. e[j] = f[j - Len(h)] /\ f[j - Len(h)] \in 1 .. a
      BY <1>4, <1>6, <2>2
    <3> QED BY <3>1
  <2> QED BY <2>1, <2>2
<1>10. \A j, k \in 1 .. Len(e) : j < k /\ e[k] # 0 => e[j] < e[k]
  <2> SUFFICES ASSUME NEW j \in 1 .. Len(e), NEW k \in 1 .. Len(e), j < k, e[k] # 0
               PROVE  e[j] < e[k]
    OBVIOUS
  <2>1. CASE k \in 1 .. Len(h)
    <3>1. j \in 1 .. Len(h)
      BY <1>0, <2>1
    <3>2. e[j] = h[j] /\ e[k] = h[k]
      BY <1>4, <2>1, <3>1
    <3> QED BY <1>6, <2>1, <3>1, <3>2
  <2>2. CASE k \notin 1 .. Len(h)
    <3>1. k - Len(h) \in 1 .. m /\ e[k] = f[k - Len(h)]
      BY <1>4, <2>2
    <3>2. CASE j \in 1 .. Len(h)
      <4>1. e[j] = h[j]
        BY <1>4, <3>2
      <4> QED BY <1>6, <3>1, <3>2, <4>1
    <3>3. CASE j \notin 1 .. Len(h)
      <4>1. j - Len(h) \in 1 .. m /\ e[j] = f[j - Len(h)]
        BY <1>4, <3>3
      <4>2. j - Len(h) < k - Len(h)
        BY <1>0, <1>3
      <4> QED BY <1>6, <3>1, <4>1, <4>2
    <3> QED BY <3>2, <3>3
  <2> QED BY <2>1, <2>2
<1>11. \A j \in 1 .. Len(e), k \in 1 .. Len(g) : e[j] < g[k]
  <2> SUFFICES ASSUME NEW j \in 1 .. Len(e), NEW k \in 1 .. Len(g) PROVE e[j] < g[k]
    OBVIOUS
  <2>1. n + k \in 1 .. m /\ g[k] = f[n + k]
    BY <1>5
  <2>2. CASE j \in 1 .. Len(h)
    <3>1. e[j] = h[j]
      BY <1>4, <2>2
    <3> QED BY <1>6, <2>1, <2>2, <3>1
  <2>3. CASE j \notin 1 .. Len(h)
    <3>1. j - Len(h) \in 1 .. m /\ j - Len(h) \in 1 .. n /\ e[j] = f[j - Len(h)]
      BY <1>4, <2>3
    <3>2. j - Len(h) < n + k
      BY <1>0, <1>2, <3>1
    <3> QED BY <1>6, <2>1, <3>1, <3>2
  <2> QED BY <2>2, <2>3
<1> QED BY <1>7, <1>8, <1>9, <1>10, <1>11 DEF InOrder

LEMMA OrderDrop ==
    ASSUME NEW a \in Nat, NEW f \in Seq(Nat), NEW h \in Seq(Nat), InOrder(a, f, h)
    PROVE  InOrder(a, <<>>, h) /\ InOrder(a + 1, f, h)
<1>1. InOrder(a, <<>>, h)
  BY DEF InOrder
<1>2. InOrder(a + 1, f, h)
  <2>1. \A x \in 1 .. a : x \in 1 .. a + 1
    OBVIOUS
  <2>2. \A x \in 0 .. a : x \in 0 .. a + 1
    OBVIOUS
  <2> QED BY <2>1, <2>2 DEF InOrder
<1> QED BY <1>1, <1>2

LEMMA OrderStray ==
    ASSUME NEW a \in Nat, NEW f \in Seq(Nat), NEW h \in Seq(Nat), InOrder(a, f, h)
    PROVE  InOrder(a, f, Append(h, 0))
<1> DEFINE e == Append(h, 0)
<1>1. e \in Seq(Nat) /\ Len(e) = Len(h) + 1 /\ Len(h) \in Nat
      /\ e[Len(h) + 1] = 0 /\ \A k \in 1 .. Len(h) : e[k] = h[k]
  BY AppendProperties
<1> HIDE DEF e
<1>2. ASSUME NEW k \in 1 .. Len(e)
      PROVE  (k \in 1 .. Len(h) /\ e[k] = h[k]) \/ (k = Len(h) + 1 /\ e[k] = 0)
  BY <1>1
<1>3. \A j \in 1 .. Len(e) : e[j] \in 0 .. a
  <2> SUFFICES ASSUME NEW j \in 1 .. Len(e) PROVE e[j] \in 0 .. a
    OBVIOUS
  <2>1. 0 \in 0 .. a
    OBVIOUS
  <2> QED BY <1>2, <2>1 DEF InOrder
<1>4. \A j, k \in 1 .. Len(e) : j < k /\ e[k] # 0 => e[j] < e[k]
  <2> SUFFICES ASSUME NEW j \in 1 .. Len(e), NEW k \in 1 .. Len(e), j < k, e[k] # 0
               PROVE  e[j] < e[k]
    OBVIOUS
  <2>1. k \in 1 .. Len(h) /\ e[k] = h[k]
    BY <1>2
  <2>2. j \in 1 .. Len(h)
    BY <1>1, <2>1
  <2>3. e[j] = h[j]
    BY <1>1, <2>2
  <2> QED BY <2>1, <2>2, <2>3 DEF InOrder
<1>5. \A j \in 1 .. Len(e), k \in 1 .. Len(f) : e[j] < f[k]
  <2> SUFFICES ASSUME NEW j \in 1 .. Len(e), NEW k \in 1 .. Len(f) PROVE e[j] < f[k]
    OBVIOUS
  <2>1. f[k] \in 1 .. a
    BY DEF InOrder
  <2>2. CASE j \in 1 .. Len(h) /\ e[j] = h[j]
    BY <2>2 DEF InOrder
  <2>3. CASE e[j] = 0
    BY <2>1, <2>3
  <2> QED BY <1>2, <2>2, <2>3
<1> QED BY <1>3, <1>4, <1>5 DEF InOrder, e

LEMMA RepliesOrderStep ==
    StreamInv /\ InOrder(printed, inBank, seen) /\ [Replies!Next]_(Replies!stream)
        => InOrder(printed, inBank, seen)'
<1> SUFFICES ASSUME StreamInv, InOrder(printed, inBank, seen), [Replies!Next]_(Replies!stream)
             PROVE  InOrder(printed', inBank', seen')
  BY DEF InOrder
<1>0. printed \in Nat /\ inBank \in Seq(Nat) /\ seen \in Seq(Nat) /\ SIZE \in Nat
  BY StreamAssumption DEF StreamAssumption, StreamInv, StreamTypeOK
<1>1. ASSUME NEW n \in 1 .. SIZE, Replies!Write(n) PROVE InOrder(printed', inBank', seen')
  <2>1. n \in Nat
    BY <1>0
  <2>2. /\ printed' = printed + n /\ seen' = seen
        /\ inBank' = inBank \o [k \in 1 .. n |-> printed + k]
    BY <1>1 DEF Replies!Write, Replies!Numbered
  <2> QED BY <1>0, <2>1, <2>2, OrderWrite
<1>2. ASSUME NEW n \in 1 .. Len(inBank), Replies!Read(n) PROVE InOrder(printed', inBank', seen')
  <2>1. /\ printed' = printed /\ seen' = seen \o SubSeq(inBank, 1, n)
        /\ inBank' = SubSeq(inBank, n + 1, Len(inBank))
    BY <1>2 DEF Replies!Read
  <2> QED BY <1>0, <2>1, OrderRead
<1>3. CASE Replies!Upset
  BY <1>0, <1>3, OrderDrop DEF Replies!Upset
<1>4. CASE Replies!Astray
  BY <1>0, <1>4, OrderDrop, OrderStray DEF Replies!Astray
<1>5. CASE UNCHANGED Replies!stream
  BY <1>5 DEF Replies!stream
<1> QED BY <1>1, <1>2, <1>3, <1>4, <1>5 DEF Replies!Next

LEMMA TypingOrderStep ==
    StreamInv /\ InOrder(typed, outBank, got) /\ [Typing!Next]_(Typing!stream)
        => InOrder(typed, outBank, got)'
<1> SUFFICES ASSUME StreamInv, InOrder(typed, outBank, got), [Typing!Next]_(Typing!stream)
             PROVE  InOrder(typed', outBank', got')
  BY DEF InOrder
<1>0. typed \in Nat /\ outBank \in Seq(Nat) /\ got \in Seq(Nat) /\ SIZE \in Nat
  BY StreamAssumption DEF StreamAssumption, StreamInv, StreamTypeOK
<1>1. ASSUME NEW n \in 1 .. SIZE, Typing!Write(n) PROVE InOrder(typed', outBank', got')
  <2>1. n \in Nat
    BY <1>0
  <2>2. /\ typed' = typed + n /\ got' = got
        /\ outBank' = outBank \o [k \in 1 .. n |-> typed + k]
    BY <1>1 DEF Typing!Write, Typing!Numbered
  <2> QED BY <1>0, <2>1, <2>2, OrderWrite
<1>2. ASSUME NEW n \in 1 .. Len(outBank), Typing!Read(n) PROVE InOrder(typed', outBank', got')
  <2>1. /\ typed' = typed /\ got' = got \o SubSeq(outBank, 1, n)
        /\ outBank' = SubSeq(outBank, n + 1, Len(outBank))
    BY <1>2 DEF Typing!Read
  <2> QED BY <1>0, <2>1, OrderRead
<1>3. CASE Typing!Upset
  BY <1>0, <1>3, OrderDrop DEF Typing!Upset
<1>4. CASE Typing!Astray
  BY <1>0, <1>4, OrderDrop, OrderStray DEF Typing!Astray
<1>5. CASE UNCHANGED Typing!stream
  BY <1>5 DEF Typing!stream
<1> QED BY <1>1, <1>2, <1>3, <1>4, <1>5 DEF Typing!Next

(* However many upsets there are and wherever they come, the host gets no   *)
(* byte of the replies twice or before an earlier one.                      *)
THEOREM RepliesInOrder == Spec => []InOrder(printed, inBank, seen)
<1>1. Replies!Init => InOrder(printed, inBank, seen)
  BY DEF Replies!Init, InOrder
<1> QED BY <1>1, RepliesOrderStep, RepliesImplement, InvHolds, PTL
        DEF RepliesStream, Replies!Spec

(* Nor does the main loop get a byte of the host so.                        *)
THEOREM CommandsInOrder == Spec => []InOrder(typed, outBank, got)
<1>1. Typing!Init => InOrder(typed, outBank, got)
  BY DEF Typing!Init, InOrder
<1> QED BY <1>1, TypingOrderStep, TypingImplements, InvHolds, PTL
        DEF TypingStream, Typing!Spec
=============================================================================
