--------------------------- MODULE HostLinkProofs ---------------------------
(* Theorems about the host utility and the unit, for any number of runs, a  *)
(* bank of any size and any number of messages.                             *)
EXTENDS HostLink, SequenceTheorems, TLAPS

-----------------------------------------------------------------------------
(* Sequences *)

Kinds == {"echo", "reply", "#", "rest"}
Item == [kind : Kinds, of : Seq(Runs)]
Char == Runs \X BOOLEAN

LEMMA PiecesGrow ==
    ASSUME NEW p \in Nat, NEW q \in Nat, p <= q
    PROVE  Seq(Pieces(1 .. p)) \subseteq Seq(Pieces(1 .. q))
  <1>1. 1 .. p \subseteq 1 .. q
    OBVIOUS
  <1>2. Pieces(1 .. p) \subseteq Pieces(1 .. q)
    BY <1>1 DEF Pieces
  <1> QED BY <1>2, SeqMonotonic

(* The end of a sequence, and its beginning.                                *)
LEMMA Parts ==
    ASSUME NEW S, NEW s \in Seq(S)
    PROVE  /\ \A k \in 1 .. Len(s) + 1 :
                /\ SubSeq(s, k, Len(s)) \in Seq(S)
                /\ Len(SubSeq(s, k, Len(s))) <= Len(s)
           /\ \A k \in 0 .. Len(s) : SubSeq(s, 1, k) \in Seq(S)
  <1>1. Len(s) \in Nat /\ \A i \in 1 .. Len(s) : s[i] \in S
    BY LenProperties, ElementOfSeq
  <1>2. ASSUME NEW k \in 1 .. Len(s) + 1
        PROVE  /\ SubSeq(s, k, Len(s)) \in Seq(S)
               /\ Len(SubSeq(s, k, Len(s))) <= Len(s)
    <2>1. k \in Int /\ Len(s) \in Int /\ \A i \in k .. Len(s) : s[i] \in S
      BY <1>1
    <2>2. /\ SubSeq(s, k, Len(s)) \in Seq(S)
          /\ Len(SubSeq(s, k, Len(s))) = IF k <= Len(s) THEN Len(s) - k + 1 ELSE 0
      BY <2>1, SubSeqProperties
    <2> QED BY <1>1, <2>2
  <1>3. ASSUME NEW k \in 0 .. Len(s)
        PROVE  SubSeq(s, 1, k) \in Seq(S)
    <2>1. 1 \in Int /\ k \in Int /\ \A i \in 1 .. k : s[i] \in S
      BY <1>1
    <2> QED BY <2>1, SubSeqProperties
  <1> QED BY <1>2, <1>3

LEMMA Appended ==
    ASSUME NEW S, NEW s \in Seq(S), NEW e \in S
    PROVE  /\ Append(s, e) \in Seq(S) /\ Len(Append(s, e)) = Len(s) + 1
           /\ \A k \in 1 .. Len(s) : Append(s, e)[k] = s[k]
           /\ Append(s, e)[Len(s) + 1] = e
  BY AppendProperties

-----------------------------------------------------------------------------
(* Types *)

(* The types, and that at most one run has the port.                        *)
Alone ==
    /\ \A r, q \in Runs : IsOpen(r) /\ IsOpen(q) => r = q
    /\ \A r \in Runs : stage[r] \in {"new", "open"} => shown[r] = <<>>

HostInv == HostTypeOK /\ Alone

LEMMA HostInit == Init => HostInv
  <1> SUFFICES ASSUME Init PROVE HostInv
    OBVIOUS
  <1>1. \A S : <<>> \in Seq(S) /\ Len(<<>>) = 0
    BY EmptySeq
  <1>2. CAP \in Nat
    BY HostAssumption DEF HostAssumption
  <1>3. HostTypeOK
    BY <1>1, <1>2 DEF Init, HostTypeOK
  <1>4. Alone
    BY DEF Init, Alone, IsOpen
  <1> QED BY <1>3, <1>4 DEF HostInv

(* A run that leaves the port: whatever its end, the types are kept.        *)
LEMMA LeaveTyped ==
    ASSUME HostInv, NEW r \in Runs, NEW how \in Finished,
           NEW received \in Seq(Pieces(1 .. printed)), Len(received) <= CAP,
           NEW sent \in Seq(Char), Leave(r, how, received, sent), UNCHANGED shown
    PROVE  HostInv'
  <1> USE DEF HostInv, HostTypeOK
  <1>1. /\ stage' = [stage EXCEPT ![r] = how]
        /\ UNCHANGED <<shown, opened, line, queue, printed, notices>>
    BY DEF Leave
  <1>2. bank' \in Seq(Pieces(1 .. printed)) /\ Len(bank') <= CAP
    <2>1. PICK k \in 1 .. Len(received) + 1 : bank' = SubSeq(received, k, Len(received))
      BY DEF Leave
    <2>2. bank' \in Seq(Pieces(1 .. printed)) /\ Len(bank') <= Len(received)
      BY <2>1, Parts
    <2>3. Len(received) \in Nat /\ Len(bank') \in Nat /\ CAP \in Nat
      BY <2>2, LenProperties, HostAssumption DEF HostAssumption
    <2> QED BY <2>2, <2>3
  <1>3. typed' \in Seq(Char)
    <2>1. PICK k \in 0 .. Len(sent) : typed' = SubSeq(sent, 1, k)
      BY DEF Leave
    <2> QED BY <2>1, Parts
  <1>4. stage' \in [Runs -> Finished \cup {"new", "open", "reading"}]
    BY <1>1
  <1>5. HostTypeOK'
    BY <1>1, <1>2, <1>3, <1>4 DEF Char
  <1>6. \A q \in Runs : stage'[q] = stage[q] \/ (q = r /\ stage'[q] \in Finished)
    BY <1>1
  <1>7. Alone'
    BY <1>1, <1>6 DEF Alone, IsOpen, Finished
  <1> QED BY <1>5, <1>7

LEMMA OpenTyped ==
    ASSUME HostInv, NEW r \in Runs, Open(r)
    PROVE  HostInv'
  <1>1. /\ stage[r] = "new"
        /\ stage' = [stage EXCEPT ![r] = IF LockFree THEN "open" ELSE "refused"]
        /\ opened' = [opened EXCEPT ![r] = printed]
        /\ UNCHANGED <<shown, typed, line, queue, bank, printed, notices>>
    BY DEF Open, unit
  <1>2. printed \in 0 .. printed
    BY DEF HostInv, HostTypeOK
  <1>3. HostTypeOK'
    BY <1>1, <1>2 DEF HostInv, HostTypeOK, Finished
  <1>4. CASE LockFree
    <2>1. \A q \in Runs : stage[q] \notin {"open", "reading"}
      BY <1>4 DEF LockFree, PortOpen, IsOpen
    <2>2. stage' = [stage EXCEPT ![r] = "open"]
      BY <1>1, <1>4
    <2> QED BY <1>1, <1>3, <2>1, <2>2 DEF HostInv, HostTypeOK, Alone, IsOpen
  <1>5. CASE ~LockFree
    <2>1. stage' = [stage EXCEPT ![r] = "refused"]
      BY <1>1, <1>5
    <2> QED BY <1>1, <1>3, <2>1 DEF HostInv, HostTypeOK, Alone, IsOpen
  <1> QED BY <1>4, <1>5

LEMMA SendTyped ==
    ASSUME HostInv, NEW r \in Runs, Send(r)
    PROVE  HostInv'
  <1>1. typed \in Seq(Char) /\ <<r, FALSE>> \in Char /\ <<r, TRUE>> \in Char
    BY DEF HostInv, HostTypeOK, Char
  <1>2. /\ bank \in Seq(Pieces(1 .. printed)) /\ Len(bank) <= CAP
        /\ stage \in [Runs -> Finished \cup {"new", "open", "reading"}]
    BY DEF HostInv, HostTypeOK
  <1>3. UNCHANGED shown /\ stage[r] = "open"
    BY DEF Send
  <1>4. CASE /\ stage' = [stage EXCEPT ![r] = "reading"]
             /\ typed' = typed \o << <<r, FALSE>>, <<r, TRUE>> >>
             /\ UNCHANGED <<opened, line, queue, bank, printed, notices>>
    <2>1. << <<r, FALSE>>, <<r, TRUE>> >> \in Seq(Char)
      BY <1>1
    <2>2. typed' \in Seq(Char)
      BY <1>1, <1>4, <2>1, ConcatProperties
    <2>3. HostTypeOK'
      BY <1>3, <1>4, <2>2 DEF HostInv, HostTypeOK, Char
    <2>4. Alone'
      BY <1>2, <1>3, <1>4 DEF HostInv, Alone, IsOpen
    <2> QED BY <2>3, <2>4 DEF HostInv
  <1>5. CASE Leave(r, "unsent", bank, Append(typed, <<r, FALSE>>))
    <2>1. Append(typed, <<r, FALSE>>) \in Seq(Char)
      BY <1>1, Appended
    <2>2. "unsent" \in Finished
      BY DEF Finished
    <2> QED BY <1>2, <1>3, <1>5, <2>1, <2>2, LeaveTyped
  <1> QED BY <1>4, <1>5 DEF Send

LEMMA EndTyped ==
    ASSUME HostInv, NEW r \in Runs, Expire(r) \/ Kill(r)
    PROVE  HostInv'
  <1>1. /\ bank \in Seq(Pieces(1 .. printed)) /\ Len(bank) <= CAP /\ typed \in Seq(Char)
        /\ "alarm" \in Finished /\ "killed" \in Finished
    BY DEF HostInv, HostTypeOK, Char, Finished
  <1>2. UNCHANGED shown /\ (Leave(r, "alarm", bank, typed) \/ Leave(r, "killed", bank, typed))
    BY DEF Expire, Alarm, Kill
  <1> QED BY <1>1, <1>2, LeaveTyped

LEMMA ReadTyped ==
    ASSUME HostInv, NEW r \in Runs, Read(r)
    PROVE  HostInv'
  <1> DEFINE P == Pieces(1 .. printed)
  <1>1. /\ bank \in Seq(P) /\ Len(bank) <= CAP /\ typed \in Seq(Char) /\ bank # <<>>
        /\ stage \in [Runs -> Finished \cup {"new", "open", "reading"}]
        /\ shown \in [Runs -> Seq(P)] /\ CAP \in Nat
    BY HostAssumption DEF HostInv, HostTypeOK, Char, Read, HostAssumption
  <1>2. Head(bank) \in P /\ Tail(bank) \in Seq(P) /\ Len(Tail(bank)) = Len(bank) - 1
    BY <1>1, HeadTailProperties
  <1>3. Len(Tail(bank)) <= CAP
    BY <1>1, <1>2, LenProperties
  <1>4. CASE StopsAt(Head(bank))
    <2>1. Leave(r, "prompt", Tail(bank), typed) /\ UNCHANGED shown
      BY <1>4 DEF Read
    <2>2. "prompt" \in Finished
      BY DEF Finished
    <2> QED BY <1>1, <1>2, <1>3, <2>1, <2>2, LeaveTyped
  <1>5. CASE ~StopsAt(Head(bank))
    <2>1. /\ shown' = [shown EXCEPT ![r] = Append(@, Head(bank))]
          /\ bank' = Tail(bank) /\ stage[r] = "reading"
          /\ UNCHANGED <<stage, opened, typed, line, queue, printed, notices>>
      BY <1>5 DEF Read
    <2> HIDE DEF P
    <2>2. Append(shown[r], Head(bank)) \in Seq(P)
      BY <1>1, <1>2, Appended
    <2>3. shown' \in [Runs -> Seq(P)]
      BY <1>1, <2>1, <2>2
    <2>4. HostTypeOK'
      BY <1>2, <1>3, <2>1, <2>3 DEF HostInv, HostTypeOK, P
    <2>5. Alone'
      BY <1>1, <2>1 DEF HostInv, Alone, IsOpen
    <2> QED BY <2>4, <2>5 DEF HostInv
  <1> QED BY <1>4, <1>5

(* What the unit prints are pieces.                                         *)
LEMMA ReplyTyped ==
    ASSUME NEW of \in Seq(Runs)
    PROVE  Reply(of) \in Seq(Item)
  <1>1. /\ Piece("reply", of) \in Item
        /\ Piece("#", <<>>) \in Item /\ Piece("rest", <<>>) \in Item
    BY EmptySeq DEF Piece, Item, Kinds
  <1>2. <<Piece("reply", of)>> \in Seq(Item) /\ Prompt \in Seq(Item)
    BY <1>1 DEF Prompt
  <1> QED BY <1>2, ConcatProperties DEF Reply

LEMMA UnitTyped ==
    ASSUME HostInv, Unit
    PROVE  HostInv'
  <1>1. /\ typed \in Seq(Char) /\ line \in Seq(Runs) /\ queue \in Seq(Item)
        /\ bank \in Seq(Pieces(1 .. printed)) /\ Len(bank) <= CAP
        /\ printed \in Nat /\ notices \in Nat /\ CAP \in Nat
        /\ opened \in [Runs -> 0 .. printed] /\ shown \in [Runs -> Seq(Pieces(1 .. printed))]
    BY HostAssumption DEF HostInv, HostTypeOK, Char, Item, Kinds, HostAssumption
  <1>2. UNCHANGED <<stage, shown, opened>>
    BY DEF Unit, Receive, Notice, PrintPiece
  <1>3. Alone'
    BY <1>2 DEF HostInv, Alone, IsOpen
  <1>4. CASE Receive
    <2>1. /\ typed # <<>> /\ typed' = Tail(typed)
          /\ UNCHANGED <<bank, printed, notices>>
      BY <1>4 DEF Receive
    <2>2. Head(typed) \in Char /\ typed' \in Seq(Char)
      BY <1>1, <2>1, HeadTailProperties
    <2>3. Head(typed)[1] \in Runs
      BY <2>2 DEF Char
    <2>4. <<Head(typed)[1]>> \in Seq(Runs) /\ Append(line, Head(typed)[1]) \in Seq(Runs)
      BY <1>1, <2>3, Appended
    <2>5. Piece("echo", <<Head(typed)[1]>>) \in Item
      BY <2>4 DEF Piece, Item, Kinds
    <2>6. <<Piece("echo", <<Head(typed)[1]>>)>> \in Seq(Item) /\ <<>> \in Seq(Runs)
      BY <2>5, EmptySeq
    <2>7. queue' \in Seq(Item) /\ line' \in Seq(Runs)
      BY <1>1, <1>4, <2>4, <2>6, ReplyTyped DEF Receive
    <2>8. HostTypeOK'
      BY <1>2, <2>1, <2>2, <2>7 DEF HostInv, HostTypeOK, Char, Item, Kinds
    <2> QED BY <1>3, <2>8 DEF HostInv
  <1>5. CASE Notice
    <2>1. /\ queue' = Reply(<<>>) /\ line' = <<>> /\ notices' = notices + 1
          /\ UNCHANGED <<typed, bank, printed>>
      BY <1>5 DEF Notice
    <2>2. queue' \in Seq(Item) /\ line' \in Seq(Runs)
      BY <2>1, EmptySeq, ReplyTyped
    <2>3. HostTypeOK'
      BY <1>1, <1>2, <2>1, <2>2 DEF HostInv, HostTypeOK, Item, Kinds
    <2> QED BY <1>3, <2>3 DEF HostInv
  <1>6. CASE PrintPiece
    <2> DEFINE e == [n |-> printed', kind |-> Head(queue).kind, of |-> Head(queue).of]
               P == Pieces(1 .. printed + 1)
    <2>1. /\ queue # <<>> /\ printed' = printed + 1 /\ queue' = Tail(queue)
          /\ bank' = IF Room THEN Append(bank, e) ELSE bank
          /\ UNCHANGED <<typed, line, notices>>
      BY <1>6 DEF PrintPiece
    <2>2. Head(queue) \in Item /\ queue' \in Seq(Item)
      BY <1>1, <2>1, HeadTailProperties
    <2>3. printed + 1 \in 1 .. printed + 1
      BY <1>1
    <2>4. e \in P
      BY <2>1, <2>2, <2>3 DEF Item, Kinds, Pieces
    <2>5. Seq(Pieces(1 .. printed)) \subseteq Seq(P)
      BY <1>1, PiecesGrow
    <2> HIDE DEF e, P
    <2>6. bank \in Seq(P) /\ Len(bank) \in Nat
      BY <1>1, <2>5, LenProperties
    <2>7. bank' \in Seq(P) /\ Len(bank') <= CAP
      <3>1. Append(bank, e) \in Seq(P) /\ Len(Append(bank, e)) = Len(bank) + 1
        BY <2>4, <2>6, Appended
      <3>2. Room => Len(bank) + 1 <= CAP
        BY <1>1, <2>6 DEF Room
      <3> QED BY <1>1, <2>1, <2>6, <3>1, <3>2
    <2>8. opened' \in [Runs -> 0 .. printed'] /\ printed' \in Nat
      BY <1>1, <1>2, <2>1
    <2>9. shown' \in [Runs -> Seq(P)]
      BY <1>1, <1>2, <2>5
    <2>10. HostTypeOK'
      BY <1>2, <2>1, <2>2, <2>7, <2>8, <2>9 DEF HostInv, HostTypeOK, Item, Kinds, P
    <2> QED BY <1>3, <2>10 DEF HostInv
  <1> QED BY <1>4, <1>5, <1>6 DEF Unit

LEMMA HostStep == HostInv /\ [Next]_vars => HostInv'
  <1> SUFFICES ASSUME HostInv, [Next]_vars PROVE HostInv'
    OBVIOUS
  <1>1. CASE UNCHANGED vars
    BY <1>1 DEF vars, unit, HostInv, HostTypeOK, Alone, IsOpen
  <1> QED BY <1>1, OpenTyped, SendTyped, ReadTyped, EndTyped, UnitTyped DEF Next

LEMMA HostAlways == Spec => []HostInv
  <1> QED BY HostInit, HostStep, PTL DEF Spec

(* For any number of runs and messages, and a bank of any size, every       *)
(* variable keeps its range and the unit never holds more than its bank.    *)
THEOREM HostTypeCorrect == Spec => []HostTypeOK
  <1>1. HostInv => HostTypeOK
    BY DEF HostInv
  <1> QED BY <1>1, HostAlways, PTL

-----------------------------------------------------------------------------
(* Nothing is stolen *)

LastShown(r) == shown[r][Len(shown[r])].n

(* What the bank holds goes on where the run with the port is, and ends     *)
(* with the last piece printed.                                             *)
Continues(r) ==
    /\ \A k \in 2 .. Len(bank) : bank[k].n > opened[r] + 1 => bank[k - 1].n = bank[k].n - 1
    /\ bank # <<>> /\ bank[1].n > opened[r] + 1 =>
         shown[r] # <<>> /\ LastShown(r) = bank[1].n - 1
    /\ printed > opened[r] =>
         \/ bank # <<>> /\ bank[Len(bank)].n = printed
         \/ bank = <<>> /\ shown[r] # <<>> /\ LastShown(r) = printed

StreamInv ==
    /\ \A r \in Runs : Unbroken(shown[r], opened[r])
    /\ \A r \in Runs : IsOpen(r) => Continues(r)

(* The numbers of the pieces.                                               *)
LEMMA Numbers ==
    ASSUME HostInv
    PROVE  /\ Len(bank) \in Nat /\ printed \in Nat /\ (bank = <<>> <=> Len(bank) = 0)
           /\ \A k \in 1 .. Len(bank) : bank[k].n \in 1 .. printed
           /\ \A r \in Runs : /\ opened[r] \in 0 .. printed /\ DOMAIN shown[r] = 1 .. Len(shown[r])
                              /\ Len(shown[r]) \in Nat /\ (shown[r] = <<>> <=> Len(shown[r]) = 0)
                              /\ shown[r] \in Seq(Pieces(1 .. printed))
                              /\ \A k \in 1 .. Len(shown[r]) : shown[r][k].n \in 1 .. printed
  <1> DEFINE P == Pieces(1 .. printed)
  <1>1. bank \in Seq(P) /\ \A r \in Runs : shown[r] \in Seq(P)
    BY DEF HostInv, HostTypeOK
  <1>2. \A p \in P : p.n \in 1 .. printed
    BY DEF Pieces
  <1>3. printed \in Nat /\ \A r \in Runs : opened[r] \in 0 .. printed
    BY DEF HostInv, HostTypeOK
  <1> HIDE DEF P
  <1>4. \A s \in Seq(P) : /\ Len(s) \in Nat /\ DOMAIN s = 1 .. Len(s) /\ (s = <<>> <=> Len(s) = 0)
                          /\ \A k \in 1 .. Len(s) : s[k] \in P
    BY EmptySeq, LenProperties, ElementOfSeq
  <1> QED BY <1>1, <1>2, <1>3, <1>4 DEF P

(* A run that leaves the port leaves nobody there.                          *)
LEMMA StreamLeave ==
    ASSUME HostInv, StreamInv, NEW r \in Runs, IsOpen(r), NEW how \in Finished,
           NEW received, NEW sent, Leave(r, how, received, sent), UNCHANGED shown
    PROVE  StreamInv'
  <1>1. stage' = [stage EXCEPT ![r] = how] /\ UNCHANGED opened
    BY DEF Leave
  <1>2. \A q \in Runs : q # r => ~IsOpen(q)
    BY DEF HostInv, Alone
  <1>3. \A q \in Runs : stage'[q] \notin {"open", "reading"}
    BY <1>1, <1>2 DEF HostInv, HostTypeOK, IsOpen, Finished
  <1> QED BY <1>1, <1>3 DEF StreamInv, IsOpen

LEMMA StreamOpen ==
    ASSUME HostInv, StreamInv, NEW r \in Runs, Open(r)
    PROVE  StreamInv'
  <1>1. /\ stage[r] = "new" /\ shown[r] = <<>>
        /\ stage' = [stage EXCEPT ![r] = IF LockFree THEN "open" ELSE "refused"]
        /\ opened' = [opened EXCEPT ![r] = printed]
        /\ UNCHANGED <<shown, bank, printed>>
        /\ stage \in [Runs -> Finished \cup {"new", "open", "reading"}]
        /\ opened \in [Runs -> 0 .. printed]
    BY DEF Open, unit, HostInv, HostTypeOK, Alone
  <1>2. \A q \in Runs : Unbroken(shown'[q], opened'[q])
    <2> SUFFICES ASSUME NEW q \in Runs PROVE Unbroken(shown[q], opened'[q])
      BY <1>1
    <2>1. CASE q = r
      <3>1. DOMAIN shown[q] = {}
        BY <1>1, <2>1, Numbers
      <3> QED BY <3>1 DEF Unbroken
    <2>2. CASE q # r
      BY <1>1, <2>2 DEF StreamInv
    <2> QED BY <2>1, <2>2
  <1>3. ASSUME NEW q \in Runs, IsOpen(q)' PROVE Continues(q)'
    <2>1. CASE q = r
      <3>1. opened'[q] = printed
        BY <1>1, <2>1
      <3>2. \A k \in 1 .. Len(bank) : ~(bank[k].n > printed + 1)
        BY Numbers
      <3>3. Len(bank) \in Nat /\ printed \in Nat /\ (bank = <<>> <=> Len(bank) = 0)
        BY Numbers
      <3> QED BY <1>1, <3>1, <3>2, <3>3 DEF Continues
    <2>2. CASE q # r
      <3>1. IsOpen(q) /\ opened'[q] = opened[q]
        BY <1>1, <1>3, <2>2 DEF IsOpen
      <3> QED BY <1>1, <3>1 DEF StreamInv, Continues, LastShown
    <2> QED BY <2>1, <2>2
  <1> QED BY <1>2, <1>3 DEF StreamInv

LEMMA StreamSend ==
    ASSUME HostInv, StreamInv, NEW r \in Runs, Send(r)
    PROVE  StreamInv'
  <1>1. UNCHANGED shown /\ stage[r] = "open"
        /\ stage \in [Runs -> Finished \cup {"new", "open", "reading"}]
    BY DEF Send, HostInv, HostTypeOK
  <1>2. CASE /\ stage' = [stage EXCEPT ![r] = "reading"]
             /\ UNCHANGED <<opened, bank, printed>>
    <2>1. \A q \in Runs : IsOpen(q)' => IsOpen(q)
      BY <1>1, <1>2 DEF IsOpen
    <2> QED BY <1>1, <1>2, <2>1 DEF StreamInv, Continues, LastShown
  <1>3. CASE Leave(r, "unsent", bank, Append(typed, <<r, FALSE>>))
    <2>1. IsOpen(r) /\ "unsent" \in Finished
      BY <1>1 DEF IsOpen, Finished
    <2> QED BY <1>1, <1>3, <2>1, StreamLeave
  <1> QED BY <1>2, <1>3 DEF Send

LEMMA StreamRead ==
    ASSUME HostInv, StreamInv, NEW r \in Runs, Read(r)
    PROVE  StreamInv'
  <1> DEFINE P == Pieces(1 .. printed)
  <1>1. /\ bank \in Seq(P) /\ bank # <<>> /\ shown \in [Runs -> Seq(P)]
        /\ stage[r] = "reading" /\ IsOpen(r)
    BY DEF HostInv, HostTypeOK, Read, IsOpen
  <1>2. CASE StopsAt(Head(bank))
    <2>1. Leave(r, "prompt", Tail(bank), typed) /\ UNCHANGED shown
      BY <1>2 DEF Read
    <2>2. "prompt" \in Finished
      BY DEF Finished
    <2> QED BY <1>1, <2>1, <2>2, StreamLeave
  <1>3. CASE ~StopsAt(Head(bank))
    <2>1. /\ shown' = [shown EXCEPT ![r] = Append(@, Head(bank))] /\ bank' = Tail(bank)
          /\ UNCHANGED <<stage, opened, printed>>
      BY <1>3 DEF Read
    <2>2. Head(bank) = bank[1] /\ Head(bank) \in P
      BY <1>1, HeadTailProperties
    <2>3. /\ bank' \in Seq(P) /\ Len(bank') = Len(bank) - 1
          /\ \A k \in 1 .. Len(bank') : bank'[k] = bank[k + 1]
      BY <1>1, <2>1, HeadTailProperties
    <2> HIDE DEF P
    <2>4. /\ Len(bank) \in Nat /\ Len(bank) > 0
          /\ \A k \in 1 .. Len(bank) : bank[k].n \in Int
          /\ opened[r] \in Int /\ printed \in Int
          /\ Len(shown[r]) \in Nat /\ DOMAIN shown[r] = 1 .. Len(shown[r])
          /\ (shown[r] = <<>> <=> Len(shown[r]) = 0)
      BY <1>1, Numbers
    <2>5. shown'[r] = Append(shown[r], bank[1])
      BY <1>1, <2>1, <2>2
    <2>6. /\ shown'[r] \in Seq(P) /\ Len(shown'[r]) = Len(shown[r]) + 1
          /\ \A k \in 1 .. Len(shown[r]) : shown'[r][k] = shown[r][k]
          /\ shown'[r][Len(shown[r]) + 1] = bank[1]
      BY <1>1, <2>2, <2>5, Appended
    <2>7. DOMAIN shown'[r] = 1 .. Len(shown[r]) + 1 /\ shown'[r] # <<>>
      BY <2>4, <2>6, LenProperties, EmptySeq
    <2>8. /\ \A k \in 2 .. Len(bank) : bank[k].n > opened[r] + 1 => bank[k - 1].n = bank[k].n - 1
          /\ bank[1].n > opened[r] + 1 => shown[r] # <<>> /\ shown[r][Len(shown[r])].n = bank[1].n - 1
          /\ printed > opened[r] => bank[Len(bank)].n = printed
          /\ Unbroken(shown[r], opened[r])
      BY <1>1 DEF StreamInv, Continues, LastShown
    <2>9. Unbroken(shown'[r], opened[r])
      <3> SUFFICES ASSUME NEW k \in 1 .. Len(shown[r]) + 1, shown'[r][k].n > opened[r] + 1
                   PROVE  k > 1 /\ shown'[r][k - 1].n = shown'[r][k].n - 1
        BY <2>7 DEF Unbroken
      <3>1. CASE k <= Len(shown[r])
        <4>1. k \in DOMAIN shown[r] /\ shown'[r][k] = shown[r][k]
          BY <2>4, <2>6, <3>1
        <4>2. k > 1 /\ shown[r][k - 1].n = shown[r][k].n - 1
          BY <2>8, <4>1 DEF Unbroken
        <4>3. shown'[r][k - 1] = shown[r][k - 1]
          BY <2>4, <2>6, <3>1, <4>2
        <4> QED BY <4>1, <4>2, <4>3
      <3>2. CASE k = Len(shown[r]) + 1
        <4>1. Len(shown[r]) > 0 /\ shown[r][Len(shown[r])].n = bank[1].n - 1
          BY <2>4, <2>6, <2>8, <3>2
        <4>2. k - 1 = Len(shown[r]) /\ shown'[r][k - 1] = shown[r][k - 1]
          BY <2>4, <2>6, <3>2, <4>1
        <4> QED BY <2>4, <2>6, <3>2, <4>1, <4>2
      <3> QED BY <2>4, <3>1, <3>2
    <2>10. shown'[r][Len(shown'[r])] = bank[1]
      BY <2>6
    <2>11. Continues(r)'
      <3>1. \A k \in 2 .. Len(bank') : bank'[k].n > opened[r] + 1 => bank'[k - 1].n = bank'[k].n - 1
        <4> SUFFICES ASSUME NEW k \in 2 .. Len(bank'), bank'[k].n > opened[r] + 1
                     PROVE  bank'[k - 1].n = bank'[k].n - 1
          OBVIOUS
        <4>1. /\ k \in 1 .. Len(bank') /\ k - 1 \in 1 .. Len(bank')
              /\ (k - 1) + 1 = k /\ (k + 1) - 1 = k /\ k + 1 \in 2 .. Len(bank)
          BY <2>3, <2>4
        <4>2. bank'[k] = bank[k + 1] /\ bank'[k - 1] = bank[k]
          BY <2>3, <4>1
        <4> QED BY <2>8, <4>1, <4>2
      <3>2. bank' # <<>> => Len(bank') > 0
        BY <2>3, EmptySeq, LenProperties
      <3>3. bank' # <<>> /\ bank'[1].n > opened[r] + 1 => bank[1].n = bank'[1].n - 1
        <4> SUFFICES ASSUME bank' # <<>>, bank'[1].n > opened[r] + 1 PROVE bank[1].n = bank'[1].n - 1
          OBVIOUS
        <4>1. 2 \in 2 .. Len(bank) /\ bank'[1] = bank[2] /\ 2 - 1 = 1
          BY <2>3, <2>4, <3>2
        <4> QED BY <2>8, <4>1
      <3>4. CASE bank' # <<>>
        <4>1. bank'[Len(bank')] = bank[Len(bank)]
          BY <2>3, <2>4, <3>2, <3>4
        <4> QED BY <2>1, <2>7, <2>8, <2>10, <3>1, <3>3, <3>4, <4>1 DEF Continues, LastShown
      <3>5. CASE bank' = <<>>
        <4>1. Len(bank) = 1
          BY <2>3, <2>4, <3>5, EmptySeq
        <4> QED BY <2>1, <2>7, <2>8, <2>10, <3>1, <3>5, <4>1 DEF Continues, LastShown
      <3> QED BY <3>4, <3>5
    <2>12. \A q \in Runs : q # r => ~IsOpen(q) /\ shown'[q] = shown[q]
      BY <1>1, <2>1 DEF HostInv, Alone
    <2> QED BY <2>1, <2>9, <2>11, <2>12 DEF StreamInv, IsOpen
  <1> QED BY <1>2, <1>3

LEMMA StreamPrint ==
    ASSUME HostInv, StreamInv, PrintPiece
    PROVE  StreamInv'
  <1> DEFINE e == [n |-> printed', kind |-> Head(queue).kind, of |-> Head(queue).of]
  <1>1. /\ printed' = printed + 1 /\ UNCHANGED <<stage, shown, opened>>
        /\ Room \/ ~PortOpen
        /\ bank' = IF Room THEN Append(bank, e) ELSE bank
    BY DEF PrintPiece
  <1>2. e.n = printed + 1
    BY <1>1
  <1> HIDE DEF e
  <1> SUFFICES ASSUME NEW r \in Runs, IsOpen(r) PROVE Continues(r)'
    BY <1>1 DEF StreamInv, IsOpen
  <1>3. bank' = Append(bank, e)
    BY <1>1 DEF PortOpen
  <1>4. /\ Len(bank) \in Nat /\ printed \in Nat /\ (bank = <<>> <=> Len(bank) = 0)
        /\ opened[r] \in Nat
    BY Numbers
  <1>5. /\ Len(bank') = Len(bank) + 1 /\ bank'[Len(bank) + 1] = e
        /\ \A k \in 1 .. Len(bank) : bank'[k] = bank[k]
    <2>1. bank \in Seq(Pieces(1 .. printed) \cup {e})
      <3>1. bank \in Seq(Pieces(1 .. printed))
        BY DEF HostInv, HostTypeOK
      <3> QED BY <3>1, SeqMonotonic
    <2> QED BY <1>3, <2>1, Appended
  <1>6. Continues(r)
    BY DEF StreamInv
  <1>7. bank' # <<>>
    BY <1>4, <1>5, EmptySeq
  <1>8. \A k \in 2 .. Len(bank') : bank'[k].n > opened[r] + 1 => bank'[k - 1].n = bank'[k].n - 1
    <2> SUFFICES ASSUME NEW k \in 2 .. Len(bank) + 1, bank'[k].n > opened[r] + 1
                 PROVE  bank'[k - 1].n = bank'[k].n - 1
      BY <1>5
    <2>1. k - 1 \in 1 .. Len(bank) /\ bank'[k - 1] = bank[k - 1]
      BY <1>4, <1>5
    <2>2. CASE k = Len(bank) + 1
      <3>1. printed > opened[r] /\ bank'[k].n = printed + 1 /\ k - 1 = Len(bank)
        BY <1>2, <1>4, <1>5, <2>2
      <3>2. bank[Len(bank)].n = printed
        BY <1>4, <1>6, <2>1, <3>1 DEF Continues
      <3> QED BY <1>4, <2>1, <3>1, <3>2
    <2>3. CASE k # Len(bank) + 1
      <3>1. k \in 2 .. Len(bank) /\ bank'[k] = bank[k]
        BY <1>4, <1>5, <2>3
      <3> QED BY <1>6, <2>1, <3>1 DEF Continues
    <2> QED BY <2>2, <2>3
  <1>9. bank'[1].n > opened[r] + 1 => shown[r] # <<>> /\ LastShown(r) = bank'[1].n - 1
    <2>1. CASE bank = <<>>
      <3>1. bank'[1].n = printed + 1
        BY <1>2, <1>4, <1>5, <2>1
      <3> QED BY <1>4, <1>6, <2>1, <3>1 DEF Continues
    <2>2. CASE bank # <<>>
      <3>1. bank'[1] = bank[1]
        BY <1>4, <1>5, <2>2
      <3> QED BY <1>6, <2>2, <3>1 DEF Continues
    <2> QED BY <2>1, <2>2
  <1>10. bank'[Len(bank')].n = printed'
    BY <1>1, <1>2, <1>5
  <1> QED BY <1>1, <1>7, <1>8, <1>9, <1>10 DEF Continues, LastShown

LEMMA StreamStep == HostInv /\ StreamInv /\ [Next]_vars => StreamInv'
  <1> SUFFICES ASSUME HostInv, StreamInv, [Next]_vars PROVE StreamInv'
    OBVIOUS
  <1>1. ASSUME NEW r \in Runs, Expire(r) \/ Kill(r) PROVE StreamInv'
    <2>1. /\ IsOpen(r) /\ UNCHANGED shown /\ "alarm" \in Finished /\ "killed" \in Finished
          /\ (Leave(r, "alarm", bank, typed) \/ Leave(r, "killed", bank, typed))
      BY <1>1 DEF Expire, Alarm, Kill, IsOpen, Finished
    <2> QED BY <2>1, StreamLeave
  <1>2. CASE UNCHANGED <<stage, shown, opened, bank, printed>>
    BY <1>2 DEF StreamInv, IsOpen, Continues, LastShown
  <1>3. Receive \/ Notice \/ UNCHANGED vars => UNCHANGED <<stage, shown, opened, bank, printed>>
    BY DEF Receive, Notice, vars, unit
  <1> QED BY <1>1, <1>2, <1>3, StreamOpen, StreamSend, StreamRead, StreamPrint DEF Next, Unit

(* For any number of runs, however they end, and whatever the unit prints,  *)
(* no run reads what another waits for.                                     *)
THEOREM NoRunSteals == Spec => []NothingStolen
  <1>1. Init => StreamInv
    <2> SUFFICES ASSUME Init PROVE StreamInv
      OBVIOUS
    <2>1. \A r \in Runs : ~IsOpen(r) /\ shown[r] = <<>>
      BY DEF Init, IsOpen
    <2>2. DOMAIN <<>> = {}
      OBVIOUS
    <2> QED BY <2>1, <2>2 DEF StreamInv, Unbroken
  <1>2. StreamInv => NothingStolen
    BY DEF StreamInv, NothingStolen
  <1> QED BY <1>1, <1>2, StreamStep, HostAlways, PTL DEF Spec

-----------------------------------------------------------------------------
(* In calm times every run shows its own reply *)

(* The script of a run at the prompt: the rest of the last prompt, if it is *)
(* still there, at the place 0, the echo at 1 and the reply with its prompt *)
(* at 2, 3 and 4.                                                           *)
ScriptKind(j) ==
    IF j = 1 THEN "echo" ELSE IF j = 2 THEN "reply" ELSE IF j = 3 THEN "#" ELSE "rest"
Fits(p, j, r) == p.kind = ScriptKind(j) /\ (j \in {1, 2} => p.of = <<r>>)

(* How far the unit is with the command of run r: the places of the script  *)
(* it has begun to print.                                                   *)
Nothing(r) == typed = << <<r, FALSE>>, <<r, TRUE>> >> /\ line = <<>>
Echoed(r)  == typed = << <<r, TRUE>> >> /\ line = <<r>>
Replied    == typed = <<>> /\ line = <<>>
Due == IF Len(typed) = 0 THEN 4 ELSE IF Len(typed) = 1 THEN 1 ELSE 0

(* What run r has shown, what waits for it and what is being printed follow *)
(* each other in the script.                                                *)
Lead(r) == Len(shown[r]) + Len(bank) + Len(queue) - Due
Waits(r) ==
    /\ Nothing(r) \/ Echoed(r) \/ Replied
    /\ Lead(r) \in {0, 1}
    /\ \A k \in 1 .. Len(shown[r]) : Fits(shown[r][k], k - Lead(r), r)
    /\ \A k \in 1 .. Len(bank) : Fits(bank[k], Len(shown[r]) + k - Lead(r), r)
    /\ \A k \in 1 .. Len(queue) : Fits(queue[k], Len(shown[r]) + Len(bank) + k - Lead(r), r)

(* While no run reads, no more than the rest of a prompt is left.           *)
Quiet ==
    /\ Replied /\ Len(bank) + Len(queue) <= 1
    /\ \A k \in 1 .. Len(bank) : bank[k].kind = "rest"
    /\ \A k \in 1 .. Len(queue) : queue[k].kind = "rest"

CalmInv == Calm =>
    /\ \A r \in Runs : stage[r] = "reading" => Waits(r)
    /\ (\A r \in Runs : stage[r] # "reading") => Quiet
    /\ \A r \in Runs : stage[r] = "prompt" => Answered(r)

(* Lengths are numbers.                                                     *)
LEMMA Lengths ==
    ASSUME HostInv
    PROVE  /\ Len(bank) \in Nat /\ Len(queue) \in Nat /\ Len(typed) \in Nat
           /\ (bank = <<>> <=> Len(bank) = 0) /\ (queue = <<>> <=> Len(queue) = 0)
           /\ (typed = <<>> <=> Len(typed) = 0)
           /\ \A r \in Runs : Len(shown[r]) \in Nat
           /\ stage \in [Runs -> Finished \cup {"new", "open", "reading"}]
  <1>1. /\ bank \in Seq(Pieces(1 .. printed)) /\ queue \in Seq(Item) /\ typed \in Seq(Char)
        /\ \A r \in Runs : shown[r] \in Seq(Pieces(1 .. printed))
        /\ stage \in [Runs -> Finished \cup {"new", "open", "reading"}]
    BY DEF HostInv, HostTypeOK, Item, Kinds, Char
  <1>2. \A S : \A s \in Seq(S) : Len(s) \in Nat /\ (s = <<>> <=> Len(s) = 0)
    BY EmptySeq, LenProperties
  <1> QED BY <1>1, <1>2

(* Tuples as short as what the unit gets and prints at once.                *)
LEMMA ShortTuples ==
    ASSUME NEW a, NEW b, NEW c
    PROVE  /\ Head(<<a, b>>) = a /\ Tail(<<a, b>>) = <<b>>
           /\ Head(<<a>>) = a /\ Tail(<<a>>) = <<>>
           /\ Len(<<a>> \o <<b, c>>) = 3 /\ (<<a>> \o <<b, c>>)[1] = a
           /\ (<<a>> \o <<b, c>>)[2] = b /\ (<<a>> \o <<b, c>>)[3] = c
  <1>1. Head(<<a, b>>) = a /\ Head(<<a>>) = a
    OBVIOUS
  <1>2. Tail(<<a, b>>) = <<b>>
    OBVIOUS
  <1>3. Tail(<<a>>) = <<>>
    OBVIOUS
  <1>4. /\ Len(<<a>> \o <<b, c>>) = 3 /\ (<<a>> \o <<b, c>>)[1] = a
        /\ (<<a>> \o <<b, c>>)[2] = b /\ (<<a>> \o <<b, c>>)[3] = c
    OBVIOUS
  <1> QED BY <1>1, <1>2, <1>3, <1>4

(* What was sent, and how much of the script that makes due.                *)
LEMMA DueBy ==
    ASSUME NEW r \in Runs
    PROVE  /\ Nothing(r) => Due = 0 /\ Len(typed) = 2
           /\ Echoed(r) => Due = 1 /\ Len(typed) = 1
           /\ Replied => Due = 4 /\ Len(typed) = 0
  <1>1. /\ Len(<< <<r, FALSE>>, <<r, TRUE>> >>) = 2 /\ Len(<< <<r, TRUE>> >>) = 1
        /\ Len(<<>>) = 0
    OBVIOUS
  <1>2. Len(typed) = 2 => Due = 0
    BY DEF Due
  <1>3. Len(typed) = 1 => Due = 1
    BY DEF Due
  <1>4. Len(typed) = 0 => Due = 4
    BY DEF Due
  <1> HIDE DEF Due
  <1> QED BY <1>1, <1>2, <1>3, <1>4 DEF Nothing, Echoed, Replied

(* Calm times do not come back.                                             *)
LEMMA CalmBefore ==
    ASSUME HostInv, Next, Calm'
    PROVE  /\ Calm /\ ~Notice
           /\ \A r \in Runs : /\ ~Expire(r) /\ ~Kill(r)
                              /\ ~Leave(r, "unsent", bank, Append(typed, <<r, FALSE>>))
  <1>1. notices \in Nat /\ stage \in [Runs -> Finished \cup {"new", "open", "reading"}]
    BY DEF HostInv, HostTypeOK
  <1>2. ~Notice
    BY <1>1 DEF Notice, Calm
  <1>3. ASSUME NEW r \in Runs, NEW how \in {"alarm", "killed", "unsent"},
               NEW received, NEW sent, Leave(r, how, received, sent)
        PROVE  FALSE
    <2>1. stage'[r] = how
      BY <1>1, <1>3 DEF Leave
    <2> QED BY <2>1 DEF Calm
  <1>4. \A r \in Runs : /\ ~Expire(r) /\ ~Kill(r)
                        /\ ~Leave(r, "unsent", bank, Append(typed, <<r, FALSE>>))
    BY <1>3 DEF Expire, Alarm, Kill
  <1>5. UNCHANGED notices
    BY <1>2, <1>4 DEF Next, Unit, Receive, PrintPiece, Open, Send, Read, Leave, unit
  <1>6. \A q \in Runs : stage[q] \in {"alarm", "killed", "unsent"} => stage'[q] = stage[q]
    BY <1>1, <1>2, <1>4
       DEF Next, Unit, Receive, PrintPiece, Open, Send, Read, Leave
  <1>7. Calm
    BY <1>5, <1>6 DEF Calm
  <1> QED BY <1>2, <1>4, <1>7

LEMMA CalmOpen ==
    ASSUME HostInv, CalmInv, Calm, NEW r \in Runs, Open(r)
    PROVE  CalmInv'
  <1>1. /\ stage[r] = "new" /\ UNCHANGED <<shown, typed, line, queue, bank, printed, notices>>
        /\ stage' = [stage EXCEPT ![r] = IF LockFree THEN "open" ELSE "refused"]
        /\ stage \in [Runs -> Finished \cup {"new", "open", "reading"}]
    BY Lengths DEF Open, unit
  <1>2. \A q \in Runs : /\ stage'[q] = "reading" <=> stage[q] = "reading"
                        /\ stage'[q] = "prompt" => stage[q] = "prompt"
    BY <1>1
  <1>3. /\ \A q \in Runs : Waits(q) => Waits(q)'
        /\ Quiet => Quiet'
        /\ \A q \in Runs : Answered(q) => Answered(q)'
    BY <1>1 DEF Waits, Nothing, Echoed, Replied, Due, Lead, Quiet, Answered
  <1> QED BY <1>2, <1>3 DEF CalmInv

LEMMA CalmSend ==
    ASSUME HostInv, CalmInv, Calm, NEW r \in Runs, Send(r),
           ~Leave(r, "unsent", bank, Append(typed, <<r, FALSE>>))
    PROVE  CalmInv'
  <1>1. /\ stage[r] = "open" /\ stage' = [stage EXCEPT ![r] = "reading"]
        /\ typed' = typed \o << <<r, FALSE>>, <<r, TRUE>> >>
        /\ UNCHANGED <<shown, opened, line, queue, bank, printed, notices>>
        /\ stage \in [Runs -> Finished \cup {"new", "open", "reading"}]
    BY Lengths DEF Send
  <1>2. shown[r] = <<>> /\ \A q \in Runs : stage[q] # "reading"
    BY <1>1 DEF HostInv, Alone, IsOpen
  <1>3. Quiet
    BY <1>2 DEF CalmInv
  <1>4. Nothing(r)'
    <2>1. typed' = << <<r, FALSE>>, <<r, TRUE>> >>
      BY <1>1, <1>3, ConcatEmptySeq DEF Quiet, Replied
    <2> QED BY <1>1, <1>3, <2>1 DEF Quiet, Replied, Nothing
  <1>5. Due' = 0
    <2>1. Len(typed') = 2
      BY <1>4 DEF Nothing
    <2> QED BY <2>1 DEF Due
  <1>6. Waits(r)'
    <2>1. Len(shown[r]) = 0
      BY <1>2
    <2>2. /\ Len(bank) \in Nat /\ Len(queue) \in Nat /\ Len(bank) + Len(queue) <= 1
          /\ \A k \in 1 .. Len(bank) : bank[k].kind = "rest"
          /\ \A k \in 1 .. Len(queue) : queue[k].kind = "rest"
      BY <1>3, Lengths DEF Quiet
    <2>3. Lead(r)' = Len(bank) + Len(queue)
      BY <1>1, <1>5, <2>1, <2>2 DEF Lead
    <2>4. \A p : \A j \in Int : p.kind = "rest" /\ j <= 0 => Fits(p, j, r)
      BY DEF Fits, ScriptKind
    <2>5. \A k \in 1 .. Len(bank) : Fits(bank[k], 0 + k - (Len(bank) + Len(queue)), r)
      <3> SUFFICES ASSUME NEW k \in 1 .. Len(bank)
                   PROVE  Fits(bank[k], 0 + k - (Len(bank) + Len(queue)), r)
        OBVIOUS
      <3>1. 0 + k - (Len(bank) + Len(queue)) \in Int /\ 0 + k - (Len(bank) + Len(queue)) <= 0
        BY <2>2
      <3> QED BY <2>2, <2>4, <3>1
    <2>6. \A k \in 1 .. Len(queue) : Fits(queue[k], 0 + Len(bank) + k - (Len(bank) + Len(queue)), r)
      <3> SUFFICES ASSUME NEW k \in 1 .. Len(queue)
                   PROVE  Fits(queue[k], 0 + Len(bank) + k - (Len(bank) + Len(queue)), r)
        OBVIOUS
      <3>1. /\ 0 + Len(bank) + k - (Len(bank) + Len(queue)) \in Int
            /\ 0 + Len(bank) + k - (Len(bank) + Len(queue)) <= 0
        BY <2>2
      <3> QED BY <2>2, <2>4, <3>1
    <2>7. Lead(r)' \in {0, 1}
      BY <2>2, <2>3
    <2> QED BY <1>1, <1>4, <2>1, <2>3, <2>5, <2>6, <2>7 DEF Waits
  <1>7. \A q \in Runs : stage'[q] = "reading" => q = r
    BY <1>1, <1>2
  <1>8. \A q \in Runs : stage'[q] = "prompt" => Answered(q)'
    BY <1>1 DEF CalmInv, Answered
  <1>9. stage'[r] = "reading"
    BY <1>1
  <1> QED BY <1>6, <1>7, <1>8, <1>9 DEF CalmInv

(* Where a place of the script stands.                                      *)
LEMMA Script ==
    ASSUME NEW p, NEW j \in Int, NEW r \in Runs, Fits(p, j, r)
    PROVE  /\ p.kind = "#" <=> j = 3
           /\ j = 1 => p.kind = "echo" /\ p.of = <<r>>
           /\ j = 2 => p.kind = "reply" /\ p.of = <<r>>
           /\ (j <= 0 \/ j >= 4) => p.kind = "rest"
  BY DEF Fits, ScriptKind

LEMMA CalmRead ==
    ASSUME HostInv, CalmInv, Calm, NEW r \in Runs, Read(r)
    PROVE  CalmInv'
  <1> DEFINE n == Len(shown[r])
             b == Len(bank)
             l == Lead(r)
  <1>1. /\ stage[r] = "reading" /\ bank # <<>> /\ n \in Nat /\ b \in Nat /\ b > 0
        /\ Len(queue) \in Nat
        /\ stage \in [Runs -> Finished \cup {"new", "open", "reading"}]
    BY Lengths DEF Read
  <1>2. Waits(r)
    BY <1>1 DEF CalmInv
  <1>3. \A q \in Runs : q # r => stage[q] # "reading"
    BY <1>1 DEF HostInv, Alone, IsOpen
  <1>4. /\ bank \in Seq(Pieces(1 .. printed)) /\ shown \in [Runs -> Seq(Pieces(1 .. printed))]
        /\ typed \in Seq(Char)
    BY DEF HostInv, HostTypeOK, Char
  <1>5. /\ Head(bank) = bank[1] /\ Head(bank) \in Pieces(1 .. printed)
        /\ Tail(bank) \in Seq(Pieces(1 .. printed)) /\ Len(Tail(bank)) = b - 1
        /\ \A k \in 1 .. b - 1 : Tail(bank)[k] = bank[k + 1]
    <2>1. /\ Tail(bank) \in Seq(Pieces(1 .. printed)) /\ Len(Tail(bank)) = Len(bank) - 1
          /\ \A k \in 1 .. Len(Tail(bank)) : Tail(bank)[k] = bank[k + 1]
      BY <1>1, <1>4, HeadTailProperties
    <2>2. Head(bank) = bank[1] /\ Head(bank) \in Pieces(1 .. printed)
      BY <1>1, <1>4, HeadTailProperties
    <2> QED BY <2>1, <2>2
  <1>6. /\ l \in {0, 1} /\ l = n + b + Len(queue) - Due
        /\ \A k \in 1 .. n : Fits(shown[r][k], k - l, r)
        /\ \A k \in 1 .. b : Fits(bank[k], n + k - l, r)
        /\ \A k \in 1 .. Len(queue) : Fits(queue[k], n + b + k - l, r)
    BY <1>2 DEF Waits, Lead
  <1>7. CASE StopsAt(Head(bank))
    <2>1. /\ Leave(r, "prompt", Tail(bank), typed) /\ UNCHANGED shown
          /\ bank[1].kind = "#"
      BY <1>5, <1>7 DEF Read, StopsAt
    <2> HIDE DEF n, b, l
    <2>2. n = l + 2
      <3>1. Fits(bank[1], n + 1 - l, r) /\ n + 1 - l \in Int
        BY <1>1, <1>6
      <3> QED BY <1>1, <1>6, <2>1, <3>1, Script
    <2>3. Replied /\ b + Len(queue) = 2
      <3>1. Due = 4 /\ Replied
        <4>1. Nothing(r) \/ Echoed(r) \/ Replied
          BY <1>2 DEF Waits
        <4>2. Due \in {0, 1, 4} /\ Due > 1
          BY <1>1, <1>6, <2>2 DEF Due
        <4> QED BY <4>1, <4>2, DueBy
      <3> QED BY <1>1, <1>6, <2>2, <3>1
    <2>4. /\ \A k \in 2 .. b : bank[k].kind = "rest"
          /\ \A k \in 1 .. Len(queue) : queue[k].kind = "rest"
      <3>1. ASSUME NEW k \in 2 .. b PROVE bank[k].kind = "rest"
        <4>0. k \in 1 .. b
          BY <1>1
        <4>1. /\ Fits(bank[k], n + k - l, r)
              /\ n + k - l \in Int /\ n + k - l >= 4
          <5>1. Fits(bank[k], n + k - l, r)
            BY <1>6, <4>0
          <5>2. l \in {0, 1}
            BY <1>6
          <5>3. n + k - l \in Int /\ n + k - l >= 4
            BY <1>1, <2>2, <5>2
          <5> QED BY <5>1, <5>3
        <4> QED BY <4>1, Script
      <3>2. ASSUME NEW k \in 1 .. Len(queue) PROVE queue[k].kind = "rest"
        <4>1. Fits(queue[k], n + b + k - l, r)
          BY <1>6
        <4>2. l \in {0, 1}
          BY <1>6
        <4>3. n + b + k - l \in Int /\ n + b + k - l >= 4
          BY <1>1, <2>2, <4>2
        <4> QED BY <4>1, <4>3, Script
      <3> QED BY <3>1, <3>2
    <2>5. Replied'
      <3>1. PICK k \in 0 .. Len(typed) : typed' = SubSeq(typed, 1, k)
        BY <2>1 DEF Leave
      <3>2. k = 0 /\ 1 \in Int
        BY <2>3, <3>1, Lengths DEF Replied
      <3>3. typed' = <<>>
        <4>1. typed' \in Seq(Char) /\ Len(typed') = IF 1 <= k THEN k - 1 + 1 ELSE 0
          <5>1. \A j \in 1 .. k : typed[j] \in Char
            BY <3>2
          <5>2. k \in Int
            BY <3>1
          <5> QED BY <3>1, <3>2, <5>1, <5>2, SubSeqProperties
        <4> QED BY <3>2, <4>1, EmptySeq, LenProperties
      <3> QED BY <2>1, <2>3, <3>3 DEF Replied, Leave
    <2>6. /\ Len(bank') \in Nat /\ Len(bank') <= b - 1
          /\ \A k \in 1 .. Len(bank') : bank'[k].kind = "rest"
      <3>1. PICK k \in 1 .. Len(Tail(bank)) + 1 : bank' = SubSeq(Tail(bank), k, Len(Tail(bank)))
        BY <2>1 DEF Leave
      <3>2. k \in Int /\ b - 1 \in Int /\ \A j \in k .. b - 1 : Tail(bank)[j] \in Pieces(1 .. printed)
        <4>1. \A j \in 1 .. Len(Tail(bank)) : Tail(bank)[j] \in Pieces(1 .. printed)
          BY <1>5, ElementOfSeq
        <4> QED BY <1>1, <1>5, <3>1, <4>1
      <3>3. /\ Len(bank') = IF k <= b - 1 THEN b - 1 - k + 1 ELSE 0
            /\ \A j \in 1 .. b - 1 - k + 1 : bank'[j] = Tail(bank)[k + j - 1]
        BY <1>5, <3>1, <3>2, SubSeqProperties
      <3>4. k \in 1 .. b
        BY <1>1, <1>5, <3>1
      <3>5. ASSUME NEW j \in 1 .. Len(bank') PROVE bank'[j].kind = "rest"
        <4>1. j \in 1 .. b - 1 - k + 1 /\ k + j - 1 \in 1 .. b - 1 /\ k + j - 1 + 1 \in 2 .. b
          BY <1>1, <3>3, <3>4
        <4>2. bank'[j] = bank[k + j - 1 + 1]
          BY <1>5, <3>3, <4>1
        <4> QED BY <2>4, <4>1, <4>2
      <3> QED BY <1>1, <3>3, <3>4, <3>5
    <2>7. Quiet'
      <3>1. queue' = queue
        BY <2>1 DEF Leave
      <3> QED BY <1>1, <2>3, <2>4, <2>5, <2>6, <3>1 DEF Quiet
    <2>8. Answered(r)'
      <3>1. shown' = shown
        BY <2>1
      <3>2. n - 1 \in 1 .. n /\ n \in 1 .. n /\ n \in {2, 3}
        BY <1>1, <1>6, <2>2
      <3>3. /\ Fits(shown[r][n - 1], 1, r) /\ Fits(shown[r][n], 2, r)
            /\ n = 3 => Fits(shown[r][1], 0, r)
        <4>1. n - 1 - l = 1 /\ n - l = 2 /\ (n = 3 => 1 - l = 0 /\ 1 \in 1 .. n)
          BY <1>1, <1>6, <2>2
        <4> QED BY <1>6, <3>2, <4>1
      <3>4. /\ shown[r][n - 1].kind = "echo" /\ shown[r][n - 1].of = <<r>>
            /\ shown[r][n].kind = "reply" /\ shown[r][n].of = <<r>>
            /\ n = 3 => shown[r][1].kind = "rest"
        BY <3>3, Script
      <3> QED BY <3>1, <3>2, <3>4 DEF Answered, n
    <2>9. \A q \in Runs : /\ stage'[q] # "reading"
                          /\ q # r => stage'[q] = stage[q]
      BY <1>1, <1>3, <2>1 DEF Leave
    <2>10. \A q \in Runs : Answered(q) => Answered(q)'
      BY <2>1 DEF Answered
    <2> QED BY <2>7, <2>8, <2>9, <2>10 DEF CalmInv
  <1>8. CASE ~StopsAt(Head(bank))
    <2>1. /\ shown' = [shown EXCEPT ![r] = Append(@, Head(bank))] /\ bank' = Tail(bank)
          /\ UNCHANGED <<stage, opened, typed, line, queue, printed, notices>>
      BY <1>8 DEF Read
    <2>2. /\ Len(shown'[r]) = n + 1 /\ shown'[r][n + 1] = bank[1]
          /\ \A k \in 1 .. n : shown'[r][k] = shown[r][k]
      <3>1. shown'[r] = Append(shown[r], Head(bank))
        BY <1>4, <2>1
      <3> QED BY <1>4, <1>5, <3>1, Appended
    <2> HIDE DEF n, b, l
    <2>3. Lead(r)' = l
      <3>1. Due' = Due /\ Due \in {0, 1, 4}
        BY <2>1 DEF Due
      <3>2. Lead(r)' = Len(shown'[r]) + Len(bank') + Len(queue') - Due'
        BY DEF Lead
      <3> QED BY <1>1, <1>5, <1>6, <2>1, <2>2, <3>1, <3>2
    <2>4. \A k \in 1 .. n + 1 : Fits(shown'[r][k], k - l, r)
      <3> SUFFICES ASSUME NEW k \in 1 .. n + 1 PROVE Fits(shown'[r][k], k - l, r)
        OBVIOUS
      <3>1. CASE k = n + 1
        BY <1>1, <1>6, <2>2, <3>1
      <3>2. CASE k # n + 1
        <4>1. k \in 1 .. n
          BY <1>1, <3>2
        <4> QED BY <1>6, <2>2, <4>1
      <3> QED BY <3>1, <3>2
    <2>5. \A k \in 1 .. b - 1 : Fits(bank'[k], n + 1 + k - l, r)
      <3> SUFFICES ASSUME NEW k \in 1 .. b - 1 PROVE Fits(bank'[k], n + 1 + k - l, r)
        OBVIOUS
      <3>1. k + 1 \in 1 .. b /\ n + (k + 1) - l = n + 1 + k - l
        BY <1>1, <1>6
      <3>2. bank'[k] = bank[k + 1]
        BY <1>5, <2>1
      <3> QED BY <1>6, <3>1, <3>2
    <2>6. \A k \in 1 .. Len(queue) : Fits(queue[k], n + 1 + (b - 1) + k - l, r)
      <3> SUFFICES ASSUME NEW k \in 1 .. Len(queue)
                   PROVE  Fits(queue[k], n + 1 + (b - 1) + k - l, r)
        OBVIOUS
      <3>1. n + 1 + (b - 1) + k - l = n + b + k - l
        BY <1>1, <1>6
      <3> QED BY <1>6, <3>1
    <2>7. Waits(r)'
      <3>1. (Nothing(r) \/ Echoed(r) \/ Replied)'
        BY <1>2, <2>1 DEF Waits, Nothing, Echoed, Replied
      <3> QED BY <1>5, <1>6, <2>1, <2>2, <2>3, <2>4, <2>5, <2>6, <3>1 DEF Waits
    <2>8. \A q \in Runs : q # r /\ Answered(q) => Answered(q)'
      BY <1>4, <2>1 DEF Answered
    <2> QED BY <1>1, <1>3, <2>1, <2>7, <2>8 DEF CalmInv
  <1> QED BY <1>7, <1>8

(* A run that reads finds the unit where its command is.                    *)
LEMMA CalmReceive ==
    ASSUME HostInv, CalmInv, Calm, Receive
    PROVE  CalmInv'
  <1>1. /\ queue = <<>> /\ typed # <<>> /\ typed' = Tail(typed)
        /\ UNCHANGED <<stage, shown, opened, bank, printed, notices>>
    BY DEF Receive
  <1>2. ~Quiet
    BY <1>1 DEF Quiet, Replied
  <1>3. PICK r \in Runs : stage[r] = "reading" /\ Waits(r)
    BY <1>2 DEF CalmInv
  <1>4. \A q \in Runs : q # r => stage[q] # "reading"
    BY <1>3 DEF HostInv, Alone, IsOpen
  <1> DEFINE n == Len(shown[r])
             b == Len(bank)
             l == Lead(r)
  <1>5. n \in Nat /\ b \in Nat /\ Len(queue) = 0
    BY <1>1, Lengths
  <1>6. /\ l \in {0, 1} /\ l = n + b + 0 - Due
        /\ \A k \in 1 .. n : Fits(shown[r][k], k - l, r)
        /\ \A k \in 1 .. b : Fits(bank[k], n + k - l, r)
    BY <1>3, <1>5 DEF Waits, Lead
  <1>7. /\ <<r, FALSE>>[1] = r /\ <<r, FALSE>>[2] = FALSE
        /\ <<r, TRUE>>[1] = r /\ <<r, TRUE>>[2] = TRUE
    OBVIOUS
  <1>8. ASSUME Lead(r)' = l, (Nothing(r) \/ Echoed(r) \/ Replied)',
               \A k \in 1 .. Len(queue') : Fits(queue'[k], n + b + k - l, r)
        PROVE  CalmInv'
    <2>1. Waits(r)'
      BY <1>1, <1>6, <1>8 DEF Waits
    <2>2. \A q \in Runs : Answered(q) => Answered(q)'
      BY <1>1 DEF Answered
    <2> QED BY <1>1, <1>3, <1>4, <2>1, <2>2 DEF CalmInv
  <1>9. CASE Nothing(r)
    <2>1. Head(typed) = <<r, FALSE>> /\ Tail(typed) = << <<r, TRUE>> >> /\ line = <<>>
      BY <1>9, ShortTuples DEF Nothing
    <2>2. queue' = <<Piece("echo", <<r>>)>> /\ line' = <<r>>
      <3>1. Append(<<>>, r) = <<r>>
        OBVIOUS
      <3> QED BY <1>7, <2>1, <3>1 DEF Receive
    <2>3. Echoed(r)'
      BY <1>1, <2>1, <2>2 DEF Echoed
    <2>4. Due = 0 /\ Due' = 1
      <3>1. Len(typed') = 1
        BY <2>3 DEF Echoed
      <3>2. Due' = 1
        BY <3>1 DEF Due
      <3> QED BY <1>9, <3>2, DueBy
    <2>5. Len(queue') = 1 /\ queue'[1] = Piece("echo", <<r>>)
      BY <2>2
    <2> HIDE DEF n, b, l
    <2>6. Lead(r)' = l
      <3>1. Lead(r)' = n + b + Len(queue') - Due'
        BY <1>1 DEF Lead, n, b
      <3> QED BY <1>5, <1>6, <2>4, <2>5, <3>1
    <2>7. \A k \in 1 .. Len(queue') : Fits(queue'[k], n + b + k - l, r)
      <3>1. n + b + 1 - l = 1
        BY <1>5, <1>6, <2>4
      <3>2. Fits(Piece("echo", <<r>>), 1, r)
        BY DEF Fits, ScriptKind, Piece
      <3>3. \A k \in 1 .. Len(queue') : k = 1
        BY <2>5
      <3> QED BY <2>5, <3>1, <3>2, <3>3
    <2> QED BY <1>8, <2>3, <2>6, <2>7
  <1>10. CASE Echoed(r)
    <2>1. Head(typed) = <<r, TRUE>> /\ Tail(typed) = <<>> /\ line = <<r>>
      BY <1>10, ShortTuples DEF Echoed
    <2>2. queue' = Reply(<<r>>) /\ line' = <<>>
      BY <1>7, <2>1 DEF Receive
    <2>3. Replied'
      BY <1>1, <2>1, <2>2 DEF Replied
    <2>4. Due = 1 /\ Due' = 4
      <3>1. Len(typed') = 0
        BY <2>3 DEF Replied
      <3>2. Due' = 4
        BY <3>1 DEF Due
      <3> QED BY <1>10, <3>2, DueBy
    <2>5. queue' = <<Piece("reply", <<r>>)>> \o <<Piece("#", <<>>), Piece("rest", <<>>)>>
      BY <2>2 DEF Reply, Prompt
    <2>6. /\ Len(queue') = 3 /\ queue'[1] = Piece("reply", <<r>>)
          /\ queue'[2] = Piece("#", <<>>) /\ queue'[3] = Piece("rest", <<>>)
      BY <2>5, ShortTuples
    <2> HIDE DEF n, b, l
    <2>7. Lead(r)' = l
      <3>1. Lead(r)' = n + b + Len(queue') - Due'
        BY <1>1 DEF Lead, n, b
      <3> QED BY <1>5, <1>6, <2>4, <2>6, <3>1
    <2>8. \A k \in 1 .. Len(queue') : Fits(queue'[k], n + b + k - l, r)
      <3>1. n + b + 1 - l = 2 /\ n + b + 2 - l = 3 /\ n + b + 3 - l = 4
        BY <1>5, <1>6, <2>4
      <3>2. /\ Fits(Piece("reply", <<r>>), 2, r) /\ Fits(Piece("#", <<>>), 3, r)
            /\ Fits(Piece("rest", <<>>), 4, r)
        BY DEF Fits, ScriptKind, Piece
      <3>3. \A k \in 1 .. Len(queue') : k \in {1, 2, 3}
        BY <2>6
      <3> QED BY <2>6, <3>1, <3>2, <3>3
    <2> QED BY <1>8, <2>3, <2>7, <2>8
  <1> QED BY <1>1, <1>3, <1>9, <1>10 DEF Waits, Replied

LEMMA CalmPrint ==
    ASSUME HostInv, CalmInv, Calm, PrintPiece
    PROVE  CalmInv'
  <1> DEFINE e == [n |-> printed', kind |-> Head(queue).kind, of |-> Head(queue).of]
             b == Len(bank)
             m == Len(queue)
  <1>1. /\ queue # <<>> /\ (Room \/ ~PortOpen) /\ queue' = Tail(queue)
        /\ bank' = IF Room THEN Append(bank, e) ELSE bank
        /\ UNCHANGED <<stage, shown, opened, typed, line, notices>>
    BY DEF PrintPiece
  <1>2. b \in Nat /\ m \in Nat /\ m > 0 /\ \A r \in Runs : Len(shown[r]) \in Nat
    BY <1>1, Lengths
  <1>3. /\ Head(queue) = queue[1] /\ Len(queue') = m - 1
        /\ \A k \in 1 .. m - 1 : queue'[k] = queue[k + 1]
    <2>1. queue \in Seq(Item)
      BY DEF HostInv, HostTypeOK, Item, Kinds
    <2>2. /\ Head(queue) = queue[1] /\ Len(Tail(queue)) = Len(queue) - 1
          /\ \A k \in 1 .. Len(Tail(queue)) : Tail(queue)[k] = queue[k + 1]
      BY <1>1, <2>1, HeadTailProperties
    <2> QED BY <1>1, <2>2
  <1>4. e.kind = queue[1].kind /\ e.of = queue[1].of
    BY <1>3
  <1>5. Due' = Due /\ Due \in {0, 1, 4}
    BY <1>1 DEF Due
  <1> HIDE DEF e
  <1>6. Room => /\ Len(bank') = b + 1 /\ bank'[b + 1] = e
                /\ \A k \in 1 .. b : bank'[k] = bank[k]
    <2>1. bank \in Seq(Pieces(1 .. printed) \cup {e})
      <3>1. bank \in Seq(Pieces(1 .. printed))
        BY DEF HostInv, HostTypeOK
      <3> QED BY <3>1, SeqMonotonic
    <2> QED BY <1>1, <2>1, Appended
  <1>7. \A r \in Runs : Answered(r) => Answered(r)'
    BY <1>1 DEF Answered
  <1>8. ASSUME NEW r \in Runs, stage[r] = "reading" PROVE Waits(r)'
    <2> DEFINE n == Len(shown[r])
               l == Lead(r)
    <2>1. Room /\ Waits(r)
      BY <1>1, <1>8 DEF PortOpen, IsOpen, CalmInv
    <2>2. /\ l \in {0, 1} /\ l = n + b + m - Due
          /\ \A k \in 1 .. n : Fits(shown[r][k], k - l, r)
          /\ \A k \in 1 .. b : Fits(bank[k], n + k - l, r)
          /\ \A k \in 1 .. m : Fits(queue[k], n + b + k - l, r)
      BY <2>1 DEF Waits, Lead
    <2>3. n \in Nat
      BY <1>2
    <2>4. Lead(r)' = n + Len(bank') + Len(queue') - Due'
      BY <1>1 DEF Lead
    <2> HIDE DEF n, b, m, l
    <2>5. Lead(r)' = l
      BY <1>2, <1>3, <1>5, <1>6, <2>1, <2>2, <2>3, <2>4
    <2>6. \A k \in 1 .. b + 1 : Fits(bank'[k], n + k - l, r)
      <3> SUFFICES ASSUME NEW k \in 1 .. b + 1 PROVE Fits(bank'[k], n + k - l, r)
        OBVIOUS
      <3>1. CASE k = b + 1
        <4>1. n + b + 1 - l = n + k - l /\ 1 \in 1 .. m /\ bank'[k] = e
          BY <1>2, <1>6, <2>1, <2>2, <2>3, <3>1
        <4>2. Fits(queue[1], n + k - l, r)
          BY <2>2, <4>1
        <4> QED BY <1>4, <4>1, <4>2 DEF Fits
      <3>2. CASE k # b + 1
        <4>1. k \in 1 .. b
          BY <1>2, <3>2
        <4> QED BY <1>6, <2>1, <2>2, <4>1
      <3> QED BY <3>1, <3>2
    <2>7. \A k \in 1 .. m - 1 : Fits(queue'[k], n + (b + 1) + k - l, r)
      <3> SUFFICES ASSUME NEW k \in 1 .. m - 1 PROVE Fits(queue'[k], n + (b + 1) + k - l, r)
        OBVIOUS
      <3>1. k + 1 \in 1 .. m /\ n + b + (k + 1) - l = n + (b + 1) + k - l
        BY <1>2, <2>2, <2>3
      <3> QED BY <1>3, <2>2, <3>1
    <2>8. (Nothing(r) \/ Echoed(r) \/ Replied)'
      BY <1>1, <2>1 DEF Waits, Nothing, Echoed, Replied
    <2> QED BY <1>1, <1>3, <1>6, <2>1, <2>2, <2>5, <2>6, <2>7, <2>8 DEF Waits, n, l
  <1>9. ASSUME Quiet PROVE Quiet'
    <2>1. /\ b + m <= 1 /\ queue[1].kind = "rest" /\ Replied
      BY <1>2, <1>9 DEF Quiet
    <2>2. Replied'
      BY <1>1, <2>1 DEF Replied
    <2>3. Len(queue') = 0 /\ b = 0
      BY <1>2, <1>3, <2>1
    <2>4. Len(bank') <= 1 /\ Len(bank') \in Nat /\ \A k \in 1 .. Len(bank') : bank'[k].kind = "rest"
      <3>1. CASE Room
        <4>1. Len(bank') = 1 /\ bank'[1] = e
          BY <1>6, <2>3, <3>1
        <4>2. \A k \in 1 .. Len(bank') : k = 1
          BY <4>1
        <4> QED BY <1>4, <2>1, <4>1, <4>2
      <3>2. CASE ~Room
        BY <1>1, <2>3, <3>2
      <3> QED BY <3>1, <3>2
    <2> QED BY <2>2, <2>3, <2>4 DEF Quiet
  <1>10. \A r \in Runs : stage'[r] = stage[r]
    BY <1>1
  <1> QED BY <1>7, <1>8, <1>9, <1>10 DEF CalmInv

LEMMA CalmStep == HostInv /\ CalmInv /\ [Next]_vars => CalmInv'
  <1> SUFFICES ASSUME HostInv, CalmInv, [Next]_vars, Calm' PROVE CalmInv'
    BY DEF CalmInv
  <1>1. CASE UNCHANGED vars
    BY <1>1 DEF vars, unit, CalmInv, Calm, Waits, Nothing, Echoed, Replied, Due, Lead, Quiet, Answered
  <1>2. CASE Next
    BY <1>2, CalmBefore, CalmOpen, CalmSend, CalmRead, CalmReceive, CalmPrint DEF Next, Unit
  <1> QED BY <1>1, <1>2

(* For any number of runs and a bank of any size: as long as the unit prints *)
(* nothing of its own and no run gives up, every run shows its own reply.   *)
THEOREM RunsShowTheirReplies == Spec => []CalmReplies
  <1>1. Init => CalmInv
    <2> SUFFICES ASSUME Init PROVE CalmInv
      OBVIOUS
    <2>1. typed = <<>> /\ line = <<>> /\ Len(bank) = 0 /\ Len(queue) = 0
      BY DEF Init
    <2>2. \A r \in Runs : stage[r] = "new"
      BY DEF Init
    <2> QED BY <2>1, <2>2 DEF CalmInv, Quiet, Replied
  <1>2. CalmInv => CalmReplies
    BY DEF CalmInv, CalmReplies
  <1> QED BY <1>1, <1>2, CalmStep, HostAlways, PTL DEF Spec

=============================================================================
